------------------------- MODULE BootProtocolProofs -------------------------
(* What holds of the bootloader for every word length, every set of          *)
(* programs and every room, with any number of starts and faults.            *)
EXTENDS BootProtocol, SequenceTheorems, TLAPS

-----------------------------------------------------------------------------
(* Lines.                                                                    *)

LEMMA FirstFacts ==
  ASSUME NEW S, NEW s \in Seq(S), NEW n \in 0 .. Len(s)
  PROVE  /\ First(s, n) \in Seq(S) /\ Len(First(s, n)) = n
         /\ \A i \in 1 .. n : First(s, n)[i] = s[i]
  BY LenProperties, SubSeqProperties DEF First

LEMMA DropFacts ==
  ASSUME NEW S, NEW s \in Seq(S), NEW n \in 0 .. Len(s)
  PROVE  /\ Drop(s, n) \in Seq(S) /\ Len(Drop(s, n)) = Len(s) - n
         /\ \A i \in 1 .. Len(s) - n : Drop(s, n)[i] = s[n + i]
  <1>1. /\ Len(s) \in Nat /\ n \in Nat /\ n + 1 \in Int /\ Len(s) \in Int
        /\ \A i \in (n + 1) .. Len(s) : s[i] \in S
    BY LenProperties
  <1>2. QED  BY <1>1, SubSeqProperties DEF Drop

LEMMA MiddleFacts ==
  ASSUME NEW S, NEW s \in Seq(S), NEW m \in 1 .. Len(s), NEW n \in m .. Len(s)
  PROVE  SubSeq(s, m, n) \in Seq(S)
  <1>1. Len(s) \in Nat /\ m \in Int /\ n \in Int /\ \A i \in m .. n : s[i] \in S
    BY LenProperties
  <1>2. QED  BY <1>1, SubSeqProperties

\* A line falls apart where it was put together.
LEMMA SplitConcat ==
  ASSUME NEW S, NEW a \in Seq(S), NEW b \in Seq(S)
  PROVE  /\ Len(a \o b) = Len(a) + Len(b) /\ a \o b \in Seq(S)
         /\ First(a \o b, Len(a)) = a /\ Drop(a \o b, Len(a)) = b
  <1>1. PICK c : c = a \o b
    OBVIOUS
  <1>2. /\ c \in Seq(S) /\ Len(c) = Len(a) + Len(b)
        /\ \A i \in 1 .. Len(a) + Len(b) : c[i] = IF i <= Len(a) THEN a[i] ELSE b[i - Len(a)]
    BY <1>1, ConcatProperties
  <1>3. Len(a) \in Nat /\ Len(b) \in Nat /\ Len(a) \in 0 .. Len(c)
    BY <1>2, LenProperties
  <1>4. First(c, Len(a)) = a
    <2>1. PICK f : f = First(c, Len(a))
      OBVIOUS
    <2>2. f \in Seq(S) /\ Len(f) = Len(a) /\ \A i \in 1 .. Len(a) : f[i] = c[i]
      BY <2>1, <1>2, <1>3, FirstFacts
    <2>3. \A i \in 1 .. Len(f) : f[i] = a[i]
      BY <1>2, <1>3, <2>2
    <2>4. QED  BY <2>1, <2>2, <2>3, SeqEqual
  <1>5. Drop(c, Len(a)) = b
    <2>1. PICK f : f = Drop(c, Len(a))
      OBVIOUS
    <2>2. /\ f \in Seq(S) /\ Len(f) = Len(b)
          /\ \A i \in 1 .. Len(b) : f[i] = c[Len(a) + i]
      <3>1. /\ f \in Seq(S) /\ Len(f) = Len(c) - Len(a)
            /\ \A i \in 1 .. Len(c) - Len(a) : f[i] = c[Len(a) + i]
        BY <2>1, <1>2, <1>3, DropFacts
      <3>2. Len(c) - Len(a) = Len(b)
        BY <1>2, <1>3
      <3>3. QED  BY <3>1, <3>2
    <2>3. ASSUME NEW i \in 1 .. Len(b)  PROVE f[i] = b[i]
      <3>1. Len(a) + i \in 1 .. Len(a) + Len(b) /\ ~(Len(a) + i <= Len(a))
            /\ (Len(a) + i) - Len(a) = i
        BY <1>3
      <3>2. QED  BY <3>1, <2>2, <1>2
    <2>4. \A i \in 1 .. Len(f) : f[i] = b[i]
      BY <2>2, <2>3
    <2>5. QED  BY <2>1, <2>2, <2>4, SeqEqual
  <1>6. QED  BY <1>1, <1>2, <1>4, <1>5

\* What is dropped does not depend on what follows it.
LEMMA DropConcat ==
  ASSUME NEW S, NEW a \in Seq(S), NEW b \in Seq(S), NEW n \in 0 .. Len(a)
  PROVE  Drop(a \o b, n) = Drop(a, n) \o b
  <1>1. PICK c : c = a \o b
    OBVIOUS
  <1>2. PICK d : d = Drop(a, n)
    OBVIOUS
  <1>3. /\ c \in Seq(S) /\ Len(c) = Len(a) + Len(b)
        /\ \A i \in 1 .. Len(a) + Len(b) : c[i] = IF i <= Len(a) THEN a[i] ELSE b[i - Len(a)]
    BY <1>1, ConcatProperties
  <1>4. Len(a) \in Nat /\ Len(b) \in Nat /\ n \in 0 .. Len(c)
    BY <1>3, LenProperties
  <1>5. /\ d \in Seq(S) /\ Len(d) = Len(a) - n
        /\ \A i \in 1 .. Len(a) - n : d[i] = a[n + i]
    BY <1>2, DropFacts
  <1>6. PICK e : e = d \o b
    OBVIOUS
  <1>7. PICK f : f = Drop(c, n)
    OBVIOUS
  <1>8. /\ e \in Seq(S) /\ Len(e) = Len(a) - n + Len(b)
        /\ \A i \in 1 .. Len(a) - n + Len(b) :
             e[i] = IF i <= Len(a) - n THEN d[i] ELSE b[i - (Len(a) - n)]
    <2>1. /\ e \in Seq(S) /\ Len(e) = Len(d) + Len(b)
          /\ \A i \in 1 .. Len(d) + Len(b) : e[i] = IF i <= Len(d) THEN d[i] ELSE b[i - Len(d)]
      BY <1>5, <1>6, ConcatProperties
    <2>2. QED  BY <2>1, <1>5
  <1>9. /\ f \in Seq(S) /\ Len(f) = Len(a) + Len(b) - n
        /\ \A i \in 1 .. Len(a) + Len(b) - n : f[i] = c[n + i]
    <2>1. /\ f \in Seq(S) /\ Len(f) = Len(c) - n
          /\ \A i \in 1 .. Len(c) - n : f[i] = c[n + i]
      BY <1>3, <1>4, <1>7, DropFacts
    <2>2. QED  BY <2>1, <1>3
  <1>10. ASSUME NEW i \in 1 .. Len(f)  PROVE f[i] = e[i]
    <2>1. n + i \in 1 .. Len(a) + Len(b) /\ i \in 1 .. Len(a) - n + Len(b)
          /\ (n + i) - Len(a) = i - (Len(a) - n)
          /\ (n + i <= Len(a) <=> i \in 1 .. Len(a) - n)
          /\ (n + i <= Len(a) <=> i <= Len(a) - n)
      BY <1>4, <1>9
    <2>2. CASE n + i <= Len(a)
      <3>1. f[i] = c[n + i] /\ c[n + i] = a[n + i]
        BY <2>1, <2>2, <1>3, <1>9
      <3>2. e[i] = d[i] /\ d[i] = a[n + i]
        BY <2>1, <2>2, <1>5, <1>8
      <3>3. QED  BY <3>1, <3>2
    <2>3. CASE ~(n + i <= Len(a))
      <3>1. f[i] = c[n + i] /\ c[n + i] = b[(n + i) - Len(a)]
        BY <2>1, <2>3, <1>3, <1>9
      <3>2. e[i] = b[i - (Len(a) - n)]
        BY <2>1, <2>3, <1>8
      <3>3. QED  BY <2>1, <3>1, <3>2
    <2>4. QED  BY <2>2, <2>3
  <1>11. f = e
    <2>1. Len(f) = Len(e) /\ \A i \in 1 .. Len(f) : f[i] = e[i]
      BY <1>4, <1>8, <1>9, <1>10
    <2>2. QED  BY <2>1, <1>8, <1>9, SeqEqual
  <1>12. QED  BY <1>1, <1>2, <1>6, <1>7, <1>11

-----------------------------------------------------------------------------
(* Words.                                                                    *)

LEMMA FunctionLine ==
  ASSUME NEW S, NEW n \in Nat, NEW f \in [1 .. n -> S]
  PROVE  f \in Seq(S) /\ Len(f) = n
  <1>1. f \in Seq(S)
    BY SeqDef
  <1>2. Len(f) \in Nat /\ 1 .. n = 1 .. Len(f)
    BY <1>1, LenProperties
  <1>3. QED  BY <1>1, <1>2

LEMMA WordFacts ==
  ASSUME NEW S, NEW kind, NEW v, \A k \in 1 .. WL : <<kind, v, k>> \in S
  PROVE  /\ Word(kind, v) \in Seq(S) /\ Len(Word(kind, v)) = WL
         /\ \A k \in 1 .. WL : Word(kind, v)[k] = <<kind, v, k>>
         /\ Word(kind, v)[1] = <<kind, v, 1>>
  <1> DEFINE B(k) == <<kind, v, k>>
             w == [k \in 1 .. WL |-> B(k)]
  <1>1. \A k \in 1 .. WL : B(k) \in S
    OBVIOUS
  <1>2. WL \in Nat /\ 1 \in 1 .. WL
    BY BootAssumption
  <1>3. w = Word(kind, v)
    BY DEF Word
  <1> HIDE DEF B
  <1>4. w \in [1 .. WL -> S] /\ \A k \in 1 .. WL : w[k] = B(k)
    BY <1>1
  <1> HIDE DEF w
  <1>5. w \in Seq(S) /\ Len(w) = WL
    BY <1>2, <1>4, FunctionLine
  <1>6. QED  BY <1>2, <1>3, <1>4, <1>5 DEF B

LEMMA FirstByte == ASSUME NEW kind, NEW v PROVE Word(kind, v)[1] = <<kind, v, 1>>
  <1> DEFINE S == {<<kind, v, k>> : k \in 1 .. WL}
  <1>1. \A k \in 1 .. WL : <<kind, v, k>> \in S
    OBVIOUS
  <1>2. QED  BY <1>1, WordFacts

LEMMA WordsDiffer ==
  ASSUME NEW k1, NEW v1, NEW k2, NEW v2, Word(k1, v1) = Word(k2, v2)
  PROVE  k1 = k2 /\ v1 = v2
  <1>1. <<k1, v1, 1>> = <<k2, v2, 1>>
    BY FirstByte
  <1>2. QED  BY <1>1

\* The bytes of every message are bytes of the line; those of the Pi's but
\* BOOT_SUCCESS do not hold the first byte of one.
NoSuccess == Bytes \ {BOOT_SUCCESS[1]}

LEMMA OpBytes ==
  ASSUME NEW i \in 1 .. 7
  PROVE  /\ Word("op", i) \in Seq(Bytes) /\ Len(Word("op", i)) = WL
         /\ i # 5 => Word("op", i) \in Seq(NoSuccess)
  <1>1. \A k \in 1 .. WL : <<"op", i, k>> \in Bytes
    BY DEF Bytes
  <1>2. ASSUME i # 5  PROVE \A k \in 1 .. WL : <<"op", i, k>> \in NoSuccess
    <2>1. BOOT_SUCCESS[1] = <<"op", 5, 1>>
      BY FirstByte DEF BOOT_SUCCESS
    <2>2. \A k \in 1 .. WL : <<"op", i, k>> # <<"op", 5, 1>>
      BY <1>2
    <2>3. QED  BY <1>1, <2>1, <2>2 DEF NoSuccess
  <1>3. Word("op", i) \in Seq(Bytes) /\ Len(Word("op", i)) = WL
    BY <1>1, WordFacts
  <1>4. ASSUME i # 5  PROVE Word("op", i) \in Seq(NoSuccess)
    <2>1. \A k \in 1 .. WL : <<"op", i, k>> \in NoSuccess
      BY <1>2, <1>4
    <2>2. QED  BY ONLY <2>1, WordFacts
  <1>5. QED  BY <1>3, <1>4

-----------------------------------------------------------------------------
(* Messages.                                                                 *)

\* What may come from a laptop that has been started with the programs of T:
\* no code but theirs, and no BOOT_SUCCESS.
FromLaptop(T) == {b \in NoSuccess : \A p \in Prog, i \in Nat : b = <<"code", p, i>> => p \in T}

LEMMA FromLaptopBytes ==
  ASSUME NEW T, NEW U, T \subseteq U
  PROVE  /\ FromLaptop(T) \subseteq FromLaptop(U)
         /\ FromLaptop(T) \subseteq NoSuccess /\ NoSuccess \subseteq Bytes
  BY DEF FromLaptop, NoSuccess

LEMMA BadByte == ASSUME NEW T PROVE Bad \in FromLaptop(T) /\ Bad \in NoSuccess /\ Bad \in Bytes
  <1>1. Bad \in Bytes
    BY DEF Bytes
  <1>2. Bad # BOOT_SUCCESS[1]
    <2>1. BOOT_SUCCESS[1] = <<"op", 5, 1>>
      BY FirstByte DEF BOOT_SUCCESS
    <2>2. QED  BY <2>1 DEF Bad
  <1>3. \A p \in Prog, i \in Nat : Bad # <<"code", p, i>>
    BY DEF Bad
  <1>4. QED  BY <1>1, <1>2, <1>3 DEF FromLaptop, NoSuccess

\* Words that are not opcodes.
LEMMA OtherWord ==
  ASSUME NEW T, NEW kind \in {"addr", "num", "crc"}, NEW v,
         \A k \in 1 .. WL : <<kind, v, k>> \in Bytes
  PROVE  Word(kind, v) \in Seq(FromLaptop(T)) /\ Len(Word(kind, v)) = WL
  <1>1. BOOT_SUCCESS[1] = <<"op", 5, 1>>
    BY FirstByte DEF BOOT_SUCCESS
  <1>2. ASSUME NEW k \in 1 .. WL  PROVE <<kind, v, k>> \in FromLaptop(T)
    <2>1. <<kind, v, k>> # <<"op", 5, 1>>
      OBVIOUS
    <2>2. \A p \in Prog, i \in Nat : <<kind, v, k>> # <<"code", p, i>>
      OBVIOUS
    <2>3. QED  BY <1>1, <2>1, <2>2 DEF FromLaptop, NoSuccess
  <1>3. QED  BY <1>2, WordFacts

LEMMA OpFromLaptop ==
  ASSUME NEW T
  PROVE  PUT_PROG_INFO \in Seq(FromLaptop(T)) /\ PUT_CODE \in Seq(FromLaptop(T))
  <1>1. ASSUME NEW i \in {2, 4}  PROVE Word("op", i) \in Seq(FromLaptop(T))
    <2>1. BOOT_SUCCESS[1] = <<"op", 5, 1>>
      BY FirstByte DEF BOOT_SUCCESS
    <2>2. ASSUME NEW k \in 1 .. WL  PROVE <<"op", i, k>> \in FromLaptop(T)
      <3>1. <<"op", i, k>> # <<"op", 5, 1>> /\ <<"op", i, k>> \in Bytes
        BY <1>1 DEF Bytes
      <3>2. \A p \in Prog, j \in Nat : <<"op", i, k>> # <<"code", p, j>>
        OBVIOUS
      <3>3. QED  BY <2>1, <3>1, <3>2 DEF FromLaptop, NoSuccess
    <2>3. QED  BY <2>2, WordFacts
  <1>2. QED  BY <1>1 DEF PUT_PROG_INFO, PUT_CODE

LEMMA CodeFacts ==
  ASSUME NEW p \in Prog
  PROVE  /\ Code(p) \in Seq(FromLaptop({p})) /\ Len(Code(p)) = CodeLen[p]
         /\ CodeLen[p] \in Nat \ {0} /\ CodeLen[p] \in Sizes
         /\ Code(p)[1] = <<"code", p, 1>>
  <1> DEFINE B(i) == <<"code", p, i>>
             n == CodeLen[p]
             c == [i \in 1 .. n |-> B(i)]
             S == FromLaptop({p})
  <1>1. n \in Nat \ {0}
    BY BootAssumption
  <1>2. ASSUME NEW i \in 1 .. n  PROVE B(i) \in S
    <2>1. BOOT_SUCCESS[1] = <<"op", 5, 1>>
      BY FirstByte DEF BOOT_SUCCESS
    <2>2. B(i) # <<"op", 5, 1>>
      OBVIOUS
    <2>3. B(i) \in Bytes
      BY DEF Bytes
    <2>4. \A q \in Prog, j \in Nat : B(i) = <<"code", q, j>> => q \in {p}
      OBVIOUS
    <2>5. QED  BY <2>1, <2>2, <2>3, <2>4 DEF FromLaptop, NoSuccess
  <1>3. c = Code(p) /\ B(1) = <<"code", p, 1>>
    BY DEF Code
  <1> HIDE DEF B, S
  <1>4. c \in [1 .. n -> S] /\ \A i \in 1 .. n : c[i] = B(i)
    BY <1>2
  <1>5. n \in Sizes
    BY DEF Sizes
  <1> HIDE DEF c, n
  <1>6. c \in Seq(S) /\ Len(c) = n
    BY <1>1, <1>4, FunctionLine
  <1>7. QED  BY <1>1, <1>3, <1>4, <1>5, <1>6 DEF S, n

LEMMA ExitFacts ==
  /\ ExitString \in Seq(NoSuccess) /\ Len(ExitString) = 2 * WL
  /\ \A k \in 1 .. 2 * WL : ExitString[k] = Char(k)
  /\ \A k \in 0 .. 2 * WL + 1 : Char(k) \in NoSuccess
  <1> DEFINE n == 2 * WL
  <1>1. n \in Nat
    BY BootAssumption
  <1>2. ASSUME NEW k \in 0 .. 2 * WL + 1  PROVE Char(k) \in NoSuccess
    <2>1. BOOT_SUCCESS[1] = <<"op", 5, 1>>
      BY FirstByte DEF BOOT_SUCCESS
    <2>2. Char(k) # <<"op", 5, 1>>
      BY DEF Char
    <2>3. QED  BY <2>1, <2>2 DEF NoSuccess, Bytes
  <1>3. ExitString \in [1 .. n -> NoSuccess] /\ \A k \in 1 .. n : ExitString[k] = Char(k)
    BY <1>1, <1>2 DEF ExitString
  <1>4. QED  BY <1>1, <1>2, <1>3, FunctionLine

LEMMA CodesDiffer ==
  ASSUME NEW p \in Prog, NEW q \in Prog, Code(p) = Code(q)
  PROVE  p = q
  <1>1. <<"code", p, 1>> = <<"code", q, 1>>
    BY CodeFacts
  <1>2. QED  BY <1>1

LEMMA HeaderFacts ==
  ASSUME NEW p \in Prog
  PROVE  /\ ARMBASE \in Seq(FromLaptop({p})) /\ Len(ARMBASE) = WL
         /\ Number(CodeLen[p]) \in Seq(FromLaptop({p})) /\ Len(Number(CodeLen[p])) = WL
         /\ Crc(p) \in Seq(FromLaptop({p})) /\ Len(Crc(p)) = WL
         /\ Number(1) \in Seq(NoSuccess) /\ Len(Number(1)) = WL
  <1>1. ARMBASE \in Seq(FromLaptop({p})) /\ Len(ARMBASE) = WL
    <2>1. \A k \in 1 .. WL : <<"addr", 1, k>> \in Bytes  BY DEF Bytes
    <2>2. QED  BY <2>1, OtherWord DEF ARMBASE
  <1>2. ASSUME NEW n \in {1} \cup {CodeLen[q] : q \in Prog}
        PROVE  Number(n) \in Seq(FromLaptop({p})) /\ Len(Number(n)) = WL
    <2>1. \A k \in 1 .. WL : <<"num", n, k>> \in Bytes  BY DEF Bytes
    <2>2. QED  BY <2>1, OtherWord DEF Number
  <1>3. Crc(p) \in Seq(FromLaptop({p})) /\ Len(Crc(p)) = WL
    <2>1. \A k \in 1 .. WL : <<"crc", p, k>> \in Bytes  BY DEF Bytes
    <2>2. QED  BY <2>1, OtherWord DEF Crc
  <1>4. Number(1) \in Seq(NoSuccess)
    BY <1>2, FromLaptopBytes, SeqMonotonic
  <1>5. QED  BY <1>1, <1>2, <1>3, <1>4

\* Lines stay lines of the same bytes.
LEMMA SuffixIn == ASSUME NEW S, NEW s \in Seq(S), NEW t \in Suffixes(s) PROVE t \in Seq(S)
  <1>1. PICK k \in 0 .. Len(s) : t = Drop(s, k)
    BY DEF Suffixes
  <1>2. QED  BY <1>1, DropFacts

LEMMA WithoutIn ==
  ASSUME NEW S, NEW s \in Seq(S), NEW i \in 1 .. Len(s)
  PROVE  Without(s, i) \in Seq(S)
  <1>1. Len(s) \in Nat /\ i - 1 \in 0 .. Len(s) /\ i \in 0 .. Len(s)
    BY LenProperties
  <1>2. First(s, i - 1) \in Seq(S) /\ Drop(s, i) \in Seq(S)
    BY <1>1, FirstFacts, DropFacts
  <1>3. QED  BY <1>2, ConcatProperties DEF Without

LEMMA ReadIn ==
  ASSUME NEW S, NEW s \in Seq(S), NEW n \in Nat, Has(s, n)
  PROVE  Drop(s, n) \in Seq(S) /\ First(s, n) \in Seq(S) /\ Len(First(s, n)) = n
  <1>1. n \in 0 .. Len(s)
    BY LenProperties DEF Has
  <1>2. QED  BY <1>1, FirstFacts, DropFacts

-----------------------------------------------------------------------------
(* Requests.                                                                 *)

\* Whole words more or less do not move a byte within its word.
LEMMA ModShift ==
  ASSUME NEW a \in Nat, NEW j \in Nat, NEW m \in Nat \ {0}
  PROVE  (a + j * m) % m = a % m
  <1> DEFINE b == a + j * m
             d == a \div m   r == a % m
             e == b \div m   t == b % m
  <1>1. d \in Int /\ r \in 0 .. m - 1 /\ a = m * d + r
    OBVIOUS
  <1>2. b \in Nat
    OBVIOUS
  <1>3. b = a + j * m
    OBVIOUS
  <1> HIDE DEF b
  <1>4. e \in Int /\ t \in 0 .. m - 1 /\ b = m * e + t
    BY <1>2
  <1> HIDE DEF d, r, e, t
  <1>5. m * (e - d - j) = r - t
    BY <1>1, <1>3, <1>4
  <1>6. CASE e - d - j >= 1
    <2>1. m * (e - d - j) >= m  BY <1>1, <1>4, <1>6
    <2>2. QED  BY <2>1, <1>1, <1>4, <1>5
  <1>7. CASE e - d - j <= -1
    <2>1. m * (e - d - j) <= -m  BY <1>1, <1>4, <1>7
    <2>2. QED  BY <2>1, <1>1, <1>4, <1>5
  <1>8. CASE e - d - j = 0
    BY <1>1, <1>4, <1>5, <1>8 DEF r, t, b
  <1>9. QED  BY <1>1, <1>4, <1>6, <1>7, <1>8

LEMMA RequestsFacts ==
  ASSUME NEW k \in Nat
  PROVE  /\ Requests(k) \in Seq(NoSuccess) /\ Len(Requests(k)) = k * WL /\ k * WL \in Nat
         /\ \A i \in 1 .. k * WL : /\ ((i - 1) % WL) + 1 \in 1 .. WL
                                  /\ Requests(k)[i] = GET_PROG_INFO[((i - 1) % WL) + 1]
  <1>1. WL \in Nat \ {0}
    BY BootAssumption
  <1>2. k * WL \in Nat
    BY <1>1
  <1>3. ASSUME NEW i \in 1 .. k * WL  PROVE ((i - 1) % WL) + 1 \in 1 .. WL
    BY <1>1, <1>2
  <1>4. GET_PROG_INFO \in Seq(NoSuccess) /\ Len(GET_PROG_INFO) = WL
    BY OpBytes DEF GET_PROG_INFO
  <1>5. \A j \in 1 .. WL : GET_PROG_INFO[j] \in NoSuccess
    BY <1>4, ElementOfSeq
  <1> DEFINE n == k * WL
             G(i) == GET_PROG_INFO[((i - 1) % WL) + 1]
             f == [i \in 1 .. n |-> G(i)]
  <1>6. \A i \in 1 .. n : G(i) \in NoSuccess
    BY <1>3, <1>5
  <1>7. f = Requests(k)
    BY DEF Requests
  <1> HIDE DEF G, n
  <1>8. f \in [1 .. n -> NoSuccess] /\ \A i \in 1 .. n : f[i] = G(i)
    BY <1>6
  <1> HIDE DEF f
  <1>9. f \in Seq(NoSuccess) /\ Len(f) = n
    BY <1>2, <1>8, FunctionLine DEF n
  <1>10. QED  BY <1>2, <1>3, <1>7, <1>8, <1>9 DEF G, n

LEMMA ConcatRequests ==
  ASSUME NEW j \in Nat, NEW k \in Nat
  PROVE  Requests(j) \o Requests(k) = Requests(j + k)
  <1>1. WL \in Nat \ {0} /\ j * WL \in Nat /\ k * WL \in Nat /\ (j + k) * WL = j * WL + k * WL
    BY BootAssumption
  <1>2. PICK a, b, c, d : /\ a = Requests(j) /\ b = Requests(k) /\ c = Requests(j + k)
                          /\ d = a \o b
    OBVIOUS
  <1>3. PICK m, n : m = j * WL /\ n = k * WL
    OBVIOUS
  <1>4. /\ a \in Seq(NoSuccess) /\ Len(a) = m
        /\ \A i \in 1 .. m : a[i] = GET_PROG_INFO[((i - 1) % WL) + 1]
    BY <1>2, <1>3, RequestsFacts
  <1>5. /\ b \in Seq(NoSuccess) /\ Len(b) = n
        /\ \A i \in 1 .. n : b[i] = GET_PROG_INFO[((i - 1) % WL) + 1]
    BY <1>2, <1>3, RequestsFacts
  <1>6. /\ c \in Seq(NoSuccess) /\ Len(c) = m + n
        /\ \A i \in 1 .. m + n : c[i] = GET_PROG_INFO[((i - 1) % WL) + 1]
    <2>1. j + k \in Nat /\ (j + k) * WL = m + n
      BY <1>1, <1>3
    <2>2. QED  BY <1>2, <2>1, RequestsFacts
  <1>7. /\ d \in Seq(NoSuccess) /\ Len(d) = m + n
        /\ \A i \in 1 .. m + n : d[i] = IF i <= m THEN a[i] ELSE b[i - m]
    <2>1. /\ a \o b \in Seq(NoSuccess) /\ Len(a \o b) = Len(a) + Len(b)
          /\ \A i \in 1 .. Len(a) + Len(b) :
               (a \o b)[i] = IF i <= Len(a) THEN a[i] ELSE b[i - Len(a)]
      BY ONLY <1>4, <1>5, ConcatProperties
    <2>2. Len(a) = m /\ Len(b) = n /\ d = a \o b
      BY <1>2, <1>4, <1>5
    <2>3. QED  BY ONLY <2>1, <2>2
  <1>8. ASSUME NEW i \in 1 .. m + n  PROVE d[i] = c[i]
    <2>1. CASE i <= m
      <3>1. i \in 1 .. m  BY <1>1, <1>3, <2>1
      <3>2. QED  BY <2>1, <3>1, <1>4, <1>6, <1>7
    <2>2. CASE ~(i <= m)
      <3>1. i - m \in 1 .. n /\ i - m - 1 \in Nat /\ i - 1 = (i - m - 1) + j * WL
        BY <1>1, <1>3, <2>2
      <3>2. (i - 1) % WL = (i - m - 1) % WL
        <4>1. ((i - m - 1) + j * WL) % WL = (i - m - 1) % WL
          BY <1>1, <3>1, ModShift
        <4>2. QED  BY <3>1, <4>1
      <3>3. QED  BY <2>2, <3>1, <3>2, <1>5, <1>6, <1>7
    <2>3. QED  BY <2>1, <2>2
  <1>9. c = d
    BY <1>1, <1>3, <1>6, <1>7, <1>8, SeqEqual
  <1>10. QED  BY <1>2, <1>9

LEMMA OneRequest == Requests(1) = GET_PROG_INFO /\ Requests(0) = << >>
  <1>1. WL \in Nat \ {0} /\ 1 * WL = WL /\ 0 * WL = 0
    BY BootAssumption
  <1>2. /\ Requests(1) \in Seq(NoSuccess) /\ Len(Requests(1)) = WL
        /\ \A i \in 1 .. WL : Requests(1)[i] = GET_PROG_INFO[((i - 1) % WL) + 1]
    BY <1>1, RequestsFacts
  <1>3. \A i \in 1 .. WL : ((i - 1) % WL) + 1 = i
    BY <1>1
  <1>4. GET_PROG_INFO \in Seq(NoSuccess) /\ Len(GET_PROG_INFO) = WL
    BY OpBytes DEF GET_PROG_INFO
  <1>5. Requests(1) = GET_PROG_INFO
    BY <1>2, <1>3, <1>4, SeqEqual
  <1>6. Requests(0) = << >>
    BY <1>1, RequestsFacts, EmptySeq
  <1>7. QED  BY <1>5, <1>6

\* Stale lines, byte by byte.
LEMMA StaleIntro ==
  ASSUME NEW s \in Seq(Bytes), NEW m \in 0 .. Len(s), \A i \in 1 .. m : s[i] \in Stray,
         NEW k \in Nat, Len(s) = m + k * WL,
         \A i \in 1 .. k * WL : s[m + i] = GET_PROG_INFO[((i - 1) % WL) + 1]
  PROVE  Stale(s)
  <1>1. WL \in Nat \ {0} /\ Len(s) \in Nat /\ k * WL \in Nat /\ Len(s) - m = k * WL
    BY BootAssumption, LenProperties
  <1>2. k <= k * WL
    BY <1>1
  <1>3. k \in 0 .. Len(s)
    BY <1>1, <1>2
  <1>4. /\ Drop(s, m) \in Seq(Bytes) /\ Len(Drop(s, m)) = k * WL
        /\ \A i \in 1 .. k * WL : Drop(s, m)[i] = s[m + i]
    <2>1. /\ Drop(s, m) \in Seq(Bytes) /\ Len(Drop(s, m)) = Len(s) - m
          /\ \A i \in 1 .. Len(s) - m : Drop(s, m)[i] = s[m + i]
      BY DropFacts
    <2>2. QED  BY <1>1, <2>1
  <1>5. Requests(k) \in Seq(Bytes)
    <2>1. Requests(k) \in Seq(NoSuccess) /\ NoSuccess \subseteq Bytes
      BY RequestsFacts DEF NoSuccess
    <2>2. QED  BY <2>1, SeqMonotonic
  <1>6. \A i \in 1 .. k * WL : Drop(s, m)[i] = Requests(k)[i]
    BY <1>4, RequestsFacts
  <1>7. Drop(s, m) = Requests(k)
    BY <1>4, <1>5, <1>6, RequestsFacts, SeqEqual
  <1>8. QED  BY <1>3, <1>7 DEF Stale

LEMMA StaleElim ==
  ASSUME NEW s \in Seq(Bytes), Stale(s)
  PROVE  \E m \in 0 .. Len(s), k \in Nat :
           /\ \A i \in 1 .. m : s[i] \in Stray
           /\ Len(s) = m + k * WL /\ k * WL \in Nat
           /\ \A i \in 1 .. k * WL : s[m + i] = GET_PROG_INFO[((i - 1) % WL) + 1]
           /\ Drop(s, m) = Requests(k)
  <1>1. PICK m \in 0 .. Len(s) : /\ \A i \in 1 .. m : s[i] \in Stray
                                /\ \E k \in 0 .. Len(s) : Drop(s, m) = Requests(k)
    BY DEF Stale
  <1>2. PICK k \in 0 .. Len(s) : Drop(s, m) = Requests(k)
    BY <1>1
  <1>3. Len(s) \in Nat /\ k \in Nat /\ m \in Nat
    BY LenProperties
  <1>4. /\ Len(Drop(s, m)) = Len(s) - m
        /\ \A i \in 1 .. Len(s) - m : Drop(s, m)[i] = s[m + i]
    BY DropFacts
  <1>5. /\ Len(s) - m = k * WL /\ k * WL \in Nat
        /\ \A i \in 1 .. k * WL : Requests(k)[i] = GET_PROG_INFO[((i - 1) % WL) + 1]
    BY <1>2, <1>3, <1>4, RequestsFacts
  <1>6. Len(s) = m + k * WL
    BY <1>3, <1>5
  <1>7. \A i \in 1 .. k * WL : s[m + i] = GET_PROG_INFO[((i - 1) % WL) + 1]
    BY <1>2, <1>4, <1>5
  <1>8. QED  BY <1>1, <1>2, <1>3, <1>5, <1>6, <1>7

LEMMA StrayFacts ==
  /\ Stray \subseteq NoSuccess /\ GET_PROG_INFO[1] \notin Stray
  /\ <<"op", 7, 1>> \notin Stray /\ GET_PROG_INFO[1] # <<"op", 7, 1>>
  /\ \A k \in 1 .. WL : /\ GET_PROG_INFO[k] \in NoSuccess
                        /\ GET_PROG_INFO[k] # <<"op", 7, 1>>
                        /\ k # 1 => GET_PROG_INFO[k] \in Stray
  <1>1. /\ \A k \in 1 .. WL : GET_PROG_INFO[k] = <<"op", 1, k>>
        /\ GET_PROG_INFO[1] = <<"op", 1, 1>> /\ GET_PROG_INFO \in Seq(NoSuccess)
        /\ Len(GET_PROG_INFO) = WL
    <2>1. \A k \in 1 .. WL : <<"op", 1, k>> \in Bytes  BY DEF Bytes
    <2>2. QED  BY <2>1, WordFacts, OpBytes DEF GET_PROG_INFO
  <1>2. \A k \in 1 .. WL : GET_PROG_INFO[k] \in NoSuccess
    BY <1>1, ElementOfSeq
  <1>3. WL \in Nat
    BY BootAssumption
  <1>4. Stray \subseteq NoSuccess
    BY <1>2, <1>3, BadByte, ExitFacts DEF Stray
  <1>5. \A k \in 2 .. WL : GET_PROG_INFO[k] = <<"op", 1, k>> /\ k # 1 /\ k \in 1 .. WL
    BY <1>1, <1>3
  <1>6. ASSUME NEW b \in Stray  PROVE b # <<"op", 1, 1>> /\ b # <<"op", 7, 1>>
    <2>1. CASE b = Bad
      BY <2>1 DEF Bad
    <2>2. CASE b \in {Char(k) : k \in 0 .. 2 * WL + 1}
      BY <2>2 DEF Char
    <2>3. CASE b \in {GET_PROG_INFO[k] : k \in 2 .. WL}
      <3>1. PICK k \in 2 .. WL : b = <<"op", 1, k>> /\ k # 1
        BY <2>3, <1>5
      <3>2. QED  BY <3>1
    <2>4. QED  BY <2>1, <2>2, <2>3 DEF Stray
  <1>7. \A k \in 1 .. WL : k # 1 => GET_PROG_INFO[k] \in Stray
    BY <1>3 DEF Stray
  <1>8. \A k \in 1 .. WL : <<"op", 1, k>> # <<"op", 7, 1>>
    OBVIOUS
  <1>9. <<"op", 1, 1>> # <<"op", 7, 1>>
    OBVIOUS
  <1>10. QED  BY <1>1, <1>2, <1>4, <1>6, <1>7, <1>8, <1>9

\* No byte of a stale line begins a PRINT_STRING or a BOOT_SUCCESS.
LEMMA StaleBytes ==
  ASSUME NEW s \in Seq(Bytes), Stale(s)
  PROVE  /\ s \in Seq(NoSuccess)
         /\ \A i \in 1 .. Len(s) : s[i] # <<"op", 7, 1>>
  <1>1. PICK m \in 0 .. Len(s), k \in Nat :
           /\ \A i \in 1 .. m : s[i] \in Stray
           /\ Len(s) = m + k * WL /\ k * WL \in Nat
           /\ \A i \in 1 .. k * WL : s[m + i] = GET_PROG_INFO[((i - 1) % WL) + 1]
    BY StaleElim
  <1>2. ASSUME NEW i \in 1 .. Len(s)  PROVE s[i] \in NoSuccess /\ s[i] # <<"op", 7, 1>>
    <2>1. CASE i <= m
      <3>1. i \in 1 .. m
        BY <1>1, <2>1
      <3>2. s[i] \in Stray
        BY <1>1, <3>1
      <3>3. QED  BY ONLY <3>2, StrayFacts
    <2>2. CASE ~(i <= m)
      <3>1. i - m \in 1 .. k * WL /\ m + (i - m) = i
        BY <1>1, <2>2
      <3>2. s[i] = GET_PROG_INFO[((i - m - 1) % WL) + 1] /\ ((i - m - 1) % WL) + 1 \in 1 .. WL
        BY <1>1, <3>1, RequestsFacts
      <3>3. QED  BY <3>2, StrayFacts
    <2>3. QED  BY <2>1, <2>2
  <1>3. s \in [1 .. Len(s) -> NoSuccess] /\ Len(s) \in Nat
    BY <1>2, LenProperties
  <1>4. QED  BY <1>2, <1>3, FunctionLine

\* What is left of a stale line is stale.
LEMMA StaleDrop ==
  ASSUME NEW s \in Seq(Bytes), Stale(s), NEW n \in 0 .. Len(s)
  PROVE  Stale(Drop(s, n))
  <1>1. PICK m \in 0 .. Len(s), k \in Nat :
           /\ \A i \in 1 .. m : s[i] \in Stray
           /\ Len(s) = m + k * WL /\ k * WL \in Nat
           /\ \A i \in 1 .. k * WL : s[m + i] = GET_PROG_INFO[((i - 1) % WL) + 1]
    BY StaleElim
  <1>2. PICK t : t = Drop(s, n)
    OBVIOUS
  <1>3. t \in Seq(Bytes) /\ Len(t) = Len(s) - n /\ \A i \in 1 .. Len(s) - n : t[i] = s[n + i]
    BY <1>2, DropFacts
  <1>4. WL \in Nat \ {0} /\ Len(s) \in Nat /\ n \in Nat /\ m \in Nat
    BY BootAssumption, LenProperties
  <1>5. CASE n <= m
    <2>1. m - n \in 0 .. Len(t) /\ Len(t) = (m - n) + k * WL
      BY <1>1, <1>3, <1>4, <1>5
    <2>2. \A i \in 1 .. m - n : t[i] \in Stray
      <3>1. \A i \in 1 .. m - n : n + i \in 1 .. m /\ i \in 1 .. Len(s) - n
        BY <1>1, <1>4, <1>5
      <3>2. QED  BY <3>1, <1>1, <1>3
    <2>3. ASSUME NEW i \in 1 .. k * WL
          PROVE  t[(m - n) + i] = GET_PROG_INFO[((i - 1) % WL) + 1]
      <3>1. PICK j : j = (m - n) + i
        OBVIOUS
      <3>2. j \in 1 .. Len(s) - n /\ n + j = m + i
        BY <3>1, <1>1, <1>4, <1>5
      <3>3. t[j] = s[m + i] /\ s[m + i] = GET_PROG_INFO[((i - 1) % WL) + 1]
        BY <3>2, <1>1, <1>3
      <3>4. QED  BY <3>1, <3>3
    <2>4. QED  BY <1>2, <1>3, <2>1, <2>2, <2>3, StaleIntro
  <1>6. CASE ~(n <= m)
    <2> DEFINE l == Len(t)
               q == l \div WL
               r == l % WL
    <2>1. l \in Nat /\ l = m + k * WL - n
      BY <1>1, <1>3, <1>4
    <2>2. q \in Nat /\ r \in 0 .. WL - 1 /\ l = q * WL + r
      BY <2>1, <1>4
    <2> HIDE DEF q, r
    <2>3. k * WL = n - m + l /\ q * WL <= k * WL /\ q * WL \in Nat
      BY <2>1, <2>2, <1>1, <1>4, <1>6
    <2>4. ASSUME NEW i \in 1 .. l
          PROVE  t[i] = GET_PROG_INFO[((n - m + i - 1) % WL) + 1] /\ n - m + i - 1 \in Nat
      <3>1. n - m + i \in 1 .. k * WL /\ i \in 1 .. Len(s) - n /\ m + (n - m + i) = n + i
            /\ n - m + i - 1 \in Nat
        BY <2>1, <1>1, <1>4, <1>6
      <3>2. PICK j : j = n - m + i
        OBVIOUS
      <3>3. j \in 1 .. k * WL /\ m + j = n + i /\ j - 1 = n - m + i - 1
        BY <3>1, <3>2, <1>4
      <3>4. t[i] = s[m + j]
        BY <3>1, <3>3, <1>3
      <3>5. s[m + j] = GET_PROG_INFO[((j - 1) % WL) + 1]
        BY <3>3, <1>1
      <3>6. QED  BY <3>1, <3>3, <3>4, <3>5
    <2>5. q < k
      <3>1. CASE q >= k
        <4>1. q * WL >= k * WL  BY <2>2, <1>4, <3>1
        <4>2. QED  BY <4>1, <2>1, <2>2, <2>3, <1>4, <1>6
      <3>2. QED  BY <3>1, <2>2
    <2>6. k - q \in Nat \ {0} /\ k - q - 1 \in Nat
      BY <2>2, <2>5
    <2>7. n - m = (k - q) * WL - r /\ n - m = (k - q - 1) * WL + (WL - r)
      BY <2>1, <2>2, <2>3, <2>6, <1>4
    <2>8. ASSUME NEW i \in 1 .. r  PROVE t[i] \in Stray
      <3>1. WL - r + i - 1 \in 1 .. WL - 1
        BY <2>2, <1>4
      <3>2. n - m + i - 1 = (WL - r + i - 1) + (k - q - 1) * WL
        BY <2>2, <2>6, <2>7, <1>4
      <3>3. ((WL - r + i - 1) + (k - q - 1) * WL) % WL = (WL - r + i - 1) % WL
        <4>1. PICK a, j : a = WL - r + i - 1 /\ j = k - q - 1
          OBVIOUS
        <4>2. a \in Nat /\ j \in Nat
          BY <4>1, <3>1, <2>6, <1>4
        <4>3. (a + j * WL) % WL = a % WL
          BY <4>2, <1>4, ModShift
        <4>4. QED  BY <4>1, <4>3
      <3>4. (WL - r + i - 1) % WL = WL - r + i - 1
        BY <3>1, <1>4
      <3>5. ((n - m + i - 1) % WL) + 1 \in 2 .. WL
        BY <3>1, <3>2, <3>3, <3>4, <1>4
      <3>6. i \in 1 .. l
        BY <2>1, <2>2, <2>3
      <3>7. QED  BY <3>5, <3>6, <2>4, <1>4, StrayFacts
    <2>9. ASSUME NEW i \in 1 .. q * WL  PROVE t[r + i] = GET_PROG_INFO[((i - 1) % WL) + 1]
      <3>1. r + i \in 1 .. l /\ n - m + (r + i) - 1 = (i - 1) + (k - q) * WL /\ i - 1 \in Nat
        BY <2>1, <2>2, <2>3, <2>6, <2>7, <1>4
      <3>2. ((i - 1) + (k - q) * WL) % WL = (i - 1) % WL
        BY <3>1, <2>6, <1>4, ModShift
      <3>3. QED  BY <3>1, <3>2, <2>4
    <2>10. r \in 0 .. Len(t) /\ Len(t) = r + q * WL
      BY <2>1, <2>2, <2>3
    <2>11. Stale(t)
      BY <1>3, <2>2, <2>8, <2>9, <2>10, StaleIntro
    <2>12. QED  BY <1>2, <2>11
  <1>7. QED  BY <1>5, <1>6

\* Another request keeps a line stale, and a program's last characters are.
LEMMA StaleAsk ==
  ASSUME NEW s \in Seq(Bytes), Stale(s)
  PROVE  s \o GET_PROG_INFO \in Seq(Bytes) /\ Stale(s \o GET_PROG_INFO)
  <1>1. PICK m \in 0 .. Len(s), k \in Nat :
           /\ \A i \in 1 .. m : s[i] \in Stray
           /\ Len(s) = m + k * WL /\ k * WL \in Nat
           /\ \A i \in 1 .. k * WL : s[m + i] = GET_PROG_INFO[((i - 1) % WL) + 1]
    BY StaleElim
  <1>2. GET_PROG_INFO \in Seq(Bytes) /\ Len(GET_PROG_INFO) = WL /\ WL \in Nat \ {0}
    BY OpBytes, BootAssumption DEF GET_PROG_INFO
  <1>3. PICK t : t = s \o GET_PROG_INFO
    OBVIOUS
  <1>4. /\ t \in Seq(Bytes) /\ Len(t) = Len(s) + WL /\ Len(s) \in Nat
        /\ \A i \in 1 .. Len(s) + WL : t[i] = IF i <= Len(s) THEN s[i]
                                               ELSE GET_PROG_INFO[i - Len(s)]
    BY <1>2, <1>3, ConcatProperties, LenProperties
  <1>5. k + 1 \in Nat /\ (k + 1) * WL = k * WL + WL /\ m \in Nat
        /\ Len(t) = m + (k + 1) * WL /\ m \in 0 .. Len(t)
    <2>1. k + 1 \in Nat /\ (k + 1) * WL = k * WL + WL
      BY <1>2
    <2>2. PICK j, n \in Int : j = k * WL /\ n = Len(s)
      BY <1>1, <1>4
    <2>3. j \in Nat /\ n = m + j /\ m \in 0 .. n
      BY <1>1, <1>4, <2>2
    <2>4. Len(t) = n + WL /\ (k + 1) * WL = j + WL
      BY <1>4, <2>1, <2>2
    <2>5. QED  BY ONLY <1>2, <2>1, <2>3, <2>4
  <1>6. \A i \in 1 .. m : t[i] \in Stray
    <2>1. Len(s) \in Nat
      BY <1>4
    <2>2. \A i \in 1 .. m : i \in 1 .. Len(s) + WL /\ i <= Len(s)
      BY <1>2, <2>1
    <2>3. QED  BY <1>1, <1>4, <2>2
  <1>7. ASSUME NEW i \in 1 .. (k + 1) * WL
        PROVE  t[m + i] = GET_PROG_INFO[((i - 1) % WL) + 1]
    <2>1. CASE i <= k * WL
      <3>1. i \in 1 .. k * WL /\ m + i \in 1 .. Len(s) + WL /\ m + i <= Len(s)
        BY <2>1, <1>1, <1>2, <1>5
      <3>2. QED  BY <3>1, <1>1, <1>4
    <2>2. CASE ~(i <= k * WL)
      <3>1. /\ m + i \in 1 .. Len(s) + WL /\ ~(m + i <= Len(s))
            /\ (m + i) - Len(s) = i - k * WL
            /\ i - k * WL - 1 \in 0 .. WL - 1 /\ i - 1 = (i - k * WL - 1) + k * WL
        BY <2>2, <1>1, <1>2, <1>5
      <3>2. ((i - k * WL - 1) + k * WL) % WL = (i - k * WL - 1) % WL
        <4>1. PICK a : a = i - k * WL - 1
          OBVIOUS
        <4>2. a \in Nat
          BY <4>1, <3>1, <1>2
        <4>3. (a + k * WL) % WL = a % WL
          BY <4>2, <1>2, ModShift
        <4>4. QED  BY <4>1, <4>3
      <3>3. (i - k * WL - 1) % WL = i - k * WL - 1
        <4>1. PICK a : a = i - k * WL - 1
          OBVIOUS
        <4>2. a \in 0 .. WL - 1
          BY <4>1, <3>1
        <4>3. a % WL = a
          BY <4>2, <1>2
        <4>4. QED  BY <4>1, <4>3
      <3>4. ((i - 1) % WL) + 1 = i - k * WL
        BY <3>1, <3>2, <3>3, <1>1
      <3>5. QED  BY <3>1, <3>4, <1>4
    <2>3. QED  BY <2>1, <2>2
  <1>8. Stale(t)
    BY <1>4, <1>5, <1>6, <1>7, StaleIntro
  <1>9. QED  BY <1>3, <1>4, <1>8

\* A line of stray bytes is stale.
LEMMA StaleStray ==
  ASSUME NEW s \in Seq(Bytes), \A i \in 1 .. Len(s) : s[i] \in Stray
  PROVE  Stale(s)
  <1>1. Len(s) \in Nat /\ WL \in Nat \ {0} /\ 0 * WL = 0
    BY BootAssumption, LenProperties
  <1>2. Len(s) \in 0 .. Len(s) /\ Len(s) = Len(s) + 0 * WL
    BY <1>1
  <1>3. \A i \in 1 .. 0 * WL : s[Len(s) + i] = GET_PROG_INFO[((i - 1) % WL) + 1]
    BY <1>1
  <1>4. QED  BY <1>2, <1>3, StaleIntro

\* A stale line that begins with a request is nothing but requests.
LEMMA StaleRequest ==
  ASSUME NEW s \in Seq(Bytes), Stale(s), Has(s, WL), First(s, WL) = GET_PROG_INFO
  PROVE  \E k \in Nat : Drop(s, WL) = Requests(k)
  <1>1. PICK m \in 0 .. Len(s), k \in Nat :
           /\ \A i \in 1 .. m : s[i] \in Stray
           /\ Len(s) = m + k * WL /\ k * WL \in Nat
           /\ Drop(s, m) = Requests(k)
    BY StaleElim
  <1>2. WL \in Nat \ {0} /\ Len(s) \in Nat /\ WL \in 0 .. Len(s) /\ 1 \in 1 .. WL
    BY BootAssumption, LenProperties DEF Has
  <1>3. s[1] = GET_PROG_INFO[1]
    <2>1. First(s, WL)[1] = s[1]
      BY <1>2, FirstFacts
    <2>2. QED  BY <2>1
  <1>4. m = 0
    <2>1. CASE m # 0
      <3>1. 1 \in 1 .. m  BY <2>1, <1>2
      <3>2. QED  BY <3>1, <1>1, <1>3, StrayFacts
    <2>2. QED  BY <2>1
  <1>5. s = Requests(k)
    <2>1. Drop(s, 0) = s
      BY SubSeqFull DEF Drop
    <2>2. QED  BY <2>1, <1>1, <1>4
  <1>6. k # 0
    <2>1. 0 * WL = 0  BY <1>2
    <2>2. QED  BY <2>1, <1>1, <1>2, <1>4
  <1>7. k - 1 \in Nat /\ 1 + (k - 1) = k
    BY <1>6
  <1>8. s = GET_PROG_INFO \o Requests(k - 1)
    <2>1. Requests(1) \o Requests(k - 1) = Requests(1 + (k - 1))
      BY <1>7, ConcatRequests
    <2>2. QED  BY <2>1, <1>5, <1>7, OneRequest
  <1>9. Drop(s, WL) = Requests(k - 1)
    <2>1. /\ GET_PROG_INFO \in Seq(NoSuccess) /\ Len(GET_PROG_INFO) = WL
          /\ Requests(k - 1) \in Seq(NoSuccess)
      BY <1>7, OpBytes, RequestsFacts DEF GET_PROG_INFO
    <2>2. QED  BY <2>1, <1>8, SplitConcat
  <1>10. QED  BY <1>7, <1>9

-----------------------------------------------------------------------------
(* With faults: the Pi passes only programs the laptop was started with, and *)
(* BOOT_SUCCESS leaves only after that.                                      *)

\* Places a checksum that fits leads to.
Passed == {"return", "run"}

Safe ==
    /\ unix.prog \in tried
    /\ toPi \in Seq(FromLaptop(tried))
    /\ pi.mem \in Seq(FromLaptop(tried)) /\ pi.cksum \in Seq(FromLaptop(tried))
    /\ verified # None => verified \in tried
    /\ pi.pc \in Passed => verified # None
    /\ verified = None => toUnix \in Seq(NoSuccess) /\ unix.pc \notin {"echo", "ended"}

SInv == TypeOK /\ Safe

LEMMA InitSafe == Init => SInv
  <1> SUFFICES ASSUME Init PROVE SInv
    OBVIOUS
  <1>1. PICK p \in Prog : unix = Start(p, 1) /\ tried = {p}
    BY DEF Init
  <1>2. \A S : << >> \in Seq(S) /\ Len(<< >>) = 0
    BY EmptySeq
  <1>3. toUnix \in Seq(NoSuccess) /\ toUnix \in Seq(Bytes)
    BY LineAssumption, StaleBytes DEF Init
  <1>4. 0 \in Sizes /\ 1 \in 1 .. MaxRuns /\ 0 \in 0 .. 2 * WL - 1 /\ 0 \in 0 .. MaxFaults
        /\ MaxFaults \in 0 .. MaxFaults
    BY BootAssumption DEF Sizes
  <1>5. pi = PiStart /\ toPi = << >> /\ verified = None /\ booted = None /\ restarted = FALSE
        /\ faults \in {0, MaxFaults} /\ calm = (faults = 0)
    BY DEF Init
  <1>6. TypeOK
    <2>1. pi \in PiState /\ Len(pi.mem) \in Sizes
      BY <1>2, <1>4, <1>5 DEF PiStart, PiState, Places
    <2>2. unix \in UnixState
      BY <1>1, <1>4 DEF Start, Booting, UnixState
    <2>3. {calm, restarted} \subseteq BOOLEAN
      BY <1>5
    <2>4. QED  BY <2>1, <2>2, <2>3, <1>1, <1>2, <1>3, <1>4, <1>5 DEF TypeOK
  <1>7. Safe
    BY <1>1, <1>2, <1>3, <1>5 DEF Safe, Start, PiStart, Passed
  <1>8. QED  BY <1>6, <1>7 DEF SInv

\* A step of the Pi keeps the invariant if what it leaves in its own state and
\* on the lines is allowed, and it passes only a program of tried.
LEMMA PiKeeps ==
  ASSUME SInv, UNCHANGED PiSide, restarted' \in BOOLEAN,
         pi' \in PiState, Len(pi'.mem) \in Sizes,
         pi'.mem \in Seq(FromLaptop(tried)), pi'.cksum \in Seq(FromLaptop(tried)),
         toPi' \in Seq(FromLaptop(tried)), toUnix' \in Seq(Bytes),
         booted' \in {booted, verified, Astray},
         \/ /\ verified' = verified /\ (pi'.pc \in Passed => pi.pc \in Passed)
            /\ verified = None => toUnix' \in Seq(NoSuccess)
         \/ verified' \in tried
  PROVE  SInv'
  <1>1. toPi' \in Seq(Bytes)
    BY FromLaptopBytes, SeqMonotonic DEF NoSuccess, FromLaptop
  <1>2. tried \subseteq Prog /\ verified' \in Prog \cup {None}
        /\ booted' \in Prog \cup {None, Astray}
    BY DEF SInv, TypeOK
  <1>3. verified' \in tried => verified' # None
    BY <1>2, BootAssumption DEF None
  <1>4. TypeOK'
    BY <1>1, <1>2 DEF SInv, TypeOK, PiSide
  <1>5. Safe'
    BY <1>3 DEF SInv, Safe, PiSide
  <1>6. QED  BY <1>4, <1>5 DEF SInv

\* The same for a step of the laptop.
LEMMA UnixKeeps ==
  ASSUME SInv, UNCHANGED <<pi, faults, calm, verified, booted, tried>>, restarted' \in BOOLEAN,
         unix' \in UnixState, unix'.prog = unix.prog,
         toPi' \in Seq(FromLaptop(tried)), toUnix' \in Seq(Bytes),
         verified = None => toUnix' \in Seq(NoSuccess) /\ unix'.pc \notin {"echo", "ended"}
  PROVE  SInv'
  <1>1. toPi' \in Seq(Bytes)
    BY FromLaptopBytes, SeqMonotonic DEF NoSuccess, FromLaptop
  <1>2. TypeOK'
    BY <1>1 DEF SInv, TypeOK
  <1>3. Safe'
    BY DEF SInv, Safe
  <1>4. QED  BY <1>2, <1>3 DEF SInv

LEMMA AskSafe == SInv /\ (Ask \/ SeeData) => SInv'
  <1> SUFFICES ASSUME SInv, Ask \/ SeeData PROVE SInv'
    OBVIOUS
  <1>1. pi \in PiState /\ Len(pi.mem) \in Sizes /\ toUnix \in Seq(Bytes) /\ restarted \in BOOLEAN
        /\ pi.mem \in Seq(FromLaptop(tried)) /\ pi.cksum \in Seq(FromLaptop(tried))
        /\ toPi \in Seq(FromLaptop(tried)) /\ (verified = None => toUnix \in Seq(NoSuccess))
    BY DEF SInv, TypeOK, Safe
  <1>2. GET_PROG_INFO \in Seq(NoSuccess) /\ GET_PROG_INFO \in Seq(Bytes)
    BY OpBytes DEF GET_PROG_INFO
  <1>3. CASE Ask
    <2>1. pi' \in PiState /\ pi'.mem = pi.mem /\ pi'.cksum = pi.cksum
          /\ pi'.pc \notin Passed
      BY <1>1, <1>3 DEF Ask, PiState, Passed
    <2>2. toUnix' \in Seq(Bytes) /\ (verified = None => toUnix' \in Seq(NoSuccess))
      BY <1>1, <1>2, <1>3, ConcatProperties DEF Ask
    <2>3. QED  BY <1>1, <1>3, <2>1, <2>2, PiKeeps DEF Ask
  <1>4. CASE SeeData
    <2>1. pi' \in PiState /\ pi'.mem = pi.mem /\ pi'.cksum = pi.cksum
          /\ pi'.pc \notin Passed
      BY <1>1, <1>4 DEF SeeData, PiState, Passed
    <2>2. QED  BY <1>1, <1>4, <2>1, PiKeeps DEF SeeData
  <1>5. QED  BY <1>3, <1>4

LEMMA RefuseLine ==
  ASSUME toUnix \in Seq(Bytes), verified = None => toUnix \in Seq(NoSuccess)
  PROVE  /\ toUnix \o BOOT_ERROR \o ExitString \in Seq(Bytes)
         /\ verified = None => toUnix \o BOOT_ERROR \o ExitString \in Seq(NoSuccess)
  <1>1. BOOT_ERROR \in Seq(NoSuccess) /\ BOOT_ERROR \in Seq(Bytes)
    BY OpBytes DEF BOOT_ERROR
  <1>2. ExitString \in Seq(NoSuccess) /\ ExitString \in Seq(Bytes)
    BY ExitFacts, SeqMonotonic DEF NoSuccess
  <1>3. toUnix \o BOOT_ERROR \in Seq(Bytes)
    BY <1>1, ConcatProperties
  <1>4. verified = None => toUnix \o BOOT_ERROR \in Seq(NoSuccess)
    BY <1>1, ConcatProperties
  <1>5. QED  BY <1>2, <1>3, <1>4, ConcatProperties

LEMMA ExpectSafe ==
  ASSUME NEW pc, NEW op, NEW next \in {"args", "load"}, SInv, Expect(pc, op, next)
  PROVE  SInv'
  <1>1. pi \in PiState /\ Len(pi.mem) \in Sizes /\ toUnix \in Seq(Bytes) /\ restarted \in BOOLEAN
        /\ pi.mem \in Seq(FromLaptop(tried)) /\ pi.cksum \in Seq(FromLaptop(tried))
        /\ toPi \in Seq(FromLaptop(tried)) /\ (verified = None => toUnix \in Seq(NoSuccess))
    BY DEF SInv, TypeOK, Safe
  <1>2. toPi' \in Seq(FromLaptop(tried))
    BY <1>1, BootAssumption, ReadIn DEF Expect
  <1>3. pi' \in PiState /\ pi'.mem = pi.mem /\ pi'.cksum = pi.cksum
        /\ pi'.pc \notin Passed
    BY <1>1 DEF Expect, Refuse, PiState, Passed
  <1>4. toUnix' \in Seq(Bytes) /\ (verified = None => toUnix' \in Seq(NoSuccess))
    BY <1>1, RefuseLine DEF Expect, Refuse
  <1>5. QED  BY <1>1, <1>2, <1>3, <1>4, PiKeeps DEF Expect

LEMMA GetArgsSafe == SInv /\ GetArgs => SInv'
  <1> SUFFICES ASSUME SInv, GetArgs PROVE SInv'
    OBVIOUS
  <1>1. pi \in PiState /\ Len(pi.mem) \in Sizes /\ toUnix \in Seq(Bytes) /\ restarted \in BOOLEAN
        /\ pi.mem \in Seq(FromLaptop(tried)) /\ pi.cksum \in Seq(FromLaptop(tried))
        /\ toPi \in Seq(FromLaptop(tried)) /\ (verified = None => toUnix \in Seq(NoSuccess))
    BY DEF SInv, TypeOK, Safe
  <1>2. 3 * WL \in Nat /\ 2 * WL + 1 \in Nat
    BY BootAssumption
  <1>3. toPi' \in Seq(FromLaptop(tried))
    BY <1>1, <1>2, ReadIn DEF GetArgs
  <1>4. SubSeq(toPi, 2 * WL + 1, 3 * WL) \in Seq(FromLaptop(tried))
    <2>1. Len(toPi) \in Nat /\ Len(toPi) >= 3 * WL /\ WL \in Nat \ {0}
      BY <1>1, BootAssumption, LenProperties DEF GetArgs, Has
    <2>2. 2 * WL + 1 \in 1 .. Len(toPi) /\ 3 * WL \in (2 * WL + 1) .. Len(toPi)
      BY <2>1
    <2>3. QED  BY <1>1, <2>2, MiddleFacts
  <1>5. \A w : LengthsOf(w) \subseteq Sizes
    <2>1. {0, Room, Room + 1} \subseteq Sizes
      BY BootAssumption DEF Sizes
    <2>2. QED  BY <2>1 DEF LengthsOf
  <1>6. PICK addr \in PlacesOf(First(toPi, WL)),
             n \in LengthsOf(SubSeq(toPi, WL + 1, 2 * WL)) :
             \E collision \in Collides(addr, n) :
               pi' = [pi EXCEPT !.pc = IF collision THEN "refuse" ELSE "reply",
                                !.addr = addr, !.n = n,
                                !.cksum = SubSeq(toPi, 2 * WL + 1, 3 * WL)]
    BY Zenon DEF GetArgs
  <1>7. SubSeq(toPi, 2 * WL + 1, 3 * WL) \in Seq(Bytes)
    BY <1>4, FromLaptopBytes, SeqMonotonic
  <1>8. /\ pi' \in PiState /\ pi'.mem = pi.mem
        /\ pi'.cksum = SubSeq(toPi, 2 * WL + 1, 3 * WL) /\ pi'.pc \notin Passed
    <2>1. PICK to \in {"refuse", "reply"} :
            pi' = [pi EXCEPT !.pc = to, !.addr = addr, !.n = n,
                             !.cksum = SubSeq(toPi, 2 * WL + 1, 3 * WL)]
      <3>1. PICK collision \in Collides(addr, n) :
              pi' = [pi EXCEPT !.pc = IF collision THEN "refuse" ELSE "reply",
                               !.addr = addr, !.n = n,
                               !.cksum = SubSeq(toPi, 2 * WL + 1, 3 * WL)]
        BY <1>6, Zenon
      <3>2. CASE collision
        BY <3>1, <3>2
      <3>3. CASE ~collision
        BY <3>1, <3>3
      <3>4. QED  BY <3>2, <3>3
    <2>2. addr \in Places
      BY DEF PlacesOf, Places
    <2>3. QED  BY <2>1, <2>2, <1>1, <1>5, <1>7 DEF PiState, Passed
  <1>9. UNCHANGED <<toUnix, verified, booted, restarted, PiSide>>
    BY DEF GetArgs
  <1>10. QED  BY <1>1, <1>3, <1>4, <1>8, <1>9, PiKeeps

LEMMA AnswerSafe == SInv /\ Answer => SInv'
  <1> SUFFICES ASSUME SInv, Answer PROVE SInv'
    OBVIOUS
  <1>1. pi \in PiState /\ Len(pi.mem) \in Sizes /\ toUnix \in Seq(Bytes) /\ restarted \in BOOLEAN
        /\ pi.mem \in Seq(FromLaptop(tried)) /\ pi.cksum \in Seq(FromLaptop(tried))
        /\ toPi \in Seq(FromLaptop(tried)) /\ (verified = None => toUnix \in Seq(NoSuccess))
    BY DEF SInv, TypeOK, Safe
  <1>2. pi' \in PiState /\ pi'.mem = pi.mem /\ pi'.cksum = pi.cksum
        /\ pi'.pc \notin Passed
    BY <1>1 DEF Answer, Refuse, PiState, Passed
  <1>3. toUnix' \in Seq(Bytes) /\ (verified = None => toUnix' \in Seq(NoSuccess))
    <2>1. pi.cksum \in Seq(NoSuccess) /\ pi.cksum \in Seq(Bytes)
      BY <1>1, SeqMonotonic DEF FromLaptop, NoSuccess
    <2>2. GET_CODE \in Seq(NoSuccess) /\ GET_CODE \in Seq(Bytes)
      BY OpBytes DEF GET_CODE
    <2>3. toUnix \o GET_CODE \in Seq(Bytes) /\ (verified = None => toUnix \o GET_CODE \in Seq(NoSuccess))
      BY <1>1, <2>2, ConcatProperties
    <2>4. /\ toUnix \o GET_CODE \o pi.cksum \in Seq(Bytes)
          /\ verified = None => toUnix \o GET_CODE \o pi.cksum \in Seq(NoSuccess)
      BY <2>1, <2>3, ConcatProperties
    <2>5. QED  BY <1>1, <2>4, RefuseLine DEF Answer, Refuse
  <1>4. UNCHANGED <<toPi, verified, booted, restarted, PiSide>>
    BY DEF Answer
  <1>5. QED  BY <1>1, <1>2, <1>3, <1>4, PiKeeps

LEMMA LoadSafe == SInv /\ Load => SInv'
  <1> SUFFICES ASSUME SInv, Load PROVE SInv'
    OBVIOUS
  <1>1. pi \in PiState /\ Len(pi.mem) \in Sizes /\ toUnix \in Seq(Bytes) /\ restarted \in BOOLEAN
        /\ pi.mem \in Seq(FromLaptop(tried)) /\ pi.cksum \in Seq(FromLaptop(tried))
        /\ toPi \in Seq(FromLaptop(tried)) /\ (verified = None => toUnix \in Seq(NoSuccess))
    BY DEF SInv, TypeOK, Safe
  <1>2. pi.n \in Nat /\ pi.n \in Sizes
    BY <1>1, BootAssumption DEF PiState, Sizes
  <1>3. toPi' \in Seq(FromLaptop(tried)) /\ First(toPi, pi.n) \in Seq(FromLaptop(tried))
        /\ Len(First(toPi, pi.n)) = pi.n
    BY <1>1, <1>2, ReadIn DEF Load
  <1>4. First(toPi, pi.n) \in Seq(Bytes)
    BY <1>3, FromLaptopBytes, SeqMonotonic
  <1>5. pi' \in PiState /\ pi'.mem = First(toPi, pi.n) /\ pi'.cksum = pi.cksum
        /\ pi'.pc \notin Passed
    BY <1>1, <1>4 DEF Load, PiState, Passed
  <1>6. UNCHANGED <<toUnix, verified, booted, restarted, PiSide>>
    BY DEF Load
  <1>7. QED  BY <1>1, <1>2, <1>3, <1>5, <1>6, PiKeeps

\* Code in the Pi's memory is code of a program of tried, and of one only.
LEMMA LoadedTried ==
  ASSUME NEW p \in Prog, pi.mem = Code(p), pi.mem \in Seq(FromLaptop(tried))
  PROVE  /\ p \in tried
         /\ (CHOOSE q \in Prog : pi.mem = Code(q)) = p
  <1>1. Len(pi.mem) \in Nat \ {0} /\ pi.mem[1] = <<"code", p, 1>>
    BY CodeFacts
  <1>2. pi.mem[1] \in FromLaptop(tried)
    BY <1>1, ElementOfSeq
  <1>3. p \in tried
    BY <1>1, <1>2 DEF FromLaptop
  <1>4. \A q \in Prog : pi.mem = Code(q) => q = p
    BY CodesDiffer
  <1>5. QED  BY <1>3, <1>4

LEMMA FinishSafe == SInv /\ Finish => SInv'
  <1> SUFFICES ASSUME SInv, Finish PROVE SInv'
    OBVIOUS
  <1>1. pi \in PiState /\ Len(pi.mem) \in Sizes /\ toUnix \in Seq(Bytes) /\ restarted \in BOOLEAN
        /\ pi.mem \in Seq(FromLaptop(tried)) /\ pi.cksum \in Seq(FromLaptop(tried))
        /\ toPi \in Seq(FromLaptop(tried)) /\ (verified = None => toUnix \in Seq(NoSuccess))
    BY DEF SInv, TypeOK, Safe
  <1>2. pi' \in PiState /\ pi'.mem = pi.mem /\ pi'.cksum = pi.cksum
    BY <1>1 DEF Finish, Succeed, Refuse, PiState
  <1>3. UNCHANGED <<toPi, booted, restarted, PiSide>>
    BY DEF Finish
  <1>4. CASE CrcOK /\ Succeed
    <2>1. PICK p \in Prog : pi.mem = Code(p)
      BY <1>4 DEF CrcOK
    <2>2. verified' \in tried
      BY <1>1, <1>4, <2>1, LoadedTried DEF Succeed
    <2>3. PRINT_STRING \in Seq(Bytes) /\ BOOT_SUCCESS \in Seq(Bytes) /\ Number(1) \in Seq(Bytes)
      <3>1. Number(1) \in Seq(NoSuccess)
        BY <2>1, HeaderFacts
      <3>2. Number(1) \in Seq(Bytes)
        BY <3>1, SeqMonotonic DEF NoSuccess
      <3>3. QED  BY <3>2, OpBytes DEF PRINT_STRING, BOOT_SUCCESS
    <2>4. <<Char(0)>> \in Seq(Bytes)
      <3>1. Char(0) \in Bytes
        BY BootAssumption DEF Bytes
      <3>2. QED  BY <3>1
    <2>5. toUnix \o PRINT_STRING \in Seq(Bytes)
      BY <1>1, <2>3, ConcatProperties
    <2>6. toUnix \o PRINT_STRING \o Number(1) \in Seq(Bytes)
      BY <2>3, <2>5, ConcatProperties
    <2>7. toUnix \o PRINT_STRING \o Number(1) \o <<Char(0)>> \in Seq(Bytes)
      BY <2>4, <2>6, ConcatProperties
    <2>8. toUnix' \in Seq(Bytes)
      <3>1. toUnix' = (toUnix \o PRINT_STRING \o Number(1) \o <<Char(0)>>) \o BOOT_SUCCESS
        BY <1>4 DEF Succeed
      <3>2. QED  BY <2>3, <2>7, <3>1, ConcatProperties
    <2>9. QED  BY <1>1, <1>2, <1>3, <2>2, <2>8, PiKeeps
  <1>5. CASE Refuse /\ UNCHANGED verified
    <2>1. toUnix' = toUnix \o BOOT_ERROR \o ExitString /\ pi'.pc \notin Passed
      BY <1>1, <1>5 DEF Refuse, PiState, Passed
    <2>2. toUnix' \in Seq(Bytes) /\ (verified = None => toUnix' \in Seq(NoSuccess))
      BY <1>1, <2>1, RefuseLine
    <2>3. QED  BY <1>1, <1>2, <1>3, <1>5, <2>1, <2>2, PiKeeps
  <1>6. QED  BY <1>4, <1>5 DEF Finish

LEMMA EndSafe == SInv /\ (Branch \/ RunProgram \/ Reboot) => SInv'
  <1> SUFFICES ASSUME SInv, Branch \/ RunProgram \/ Reboot PROVE SInv'
    OBVIOUS
  <1>1. pi \in PiState /\ Len(pi.mem) \in Sizes /\ toUnix \in Seq(Bytes) /\ restarted \in BOOLEAN
        /\ pi.mem \in Seq(FromLaptop(tried)) /\ pi.cksum \in Seq(FromLaptop(tried))
        /\ toPi \in Seq(FromLaptop(tried)) /\ (verified = None => toUnix \in Seq(NoSuccess))
        /\ (pi.pc \in Passed => verified \in tried)
    BY DEF SInv, TypeOK, Safe
  <1>2. CASE Branch
    <2>1. pi' \in PiState /\ pi'.mem = pi.mem /\ pi'.cksum = pi.cksum /\ pi.pc \in Passed
      BY <1>1, <1>2 DEF Branch, PiState, Passed
    <2>2. booted' \in {booted, verified, Astray}
          /\ UNCHANGED <<toPi, toUnix, verified, restarted, PiSide>>
      BY <1>2 DEF Branch
    <2>3. QED  BY <1>1, <2>1, <2>2, PiKeeps
  <1>3. CASE RunProgram
    <2>1. PICK o \in Outputs : toUnix' = (toUnix \o o) \o ExitString
      BY <1>3 DEF RunProgram
    <2>2. o \in Seq(Bytes) /\ ExitString \in Seq(Bytes)
      BY LineAssumption, ExitFacts, SeqMonotonic DEF NoSuccess
    <2>3. toUnix \o o \in Seq(Bytes)
      BY <1>1, <2>2, ConcatProperties
    <2>4. toUnix' \in Seq(Bytes)
      BY <2>1, <2>2, <2>3, ConcatProperties
    <2>5. pi' \in PiState /\ pi'.mem = pi.mem /\ pi'.cksum = pi.cksum
      BY <1>1, <1>3 DEF RunProgram, PiState
    <2>6. verified' \in tried /\ UNCHANGED <<toPi, booted, restarted, PiSide>>
      BY <1>1, <1>3 DEF RunProgram, Passed
    <2>7. QED  BY <1>1, <2>4, <2>5, <2>6, PiKeeps
  <1>4. CASE Reboot
    <2>1. toPi' \in Seq(FromLaptop(tried))
      BY <1>1, <1>4, SuffixIn DEF Reboot
    <2>2. PiStart \in PiState /\ PiStart.mem = << >> /\ PiStart.cksum = << >>
          /\ PiStart.pc \notin Passed /\ Len(<< >>) \in Sizes
      <3>1. 0 \in Sizes /\ << >> \in Seq(Bytes) /\ Len(<< >>) = 0
        BY BootAssumption DEF Sizes
      <3>2. QED  BY <3>1 DEF PiStart, PiState, Places, Passed
    <2>3. << >> \in Seq(FromLaptop(tried))
      OBVIOUS
    <2>4. pi' = PiStart /\ restarted' = TRUE /\ UNCHANGED <<toUnix, verified, booted, PiSide>>
      BY <1>4 DEF Reboot
    <2>5. QED  BY <1>1, <2>1, <2>2, <2>3, <2>4, PiKeeps
  <1>5. QED  BY <1>2, <1>3, <1>4

LEMMA PrintStringSafe == SInv /\ PrintString => SInv'
  <1> SUFFICES ASSUME SInv, PrintString PROVE SInv'
    OBVIOUS
  <1>1. /\ toUnix \in Seq(Bytes) /\ (verified = None => toUnix \in Seq(NoSuccess))
        /\ toPi \in Seq(FromLaptop(tried)) /\ unix \in UnixState /\ restarted \in BOOLEAN
        /\ (verified = None => unix.pc \notin {"echo", "ended"})
    BY DEF SInv, TypeOK, Safe
  <1>2. \A n \in Nat : Has(toUnix, n) =>
          Drop(toUnix, n) \in Seq(Bytes) /\ (verified = None => Drop(toUnix, n) \in Seq(NoSuccess))
    BY <1>1, ReadIn
  <1>3. WL \in Nat /\ Wanted \in Nat
    BY BootAssumption DEF Wanted
  <1>4. unix' \in UnixState /\ unix'.prog = unix.prog
        /\ (verified = None => unix'.pc \notin {"echo", "ended"})
    BY <1>1 DEF PrintString, Fail, UnixState
  <1>5. toUnix' \in Seq(Bytes) /\ (verified = None => toUnix' \in Seq(NoSuccess))
    <2>1. CASE toUnix' = Drop(toUnix, Wanted)
      BY <1>2, <1>3, <2>1 DEF PrintString
    <2>2. CASE toUnix' \in Suffixes(Drop(toUnix, 2 * WL))
      <3>1. Op(PRINT_STRING) /\ Has(toUnix, Wanted)
        BY DEF PrintString
      <3>2. Has(toUnix, 2 * WL) /\ 2 * WL \in Nat
        <4>1. Wanted = 2 * WL + 1
          BY <3>1 DEF Wanted, Op
        <4>2. QED  BY <3>1, <4>1, <1>1, <1>3, LenProperties DEF Has
      <3>3. QED  BY <1>2, <2>2, <3>2, SuffixIn
    <2>3. QED  BY <2>1, <2>2 DEF PrintString
  <1>6. UNCHANGED <<toPi, UnixSide>>
    BY DEF PrintString
  <1>7. QED  BY <1>1, <1>4, <1>5, <1>6, UnixKeeps DEF UnixSide

LEMMA DrainSafe == SInv /\ (DrainGarbage \/ DrainRepeats \/ NotGetCode \/ Timeout) => SInv'
  <1> SUFFICES ASSUME SInv, (DrainGarbage \/ DrainRepeats \/ NotGetCode \/ Timeout) PROVE SInv'
    OBVIOUS
  <1>1. /\ toUnix \in Seq(Bytes) /\ (verified = None => toUnix \in Seq(NoSuccess))
        /\ toPi \in Seq(FromLaptop(tried)) /\ unix \in UnixState /\ restarted \in BOOLEAN
        /\ (verified = None => unix.pc \notin {"echo", "ended"})
    BY DEF SInv, TypeOK, Safe
  <1>2. \A n \in Nat : Has(toUnix, n) =>
          Drop(toUnix, n) \in Seq(Bytes) /\ (verified = None => Drop(toUnix, n) \in Seq(NoSuccess))
    BY <1>1, ReadIn
  <1>3. WL \in Nat /\ Wanted \in Nat
    BY BootAssumption DEF Wanted
  <1>4. unix' \in UnixState /\ unix'.prog = unix.prog
        /\ (verified = None => unix'.pc \notin {"echo", "ended"})
    BY <1>1 DEF DrainGarbage, DrainRepeats, NotGetCode, Timeout, Fail, UnixState
  <1>5. toUnix' \in Seq(Bytes) /\ (verified = None => toUnix' \in Seq(NoSuccess))
    BY <1>1, <1>2, <1>3 DEF DrainGarbage, DrainRepeats, NotGetCode, Timeout, Op, OtherOp
  <1>6. UNCHANGED <<toPi, UnixSide>>
    BY DEF DrainGarbage, DrainRepeats, NotGetCode, Timeout
  <1>7. QED  BY <1>1, <1>4, <1>5, <1>6, UnixKeeps DEF UnixSide

LEMMA PutProgInfoSafe == SInv /\ PutProgInfo => SInv'
  <1> SUFFICES ASSUME SInv, PutProgInfo PROVE SInv'
    OBVIOUS
  <1>1. /\ toUnix \in Seq(Bytes) /\ (verified = None => toUnix \in Seq(NoSuccess))
        /\ toPi \in Seq(FromLaptop(tried)) /\ unix \in UnixState /\ restarted \in BOOLEAN
        /\ (verified = None => unix.pc \notin {"echo", "ended"})
    BY DEF SInv, TypeOK, Safe
  <1>2. \A n \in Nat : Has(toUnix, n) =>
          Drop(toUnix, n) \in Seq(Bytes) /\ (verified = None => Drop(toUnix, n) \in Seq(NoSuccess))
    BY <1>1, ReadIn
  <1>3. WL \in Nat /\ Wanted \in Nat
    BY BootAssumption DEF Wanted
  <1>4. unix' \in UnixState /\ unix'.prog = unix.prog /\ unix'.pc = "get_code"
    BY <1>1 DEF PutProgInfo, Booting, UnixState
  <1>5. toUnix' \in Seq(Bytes) /\ (verified = None => toUnix' \in Seq(NoSuccess))
    BY <1>1, <1>2, <1>3 DEF PutProgInfo, Op
  <1>6. toPi' \in Seq(FromLaptop(tried))
    <2> DEFINE p == unix.prog
               S == FromLaptop(tried)
    <2>1. p \in Prog /\ p \in tried /\ FromLaptop({p}) \subseteq S
      BY FromLaptopBytes DEF SInv, Safe, TypeOK, UnixState
    <2>2. ARMBASE \in Seq(S) /\ Number(CodeLen[p]) \in Seq(S) /\ Crc(p) \in Seq(S)
      BY <2>1, HeaderFacts, SeqMonotonic
    <2>3. PUT_PROG_INFO \in Seq(S)
      BY OpFromLaptop
    <2>4. toPi' = (((toPi \o PUT_PROG_INFO) \o ARMBASE) \o Number(CodeLen[p])) \o Crc(p)
      BY DEF PutProgInfo
    <2> HIDE DEF S, p
    <2>5. toPi \o PUT_PROG_INFO \in Seq(S)
      BY <1>1, <2>3, ConcatProperties DEF S
    <2>6. (toPi \o PUT_PROG_INFO) \o ARMBASE \in Seq(S)
      BY <2>2, <2>5, ConcatProperties
    <2>7. ((toPi \o PUT_PROG_INFO) \o ARMBASE) \o Number(CodeLen[p]) \in Seq(S)
      BY <2>2, <2>6, ConcatProperties
    <2>8. QED  BY <2>2, <2>4, <2>7, ConcatProperties DEF S
  <1>7. UNCHANGED <<pi, faults, calm, verified, booted, tried>> /\ restarted' \in BOOLEAN
    BY DEF PutProgInfo
  <1>8. QED  BY <1>1, <1>4, <1>5, <1>6, <1>7, UnixKeeps

LEMMA PutCodeSafe == SInv /\ PutCode => SInv'
  <1> SUFFICES ASSUME SInv, PutCode PROVE SInv'
    OBVIOUS
  <1>1. /\ toUnix \in Seq(Bytes) /\ (verified = None => toUnix \in Seq(NoSuccess))
        /\ toPi \in Seq(FromLaptop(tried)) /\ unix \in UnixState /\ restarted \in BOOLEAN
        /\ (verified = None => unix.pc \notin {"echo", "ended"})
    BY DEF SInv, TypeOK, Safe
  <1>2. \A n \in Nat : Has(toUnix, n) =>
          Drop(toUnix, n) \in Seq(Bytes) /\ (verified = None => Drop(toUnix, n) \in Seq(NoSuccess))
    BY <1>1, ReadIn
  <1>3. WL \in Nat /\ Wanted \in Nat
    BY BootAssumption DEF Wanted
  <1>4. unix' \in UnixState /\ unix'.prog = unix.prog /\ unix'.pc \notin {"echo", "ended"}
    BY <1>1 DEF PutCode, Fail, Booting, UnixState
  <1>5. toUnix' \in Seq(Bytes) /\ (verified = None => toUnix' \in Seq(NoSuccess))
    BY <1>1, <1>2, <1>3 DEF PutCode
  <1>6. toPi' \in Seq(FromLaptop(tried))
    <2> DEFINE p == unix.prog
               S == FromLaptop(tried)
    <2>1. p \in Prog /\ p \in tried /\ FromLaptop({p}) \subseteq S
      BY FromLaptopBytes DEF SInv, Safe, TypeOK, UnixState
    <2>2. Code(p) \in Seq(S)
      BY <2>1, CodeFacts, SeqMonotonic
    <2>3. PUT_CODE \in Seq(S)
      BY OpFromLaptop
    <2>4. toPi' = toPi \/ toPi' = (toPi \o PUT_CODE) \o Code(p)
      BY DEF PutCode
    <2> HIDE DEF S, p
    <2>5. toPi \in Seq(S) /\ toPi \o PUT_CODE \in Seq(S)
      BY <1>1, <2>3, ConcatProperties DEF S
    <2>6. (toPi \o PUT_CODE) \o Code(p) \in Seq(S)
      BY <2>2, <2>5, ConcatProperties
    <2>7. QED  BY <2>4, <2>5, <2>6 DEF S
  <1>7. UNCHANGED UnixSide
    BY DEF PutCode
  <1>8. QED  BY <1>1, <1>4, <1>5, <1>6, <1>7, UnixKeeps DEF UnixSide

LEMMA AwaitSuccessSafe == SInv /\ AwaitSuccess => SInv'
  <1> SUFFICES ASSUME SInv, AwaitSuccess PROVE SInv'
    OBVIOUS
  <1>1. /\ toUnix \in Seq(Bytes) /\ (verified = None => toUnix \in Seq(NoSuccess))
        /\ toPi \in Seq(FromLaptop(tried)) /\ unix \in UnixState /\ restarted \in BOOLEAN
        /\ (verified = None => unix.pc \notin {"echo", "ended"})
    BY DEF SInv, TypeOK, Safe
  <1>2. \A n \in Nat : Has(toUnix, n) =>
          Drop(toUnix, n) \in Seq(Bytes) /\ (verified = None => Drop(toUnix, n) \in Seq(NoSuccess))
    BY <1>1, ReadIn
  <1>3. WL \in Nat /\ Wanted \in Nat
    BY BootAssumption DEF Wanted
  <1>4. verified = None => ~Op(BOOT_SUCCESS)
    <2> SUFFICES ASSUME verified = None, Op(BOOT_SUCCESS)  PROVE FALSE
      OBVIOUS
    <2>1. toUnix \in Seq(NoSuccess) /\ Len(toUnix) \in Nat /\ WL \in 0 .. Len(toUnix)
          /\ 1 \in 1 .. WL /\ 1 \in 1 .. Len(toUnix)
      BY <1>1, BootAssumption, LenProperties DEF Op, Has
    <2>2. First(toUnix, WL)[1] = toUnix[1]
      BY <2>1, FirstFacts
    <2>3. toUnix[1] \in NoSuccess
      BY <2>1, ElementOfSeq
    <2>4. QED  BY <2>2, <2>3 DEF Op, NoSuccess
  <1>5. unix' \in UnixState /\ unix'.prog = unix.prog
        /\ (verified = None => unix'.pc \notin {"echo", "ended"})
    BY <1>1, <1>4 DEF AwaitSuccess, UnixState
  <1>6. toUnix' \in Seq(Bytes) /\ (verified = None => toUnix' \in Seq(NoSuccess))
    BY <1>1, <1>2, <1>3 DEF AwaitSuccess
  <1>7. UNCHANGED <<toPi, UnixSide>>
    BY DEF AwaitSuccess
  <1>8. QED  BY <1>1, <1>5, <1>6, <1>7, UnixKeeps DEF UnixSide

LEMMA EchoSafe == SInv /\ Echo => SInv'
  <1> SUFFICES ASSUME SInv, Echo PROVE SInv'
    OBVIOUS
  <1>1. /\ toUnix \in Seq(Bytes) /\ (verified = None => toUnix \in Seq(NoSuccess))
        /\ toPi \in Seq(FromLaptop(tried)) /\ unix \in UnixState /\ restarted \in BOOLEAN
        /\ (verified = None => unix.pc \notin {"echo", "ended"})
    BY DEF SInv, TypeOK, Safe
  <1>2. \A n \in Nat : Has(toUnix, n) =>
          Drop(toUnix, n) \in Seq(Bytes) /\ (verified = None => Drop(toUnix, n) \in Seq(NoSuccess))
    BY <1>1, ReadIn
  <1>3. WL \in Nat /\ Wanted \in Nat
    BY BootAssumption DEF Wanted
  <1>4. verified # None /\ unix.pc = "echo"
    BY <1>1 DEF Echo
  <1>5. Matched(unix.pos, toUnix[1]) \in 0 .. 2 * WL
    BY <1>1, <1>3 DEF Matched, UnixState
  <1>6. Len(ExitString) = 2 * WL
    BY ExitFacts
  <1>7. unix' \in UnixState /\ unix'.prog = unix.prog
    <2>1. PICK pos : pos = Matched(unix.pos, toUnix[1])
      OBVIOUS
    <2>2. \/ unix' = [unix EXCEPT !.pc = "ended"]
          \/ pos # 2 * WL /\ unix' = [unix EXCEPT !.pos = pos]
      BY <1>6, <2>1 DEF Echo
    <2>3. pos # 2 * WL => pos \in 0 .. 2 * WL - 1
      BY <1>3, <1>5, <2>1
    <2>4. QED  BY <1>1, <2>2, <2>3 DEF UnixState
  <1>8. toUnix' \in Seq(Bytes)
    BY <1>2 DEF Echo
  <1>9. UNCHANGED <<toPi, UnixSide>>
    BY DEF Echo
  <1>10. QED  BY <1>1, <1>4, <1>7, <1>8, <1>9, UnixKeeps DEF UnixSide

LEMMA AgainSafe == SInv /\ Again => SInv'
  <1> SUFFICES ASSUME SInv, Again PROVE SInv'
    OBVIOUS
  <1>1. PICK p \in Prog : unix' = Start(p, unix.runs + 1) /\ tried' = tried \cup {p}
    BY DEF Again
  <1>2. unix' \in UnixState /\ unix'.prog \in tried' /\ unix'.pc = "drain"
    <2>1. unix \in UnixState /\ unix.runs < MaxRuns
      BY DEF SInv, TypeOK, Again
    <2>2. unix.runs + 1 \in 1 .. MaxRuns /\ 0 \in 0 .. 2 * WL - 1
      BY <2>1, BootAssumption DEF UnixState
    <2>3. QED  BY <1>1, <2>2 DEF Start, UnixState, Booting
  <1>3. toUnix' \in Seq(Bytes) /\ (verified = None => toUnix' \in Seq(NoSuccess))
    BY SuffixIn DEF SInv, TypeOK, Safe, Again
  <1>4. tried' \subseteq Prog /\ tried \subseteq tried'
    BY <1>1 DEF SInv, TypeOK
  <1>5. \A s : s \in Seq(FromLaptop(tried)) => s \in Seq(FromLaptop(tried'))
    BY <1>4, FromLaptopBytes, SeqMonotonic
  <1>6. UNCHANGED <<toPi, pi, faults, calm, verified, booted, restarted>>
    BY DEF Again
  <1>7. TypeOK'
    BY <1>2, <1>3, <1>4, <1>6 DEF SInv, TypeOK
  <1>8. Safe'
    BY <1>2, <1>3, <1>4, <1>5, <1>6 DEF SInv, Safe
  <1>9. QED  BY <1>7, <1>8 DEF SInv

LEMMA FaultSafe == SInv /\ Fault => SInv'
  <1> SUFFICES ASSUME SInv, Fault PROVE SInv'
    OBVIOUS
  <1>1. /\ pi \in PiState /\ unix \in UnixState /\ Len(pi.mem) \in Sizes /\ restarted \in BOOLEAN
        /\ pi.mem \in Seq(FromLaptop(tried)) /\ pi.cksum \in Seq(FromLaptop(tried))
        /\ toPi \in Seq(FromLaptop(tried)) /\ toUnix \in Seq(Bytes)
        /\ (verified = None => toUnix \in Seq(NoSuccess) /\ unix.pc \notin {"echo", "ended"})
    BY DEF SInv, TypeOK, Safe
  <1>2. faults' \in 0 .. MaxFaults /\ UNCHANGED <<calm, verified, booted, tried>>
    BY BootAssumption DEF SInv, TypeOK, Fault
  <1>3. /\ toPi' \in Seq(FromLaptop(tried)) /\ toUnix' \in Seq(Bytes)
        /\ (verified = None => toUnix' \in Seq(NoSuccess))
    <2>1. CASE LoseByte
      BY <1>1, <2>1, WithoutIn DEF LoseByte
    <2>2. CASE ChangeByte
      <3>1. CASE \E i \in 1 .. Len(toPi) : toPi' = [toPi EXCEPT ![i] = Bad] /\ UNCHANGED toUnix
        BY <1>1, <3>1, BadByte, ExceptSeq
      <3>2. CASE \E i \in 1 .. Len(toUnix) : toUnix' = [toUnix EXCEPT ![i] = Bad] /\ UNCHANGED toPi
        BY <1>1, <3>2, BadByte, ExceptSeq
      <3>3. QED  BY <2>2, <3>1, <3>2 DEF ChangeByte
    <2>3. CASE PowerCycle
      BY <1>1, <2>3, SuffixIn DEF PowerCycle
    <2>4. CASE Kill
      BY <1>1, <2>4 DEF Kill
    <2>5. QED  BY <2>1, <2>2, <2>3, <2>4 DEF Fault, LineFault
  <1>4. /\ pi' \in PiState /\ Len(pi'.mem) \in Sizes
        /\ pi'.mem \in Seq(FromLaptop(tried)) /\ pi'.cksum \in Seq(FromLaptop(tried))
        /\ (pi'.pc \in Passed => pi.pc \in Passed)
    <2>1. CASE pi' = pi
      BY <1>1, <2>1
    <2>2. CASE pi' = PiStart
      <3>1. 0 \in Sizes /\ << >> \in Seq(Bytes) /\ Len(<< >>) = 0
            /\ << >> \in Seq(FromLaptop(tried))
        BY BootAssumption DEF Sizes
      <3>2. QED  BY <2>2, <3>1 DEF PiStart, PiState, Places, Passed
    <2>3. QED  BY <2>1, <2>2 DEF Fault, LineFault, PowerCycle, Kill
  <1>5. unix' \in UnixState /\ unix'.prog = unix.prog /\ restarted' \in BOOLEAN
        /\ (verified = None => unix'.pc \notin {"echo", "ended"})
    BY <1>1 DEF Fault, LineFault, PowerCycle, Kill, Fail, UnixState
  <1>6. toPi' \in Seq(Bytes)
    BY <1>3, SeqMonotonic DEF FromLaptop, NoSuccess
  <1>7. TypeOK'
    BY <1>2, <1>3, <1>4, <1>5, <1>6 DEF SInv, TypeOK
  <1>8. Safe'
    BY <1>2, <1>3, <1>4, <1>5 DEF SInv, Safe
  <1>9. QED  BY <1>7, <1>8 DEF SInv

LEMMA StepSafe == SInv /\ [Next]_vars => SInv'
  <1> SUFFICES ASSUME SInv, [Next]_vars PROVE SInv'
    OBVIOUS
  <1>1. CASE PiStep
    <2>1. ASSUME GetInfo  PROVE SInv'
      BY <2>1, ExpectSafe DEF GetInfo
    <2>2. ASSUME GetCode  PROVE SInv'
      BY <2>2, ExpectSafe DEF GetCode
    <2>3. QED  BY <1>1, <2>1, <2>2, AskSafe, GetArgsSafe, AnswerSafe, LoadSafe, FinishSafe,
                  EndSafe DEF PiStep
  <1>2. CASE UnixStep
    BY <1>2, PrintStringSafe, DrainSafe, PutProgInfoSafe, PutCodeSafe, AwaitSuccessSafe,
       EchoSafe DEF UnixStep
  <1>3. CASE Again
    BY <1>3, AgainSafe
  <1>4. CASE Fault
    BY <1>4, FaultSafe
  <1>5. CASE UNCHANGED vars
    BY <1>5 DEF vars, SInv, TypeOK, Safe
  <1>6. QED  BY <1>1, <1>2, <1>3, <1>4, <1>5 DEF Next

\* The state of the two programs and of the line between them is always one the
\* code can be in (get-code.h, put-code.c, pi-echo.c), faults or not.
THEOREM TypeCorrect == Spec => []TypeOK
  <1>1. Init => SInv
    BY InitSafe
  <1>2. SInv /\ [Next]_vars => SInv'
    BY StepSafe
  <1>3. SInv => TypeOK
    BY DEF SInv
  <1>4. QED  BY <1>1, <1>2, <1>3, PTL DEF Spec

-----------------------------------------------------------------------------
(* Words in front of a line.                                                 *)

Words == {w \in Seq(Bytes) : Len(w) = WL}

LEMMA WordsFacts ==
  /\ Words \subseteq Seq(Bytes) /\ ExitString \in Seq(Bytes) /\ << >> \in Seq(Bytes)
  /\ <<Char(0)>> \in Seq(Bytes) /\ Len(<<Char(0)>>) = 1
  /\ GET_PROG_INFO \in Words /\ PUT_PROG_INFO \in Words /\ GET_CODE \in Words
  /\ PUT_CODE \in Words /\ BOOT_SUCCESS \in Words /\ BOOT_ERROR \in Words
  /\ PRINT_STRING \in Words
  /\ \A p \in Prog : /\ ARMBASE \in Words /\ Number(1) \in Words
                     /\ Number(CodeLen[p]) \in Words /\ Crc(p) \in Words
                     /\ Code(p) \in Seq(Bytes) /\ Len(Code(p)) = CodeLen[p]
                     /\ CodeLen[p] \in Nat \ {0} /\ CodeLen[p] \in Sizes
  <1>1. \A i \in 1 .. 7 : Word("op", i) \in Words
    BY OpBytes DEF Words
  <1>2. /\ GET_PROG_INFO \in Words /\ PUT_PROG_INFO \in Words /\ GET_CODE \in Words
        /\ PUT_CODE \in Words /\ BOOT_SUCCESS \in Words /\ BOOT_ERROR \in Words
        /\ PRINT_STRING \in Words
    BY <1>1 DEF GET_PROG_INFO, PUT_PROG_INFO, GET_CODE, PUT_CODE, BOOT_SUCCESS, BOOT_ERROR,
                PRINT_STRING
  <1>3. ExitString \in Seq(Bytes)
    BY ExitFacts, SeqMonotonic DEF NoSuccess
  <1>4. <<Char(0)>> \in Seq(Bytes) /\ Len(<<Char(0)>>) = 1
    <2>1. Char(0) \in Bytes
      BY BootAssumption DEF Bytes
    <2>2. QED  BY <2>1
  <1>5. ASSUME NEW p \in Prog
        PROVE  /\ ARMBASE \in Words /\ Number(1) \in Words
               /\ Number(CodeLen[p]) \in Words /\ Crc(p) \in Words
               /\ Code(p) \in Seq(Bytes) /\ Len(Code(p)) = CodeLen[p]
               /\ CodeLen[p] \in Nat \ {0} /\ CodeLen[p] \in Sizes
    <2>1. FromLaptop({p}) \subseteq Bytes /\ NoSuccess \subseteq Bytes
      BY FromLaptopBytes
    <2>2. /\ ARMBASE \in Seq(Bytes) /\ Number(1) \in Seq(Bytes)
          /\ Number(CodeLen[p]) \in Seq(Bytes) /\ Crc(p) \in Seq(Bytes)
          /\ Code(p) \in Seq(Bytes)
      BY <2>1, HeaderFacts, CodeFacts, SeqMonotonic
    <2>3. QED  BY <2>2, HeaderFacts, CodeFacts DEF Words
  <1>6. Words \subseteq Seq(Bytes) /\ << >> \in Seq(Bytes)
    BY EmptySeq DEF Words
  <1>7. QED  BY <1>2, <1>3, <1>4, <1>5, <1>6

\* Concatenation, as an operator whose meaning the provers need not look at.
s & t == s \o t

LEMMA Grouped ==
  /\ \A a, b \in Seq(Bytes) : a & b \in Seq(Bytes)
  /\ \A a, b, c \in Seq(Bytes) : (a & b) & c = a & (b & c)
  /\ \A a \in Seq(Bytes) : a & << >> = a /\ << >> & a = a
  BY ConcatProperties, ConcatAssociative, ConcatEmptySeq DEF &

LEMMA Regrouped ==
  \A a, b, c, d \in Seq(Bytes) : ((a & b) & c) & d = a & (b & (c & d))
  <1> SUFFICES ASSUME NEW a \in Seq(Bytes), NEW b \in Seq(Bytes), NEW c \in Seq(Bytes),
                      NEW d \in Seq(Bytes)
               PROVE  ((a & b) & c) & d = a & (b & (c & d))
    OBVIOUS
  <1>1. a & b \in Seq(Bytes) /\ c & d \in Seq(Bytes)
    BY Grouped
  <1>2. ((a & b) & c) & d = (a & b) & (c & d)
    BY <1>1, Grouped
  <1>3. (a & b) & (c & d) = a & (b & (c & d))
    BY <1>1, Grouped
  <1>4. QED  BY <1>2, <1>3

LEMMA GroupedLen == \A a, b \in Seq(Bytes) : Len(a & b) = Len(a) + Len(b)
  BY ConcatProperties DEF &

\* A reader that takes the word in front gets that word, and the rest is left.
LEMMA ReadWord ==
  ASSUME NEW w \in Words, NEW x \in Seq(Bytes), NEW line, line = w & x
  PROVE  /\ line \in Seq(Bytes) /\ line # << >> /\ Len(line) = WL + Len(x)
         /\ Has(line, WL) /\ First(line, WL) = w /\ Drop(line, WL) = x
  <1>1. w \in Seq(Bytes) /\ Len(w) = WL /\ Len(x) \in Nat /\ WL \in Nat \ {0}
    BY LenProperties, BootAssumption DEF Words
  <1>2. /\ line \in Seq(Bytes) /\ Len(line) = WL + Len(x)
        /\ First(line, WL) = w /\ Drop(line, WL) = x
    BY <1>1, SplitConcat DEF &
  <1>3. Len(line) >= WL /\ Len(line) # 0
    BY <1>1, <1>2
  <1>4. QED  BY <1>2, <1>3, EmptySeq DEF Has

\* The same for the word behind it.
LEMMA ReadSecond ==
  ASSUME NEW v \in Words, NEW w \in Words, NEW x \in Seq(Bytes), NEW line,
         line = v & (w & x)
  PROVE  /\ Has(line, 2 * WL) /\ SubSeq(line, WL + 1, 2 * WL) = w
         /\ Drop(line, 2 * WL) = x /\ Len(line) = 2 * WL + Len(x)
  <1>1. WL \in Nat \ {0} /\ Len(x) \in Nat /\ v \in Seq(Bytes) /\ w \in Seq(Bytes)
        /\ Len(v) = WL /\ Len(w) = WL
    BY BootAssumption, LenProperties DEF Words
  <1>2. PICK a : a = v & w
    OBVIOUS
  <1>3. a \in Seq(Bytes) /\ Len(a) = WL + WL
    <2>1. a = v \o w  BY <1>2 DEF &
    <2>2. Len(v \o w) = Len(v) + Len(w) /\ v \o w \in Seq(Bytes)
      BY ONLY <1>1, SplitConcat, Zenon
    <2>3. Len(a) = Len(v) + Len(w) /\ a \in Seq(Bytes)
      BY ONLY <2>1, <2>2, Zenon
    <2>4. QED  BY ONLY <1>1, <2>3
  <1>4. line = a & x
    BY <1>1, <1>2, Grouped
  <1>5. line \in Seq(Bytes) /\ Len(line) = Len(a) + Len(x)
        /\ First(line, Len(a)) = a /\ Drop(line, Len(a)) = x
    <2>1. a \in Seq(Bytes) /\ line = a \o x
      BY <1>3, <1>4 DEF &
    <2>2. QED  BY ONLY <2>1, x \in Seq(Bytes), SplitConcat
  <1>6. Len(a) = 2 * WL
    BY <1>1, <1>3
  <1>7. Drop(a, WL) = w
    <2>1. a = v \o w  BY <1>2 DEF &
    <2>2. QED  BY ONLY <1>1, <2>1, SplitConcat
  <1>8. PICK f : f = SubSeq(line, WL + 1, 2 * WL)
    OBVIOUS
  <1>9. f \in Seq(Bytes) /\ Len(f) = WL /\ \A i \in 1 .. WL : f[i] = line[WL + i]
    <2>1. WL + 1 \in 1 .. Len(line) /\ 2 * WL \in WL + 1 .. Len(line)
      BY <1>1, <1>5, <1>6
    <2>2. /\ WL + 1 \in Int /\ 2 * WL \in Int
          /\ \A i \in WL + 1 .. 2 * WL : i \in 1 .. Len(line)
      BY <1>1, <1>5, <1>6
    <2>3. \A i \in WL + 1 .. 2 * WL : line[i] \in Bytes
      BY <1>5, <2>2, ElementOfSeq
    <2>4. PICK m \in Int : m = WL + 1
      BY <1>1
    <2>5. PICK n \in Int : n = 2 * WL
      BY <1>1
    <2>6. f = SubSeq(line, m, n) /\ \A i \in m .. n : line[i] \in Bytes
      BY <1>8, <2>3, <2>4, <2>5
    <2>7. /\ f \in Seq(Bytes) /\ Len(f) = IF m <= n THEN n - m + 1 ELSE 0
          /\ \A i \in 1 .. n - m + 1 : f[i] = line[m + i - 1]
      <3>1. \A i \in m .. n : line[i] \in Bytes
        BY <2>6
      <3>2. /\ SubSeq(line, m, n) \in Seq(Bytes)
            /\ Len(SubSeq(line, m, n)) = IF m <= n THEN n - m + 1 ELSE 0
            /\ \A i \in 1 .. n - m + 1 : SubSeq(line, m, n)[i] = line[m + i - 1]
        BY ONLY <3>1, SubSeqProperties, m \in Int, n \in Int
      <3>3. QED  BY ONLY <2>6, <3>2
    <2>8. n - m + 1 = WL /\ m <= n /\ \A i \in 1 .. WL : m + i - 1 = WL + i
      BY <1>1, <2>4, <2>5
    <2>9. Len(f) = WL
      BY <2>7, <2>8
    <2>10. ASSUME NEW i \in 1 .. WL  PROVE f[i] = line[WL + i]
      <3>1. i \in 1 .. n - m + 1 /\ m + i - 1 = WL + i
        BY <2>8
      <3>2. f[i] = line[m + i - 1]
        BY <2>7, <3>1
      <3>3. QED  BY <3>1, <3>2
    <2>11. QED  BY <2>7, <2>9, <2>10
  <1>10. \A i \in 1 .. WL : line[WL + i] = a[WL + i]
    <2>1. 2 * WL \in 0 .. Len(line)
      BY <1>1, <1>5, <1>6
    <2>2. \A i \in 1 .. 2 * WL : First(line, 2 * WL)[i] = line[i]
      BY <1>5, <2>1, FirstFacts
    <2>3. \A i \in 1 .. WL : WL + i \in 1 .. 2 * WL
      BY <1>1
    <2>4. QED  BY <1>5, <1>6, <2>2, <2>3
  <1>11. \A i \in 1 .. WL : w[i] = a[WL + i]
    <2>1. WL \in 0 .. Len(a) /\ Len(a) - WL = WL
      BY <1>1, <1>3
    <2>2. \A i \in 1 .. Len(a) - WL : Drop(a, WL)[i] = a[WL + i]
      BY <1>3, <2>1, DropFacts
    <2>3. QED  BY <1>7, <2>1, <2>2
  <1>12. f = w
    <2>1. \A i \in 1 .. Len(f) : f[i] = w[i]
      BY <1>9, <1>10, <1>11
    <2>2. QED  BY <2>1, <1>1, <1>9, SeqEqual
  <1>13. Len(line) >= 2 * WL
    BY <1>1, <1>5, <1>6
  <1>14. QED  BY <1>5, <1>6, <1>8, <1>12, <1>13 DEF Has

LEMMA OpsDiffer ==
  /\ GET_PROG_INFO # GET_CODE /\ GET_PROG_INFO # BOOT_ERROR /\ GET_PROG_INFO # PRINT_STRING
  /\ GET_CODE # BOOT_ERROR /\ GET_CODE # PRINT_STRING /\ BOOT_ERROR # PRINT_STRING
  /\ BOOT_SUCCESS # PRINT_STRING
  BY WordsDiffer DEF GET_PROG_INFO, GET_CODE, BOOT_ERROR, PRINT_STRING, BOOT_SUCCESS

\* What the laptop sees with a word in front, and with nothing.
LEMMA FrontWord ==
  ASSUME NEW w \in Words, NEW y \in Seq(Bytes), toUnix = w & y
  PROVE  /\ Has(toUnix, WL) /\ Drop(toUnix, WL) = y
         /\ \A v : Op(v) <=> v = w
         /\ \A ws : OtherOp(ws) <=> w \notin ws \cup {PRINT_STRING}
  BY ReadWord DEF Op, OtherOp

LEMMA NoWord ==
  ASSUME NEW line, line = << >>
  PROVE  /\ ~Has(line, WL) /\ ~Has(line, 1) /\ ~Has(line, 3 * WL)
         /\ \A n \in Nat \ {0} : ~Has(line, n)
  <1>1. Len(line) = 0 /\ WL \in Nat \ {0} /\ 3 * WL \in Nat \ {0}
    BY BootAssumption
  <1>2. \A n \in Nat \ {0} : ~(0 >= n)
    OBVIOUS
  <1>3. QED  BY <1>1, <1>2 DEF Has

\* What the laptop's program does at each of its places.
LEMMA WhichStep ==
  ASSUME UnixStep
  PROVE  /\ unix.pc = "drain" => PrintString \/ DrainGarbage \/ PutProgInfo \/ Timeout
         /\ unix.pc = "get_code" => PrintString \/ DrainRepeats \/ PutCode \/ NotGetCode
                                    \/ Timeout
         /\ unix.pc = "success" => PrintString \/ AwaitSuccess \/ Timeout
         /\ unix.pc = "echo" => Echo
         /\ unix.pc \notin {"ended", "failed"}
  BY DEF UnixStep, PrintString, DrainGarbage, PutProgInfo, DrainRepeats, PutCode, NotGetCode,
         AwaitSuccess, Echo, Timeout, Booting

-----------------------------------------------------------------------------
(* Without faults: where the two programs are determines the lines.          *)

Args(p) == ARMBASE & (Number(CodeLen[p]) & Crc(p))
Header(p) == PUT_PROG_INFO & Args(p)
Booted(x) == PRINT_STRING & (Number(1) & (<<Char(0)>> & (BOOT_SUCCESS & x)))
Starting == pi.pc \in {"reboot", "start", "wait"} /\ toPi = << >>
Accepted ==
    pi.addr = "armbase" /\ pi.n = CodeLen[unix.prog] /\ pi.cksum = Crc(unix.prog)

\* What earlier programs and requests left; before a reboot no request is whole.
Left(x) == Stale(x) /\ (pi.pc = "reboot" => \A i \in 1 .. Len(x) : x[i] \in Stray)

\* The laptop is not in the exchange, the Pi about to ask.
Idle == unix.pc \in {"drain", "failed"} /\ Starting /\ Left(toUnix)
\* The header is on its way or the Pi has read it.
HeaderSent ==
    /\ unix.pc = "get_code" /\ \E k \in Nat : toUnix = Requests(k)
    /\ \/ pi.pc \in {"start", "wait", "info"} /\ toPi = Header(unix.prog)
       \/ pi.pc = "args" /\ toPi = Args(unix.prog)
       \/ pi.pc \in {"refuse", "reply"} /\ toPi = << >> /\ Accepted
\* The Pi has refused the program.
Refused ==
    /\ unix.pc = "get_code" /\ Starting
    /\ \E k \in Nat, x \in Seq(Bytes) :
         toUnix = Requests(k) & (BOOT_ERROR & x) /\ Left(x)
\* The Pi has asked for the code.
CodeWanted ==
    /\ unix.pc = "get_code" /\ pi.pc = "code" /\ toPi = << >> /\ Accepted
    /\ \E k \in Nat : toUnix = Requests(k) & (GET_CODE & Crc(unix.prog))
\* The code is on its way or the Pi has read it.
CodeSent ==
    /\ unix.pc = "success" /\ toUnix = << >> /\ Accepted
    /\ \/ pi.pc = "code" /\ toPi = PUT_CODE & Code(unix.prog)
       \/ pi.pc = "load" /\ toPi = Code(unix.prog)
       \/ pi.pc = "loaded" /\ toPi = << >> /\ pi.mem = Code(unix.prog)
\* get_code has returned the address sent, and main is about to branch.
Returned ==
    pi.pc = "return" /\ pi.addr = "armbase" /\ toPi = << >> /\ verified = unix.prog
Running ==
    /\ toPi = << >> /\ pi.pc \in {"reboot", "start", "wait", "run"}
    /\ verified = unix.prog /\ booted = unix.prog
\* The Pi has said so, and the laptop has not read it.
Succeeded ==
    /\ unix.pc = "success" /\ (Returned \/ Running)
    /\ \E x \in Seq(Bytes) : /\ toUnix = Booted(x) \/ toUnix = BOOT_SUCCESS & x
                             /\ Returned => x = << >>
Echoing ==
    \/ unix.pc = "echo" /\ unix.pos = 0 /\ Returned /\ toUnix = << >>
    \/ unix.pc \in {"echo", "ended"} /\ Running

\* pi_echo starts at the first character of the exit string.
AtStart == unix.pc \notin {"echo", "ended"} => unix.pos = 0

Lockstep ==
    calm => /\ faults = 0
            /\ \/ Idle \/ HeaderSent \/ Refused \/ CodeWanted \/ CodeSent \/ Succeeded
               \/ Echoing

\* What stands in front of a line of requests and something else.
LEMMA RequestsFront ==
  ASSUME NEW k \in Nat, NEW x \in Seq(Bytes)
  PROVE  /\ Requests(k) \in Seq(Bytes) /\ Requests(k) & x \in Seq(Bytes)
         /\ \/ k = 0 /\ Requests(k) & x = x
            \/ k - 1 \in Nat /\ Requests(k) & x = GET_PROG_INFO & (Requests(k - 1) & x)
  <1>1. \A j \in Nat : Requests(j) \in Seq(Bytes)
    <2>1. \A j \in Nat : Requests(j) \in Seq(NoSuccess)
      BY RequestsFacts
    <2>2. QED  BY <2>1, SeqMonotonic DEF NoSuccess
  <1>2. CASE k = 0
    BY <1>1, <1>2, OneRequest, Grouped
  <1>3. CASE k # 0
    <2>1. k - 1 \in Nat /\ 1 + (k - 1) = k
      BY <1>3
    <2>2. Requests(1) & Requests(k - 1) = Requests(1 + (k - 1))
      BY <2>1, ConcatRequests DEF &
    <2>3. Requests(k) = GET_PROG_INFO & Requests(k - 1)
      BY <2>1, <2>2, OneRequest
    <2>4. GET_PROG_INFO \in Seq(Bytes) /\ Requests(k - 1) \in Seq(Bytes)
      BY <1>1, <2>1, WordsFacts
    <2>5. Requests(k) & x = GET_PROG_INFO & (Requests(k - 1) & x)
      BY <2>3, <2>4, Grouped
    <2>6. QED  BY <1>1, <2>1, <2>5, Grouped
  <1>4. QED  BY <1>1, <1>2, <1>3, Grouped

LEMMA MoreRequests ==
  ASSUME NEW k \in Nat
  PROVE  Requests(k) & GET_PROG_INFO = Requests(k + 1) /\ k + 1 \in Nat
  <1>1. Requests(k) & Requests(1) = Requests(k + 1)
    BY ConcatRequests DEF &
  <1>2. QED  BY <1>1, OneRequest

\* The words of the header, and what the Pi reads out of it.
LEMMA ArgsFacts ==
  ASSUME NEW p \in Prog
  PROVE  /\ Has(Header(p), WL) /\ First(Header(p), WL) = PUT_PROG_INFO
         /\ Drop(Header(p), WL) = Args(p)
         /\ Has(Args(p), 3 * WL) /\ First(Args(p), WL) = ARMBASE
         /\ SubSeq(Args(p), WL + 1, 2 * WL) = Number(CodeLen[p])
         /\ SubSeq(Args(p), 2 * WL + 1, 3 * WL) = Crc(p)
         /\ Drop(Args(p), 3 * WL) = << >>
  <1>1. PICK l, c \in Words : l = Number(CodeLen[p]) /\ c = Crc(p)
    BY WordsFacts
  <1>2. ARMBASE \in Words /\ PUT_PROG_INFO \in Words /\ c \in Seq(Bytes) /\ Len(c) = WL
        /\ WL \in Nat
    BY WordsFacts, BootAssumption DEF Words
  <1>3. PICK a : a = ARMBASE & (l & c)
    OBVIOUS
  <1>4. a = Args(p) /\ Header(p) = PUT_PROG_INFO & a
    BY <1>1, <1>3 DEF Args, Header
  <1>5. a \in Seq(Bytes)
    <2>1. l \in Seq(Bytes) /\ ARMBASE \in Seq(Bytes)
      BY <1>2, WordsFacts
    <2>2. l & c \in Seq(Bytes)
      BY <1>2, <2>1, Grouped
    <2>3. QED  BY <1>3, <2>1, <2>2, Grouped
  <1>6. /\ SubSeq(a, WL + 1, 2 * WL) = l /\ Drop(a, 2 * WL) = c
        /\ Len(a) = 2 * WL + Len(c)
    BY <1>2, <1>3, ReadSecond
  <1>6a. First(a, WL) = ARMBASE
    <2>1. l \in Seq(Bytes)
      BY WordsFacts
    <2>2. l & c \in Seq(Bytes)
      BY <1>2, <2>1, Grouped
    <2>3. QED  BY <1>2, <1>3, <2>2, ReadWord
  <1>7. Len(a) = 3 * WL
    <2>1. Len(a) = 2 * WL + WL
      BY <1>2, <1>6
    <2>2. QED  BY <1>2, <2>1
  <1>8. SubSeq(a, 2 * WL + 1, 3 * WL) = c
    BY <1>6, <1>7 DEF Drop
  <1>9. Drop(a, 3 * WL) = << >>
    <2>1. 3 * WL + 1 \in Int /\ 3 * WL \in Int /\ 3 * WL < 3 * WL + 1
      BY <1>2
    <2>2. SubSeq(a, 3 * WL + 1, 3 * WL) = << >>
      BY <2>1, SubSeqEmpty
    <2>3. QED  BY <1>7, <2>2 DEF Drop
  <1>10. Has(a, 3 * WL)
    <2>1. 3 * WL >= 3 * WL
      BY <1>2
    <2>2. QED  BY <1>7, <2>1 DEF Has
  <1>11. PICK h : h = PUT_PROG_INFO & a
    OBVIOUS
  <1>12. Has(h, WL) /\ First(h, WL) = PUT_PROG_INFO /\ Drop(h, WL) = a
    BY <1>2, <1>5, <1>11, ReadWord
  <1>13. QED  BY <1>1, <1>4, <1>6, <1>6a, <1>8, <1>9, <1>10, <1>11, <1>12

\* A length that arrives as it was sent is that length.
LEMMA LengthKnown ==
  ASSUME NEW p \in Prog
  PROVE  LengthsOf(Number(CodeLen[p])) = {CodeLen[p]}
  <1>1. \A n \in Sizes : Number(n) = Number(CodeLen[p]) => n = CodeLen[p]
    BY WordsDiffer DEF Number
  <1>2. CodeLen[p] \in Sizes
    BY WordsFacts
  <1>3. {n \in Sizes : Number(n) = Number(CodeLen[p])} = {CodeLen[p]}
    BY <1>1, <1>2
  <1>4. QED  BY <1>3 DEF LengthsOf

LEMMA ExitStray == \A i \in 1 .. Len(ExitString) : ExitString[i] \in Stray
  <1>1. \A k \in 1 .. 2 * WL : k \in 0 .. 2 * WL + 1
    BY BootAssumption
  <1>2. QED  BY <1>1, ExitFacts DEF Stray

\* A step of the Pi is the one at its place, and leaves the laptop alone.
LEMMA WhichPi ==
  ASSUME PiStep
  PROVE  /\ UNCHANGED PiSide
         /\ pi.pc \in {"start", "wait"} => Ask \/ SeeData
         /\ pi.pc = "start" => Ask
         /\ pi.pc = "info" => GetInfo
         /\ pi.pc = "args" => GetArgs
         /\ pi.pc \in {"refuse", "reply"} => Answer
         /\ pi.pc = "code" => GetCode
         /\ pi.pc = "load" => Load
         /\ pi.pc = "loaded" => Finish
         /\ pi.pc = "return" => Branch
         /\ pi.pc = "run" => RunProgram
         /\ pi.pc = "reboot" => Reboot
  <1>1. CASE Ask \/ SeeData
    BY <1>1 DEF Ask, SeeData
  <1>2. CASE GetInfo \/ GetCode
    BY <1>2 DEF GetInfo, GetCode, Expect
  <1>3. CASE GetArgs
    <2>1. pi.pc = "args" /\ UNCHANGED PiSide
      BY <1>3, Zenon DEF GetArgs
    <2>2. QED  BY <1>3, <2>1
  <1>4. CASE Answer \/ Load \/ Finish
    BY <1>4 DEF Answer, Load, Finish
  <1>5. CASE Branch \/ RunProgram \/ Reboot
    BY <1>5 DEF Branch, RunProgram, Reboot
  <1>6. QED  BY <1>1, <1>2, <1>3, <1>4, <1>5 DEF PiStep

\* A Pi about to ask only asks, or finishes its start.
LEMMA StartingStep ==
  ASSUME SInv, Starting, PiStep
  PROVE  /\ Starting' /\ pi'.pc # "reboot" /\ UNCHANGED <<unix, faults, calm, verified, booted>>
         /\ toUnix' = toUnix \/ toUnix' = toUnix & GET_PROG_INFO
  <1>1. pi \in PiState
    BY DEF SInv, TypeOK
  <1>2. pi.pc \in {"reboot", "start", "wait"} /\ toPi = << >>
    BY DEF Starting
  <1>3. CASE Ask
    <2>1. pi'.pc = "wait" /\ toPi' = << >>
      BY <1>1, <1>2, <1>3 DEF Ask, PiState
    <2>2. QED  BY <1>3, <2>1 DEF Ask, Starting, PiSide, &
  <1>4. CASE Reboot
    <2>1. Len(<< >>) = 0 /\ Drop(<< >>, 0) = << >>
      <3>1. << >> \in Seq(Bytes) /\ Len(<< >>) = 0
        BY EmptySeq
      <3>2. SubSeq(<< >>, 0 + 1, 0) = << >>
        BY SubSeqEmpty
      <3>3. QED  BY <3>1, <3>2 DEF Drop
    <2>2. toPi' = << >>
      BY <1>2, <1>4, <2>1 DEF Reboot, Suffixes
    <2>3. pi'.pc = "start"
      BY <1>4 DEF Reboot, PiStart
    <2>4. QED  BY <1>4, <2>2, <2>3 DEF Reboot, Starting, PiSide
  <1>5. QED  BY <1>2, <1>3, <1>4, WhichPi DEF SeeData

\* In get_code a request in front is drained, and nothing else happens.
LEMMA RequestInFront ==
  ASSUME unix.pc = "get_code", NEW y \in Seq(Bytes), toUnix = GET_PROG_INFO & y, UnixStep
  PROVE  toUnix' = y /\ UNCHANGED <<unix, pi, toPi, faults, calm, verified, booted>>
  <1>1. /\ Has(toUnix, WL) /\ Drop(toUnix, WL) = y
        /\ \A v : Op(v) <=> v = GET_PROG_INFO
        /\ \A ws : OtherOp(ws) <=> GET_PROG_INFO \notin ws \cup {PRINT_STRING}
    BY WordsFacts, FrontWord
  <1>2. Op(GET_PROG_INFO) /\ ~Op(PRINT_STRING) /\ ~Op(GET_CODE)
        /\ ~OtherOp({GET_PROG_INFO, GET_CODE})
    BY <1>1, OpsDiffer
  <1>3. Wanted = WL
    BY <1>1, <1>2 DEF Wanted
  <1>4. DrainRepeats
    BY <1>1, <1>2, <1>3, WhichStep DEF PrintString, PutCode, NotGetCode, Timeout
  <1>5. QED  BY <1>1, <1>4 DEF DrainRepeats, UnixSide

LEMMA IdleStep ==
  ASSUME SInv, faults = 0, Idle, PiStep \/ UnixStep \/ Again
  PROVE  faults' = 0 /\ (Idle' \/ HeaderSent')
  <1>1. /\ toUnix \in Seq(Bytes) /\ Stale(toUnix) /\ unix \in UnixState /\ Starting
        /\ unix.pc \in {"drain", "failed"} /\ Left(toUnix)
        /\ (pi.pc = "reboot" => \A i \in 1 .. Len(toUnix) : toUnix[i] \in Stray)
    BY DEF SInv, TypeOK, Idle, Left
  <1>2. ~PiSilent
    BY <1>1 DEF PiSilent, Starting
  <1>3. ASSUME NEW n \in 0 .. Len(toUnix)
        PROVE  /\ Stale(Drop(toUnix, n))
               /\ (pi.pc = "reboot" => \A i \in 1 .. Len(Drop(toUnix, n)) :
                                          Drop(toUnix, n)[i] \in Stray)
    <2>1. Stale(Drop(toUnix, n))
      BY <1>1, StaleDrop
    <2>2. /\ Len(Drop(toUnix, n)) = Len(toUnix) - n
          /\ \A i \in 1 .. Len(toUnix) - n : Drop(toUnix, n)[i] = toUnix[n + i]
      BY <1>1, DropFacts
    <2>3. \A i \in 1 .. Len(toUnix) - n : n + i \in 1 .. Len(toUnix)
      BY <1>1, LenProperties
    <2>4. QED  BY <1>1, <2>1, <2>2, <2>3
  <1>4. CASE PiStep
    <2>1. /\ Starting' /\ pi'.pc # "reboot" /\ UNCHANGED <<unix, faults, calm, verified, booted>>
          /\ toUnix' = toUnix \/ toUnix' = toUnix & GET_PROG_INFO
      BY <1>1, <1>4, StartingStep
    <2>2. Stale(toUnix')
      BY <1>1, <2>1, StaleAsk DEF &
    <2>3. QED  BY <1>1, <2>1, <2>2 DEF Idle, Left
  <1>5. CASE UnixStep
    <2>1. unix.pc = "drain"
      BY <1>1, <1>5, WhichStep
    <2>2. \A w : Op(w) => /\ 1 \in 1 .. Len(toUnix) /\ toUnix[1] = w[1]
      <3>1. ASSUME NEW w, Op(w)  PROVE 1 \in 1 .. Len(toUnix) /\ toUnix[1] = w[1]
        <4>1. WL \in 0 .. Len(toUnix) /\ 1 \in 1 .. WL /\ 1 \in 1 .. Len(toUnix)
          BY <1>1, <3>1, BootAssumption, LenProperties DEF Op, Has
        <4>2. First(toUnix, WL)[1] = toUnix[1]
          BY <1>1, <4>1, FirstFacts
        <4>3. QED  BY <3>1, <4>1, <4>2 DEF Op
      <3>2. QED  BY <3>1
    <2>3. ~Op(PRINT_STRING)
      <3>1. PRINT_STRING[1] = <<"op", 7, 1>>
        BY FirstByte DEF PRINT_STRING
      <3>2. QED  BY <1>1, <2>2, <3>1, StaleBytes
    <2>4. CASE DrainGarbage
      <3>1. Wanted \in Nat /\ Has(toUnix, Wanted) /\ toUnix' = Drop(toUnix, Wanted)
        BY <2>4, BootAssumption DEF DrainGarbage, Wanted
      <3>2. Wanted \in 0 .. Len(toUnix)
        BY <1>1, <3>1, LenProperties DEF Has
      <3>3. UNCHANGED <<unix, pi, toPi, faults>>
        BY <2>4 DEF DrainGarbage, UnixSide
      <3>4. Left(toUnix)'
        BY <1>3, <3>1, <3>2, <3>3 DEF Left
      <3>5. QED  BY <1>1, <3>3, <3>4 DEF Idle, Starting
    <2>5. CASE PutProgInfo
      <3>1. PICK k \in Nat : toUnix' = Requests(k)
        BY <1>1, <2>5, StaleRequest DEF PutProgInfo, Op
      <3>2. unix'.pc = "get_code" /\ unix'.prog = unix.prog /\ UNCHANGED <<pi, faults>>
        BY <1>1, <2>5 DEF PutProgInfo, UnixState
      <3>3. pi.pc \in {"start", "wait"}
        <4>1. GET_PROG_INFO[1] \notin Stray
          BY StrayFacts
        <4>2. pi.pc # "reboot"
          BY <1>1, <2>2, <2>5, <4>1 DEF PutProgInfo
        <4>3. QED  BY <1>1, <4>2 DEF Starting
      <3>4. toPi' = Header(unix.prog)
        <4>1. PICK p \in Prog : p = unix.prog
          BY <1>1 DEF UnixState
        <4>2. PICK l, c \in Seq(Bytes) : l = Number(CodeLen[p]) /\ c = Crc(p)
          BY WordsFacts
        <4>3. toPi' = (((<< >> & PUT_PROG_INFO) & ARMBASE) & l) & c
          BY <1>1, <2>5, <4>1, <4>2 DEF PutProgInfo, Starting, &
        <4>4. PUT_PROG_INFO \in Seq(Bytes) /\ ARMBASE \in Seq(Bytes)
          BY WordsFacts
        <4>5. toPi' = PUT_PROG_INFO & (ARMBASE & (l & c))
          BY <4>3, <4>4, Grouped
        <4>6. QED  BY <4>1, <4>2, <4>5 DEF Header, Args
      <3>5. QED  BY <1>1, <3>1, <3>2, <3>3, <3>4 DEF HeaderSent
    <2>6. ~PrintString /\ ~Timeout
      BY <1>2, <2>3 DEF PrintString, Timeout
    <2>7. QED  BY <1>5, <2>1, <2>4, <2>5, <2>6, WhichStep
  <1>6. CASE Again
    <2>1. PICK n \in 0 .. Len(toUnix) : toUnix' = Drop(toUnix, n)
      BY <1>6 DEF Again, Suffixes
    <2>2. unix'.pc = "drain" /\ UNCHANGED <<pi, toPi, faults>>
      BY <1>6 DEF Again, Start
    <2>3. Left(toUnix)'
      BY <1>3, <2>1, <2>2 DEF Left
    <2>4. QED  BY <1>1, <2>2, <2>3 DEF Idle, Starting
  <1>7. QED  BY <1>4, <1>5, <1>6

LEMMA HeaderLaptop ==
  ASSUME SInv, faults = 0, HeaderSent, UnixStep
  PROVE  faults' = 0 /\ HeaderSent'
  <1>1. PICK k \in Nat : toUnix = Requests(k)
    BY DEF HeaderSent
  <1>2. PICK p \in Prog : p = unix.prog
    BY DEF SInv, TypeOK, UnixState
  <1>3. unix.pc = "get_code"
    BY DEF HeaderSent
  <1>4. /\ Requests(k) \in Seq(Bytes) /\ Requests(k) & << >> = Requests(k)
        /\ \/ k = 0 /\ toUnix = << >>
           \/ k - 1 \in Nat /\ toUnix = GET_PROG_INFO & Requests(k - 1)
              /\ Requests(k - 1) \in Seq(Bytes)
    <2>1. << >> \in Seq(Bytes) /\ \A j \in Nat : Requests(j) \in Seq(Bytes)
      BY RequestsFront, WordsFacts
    <2>2. \A j \in Nat : Requests(j) & << >> = Requests(j)
      BY <2>1, Grouped
    <2>3. \/ k = 0 /\ Requests(k) & << >> = << >>
          \/ k - 1 \in Nat /\ Requests(k) & << >> = GET_PROG_INFO & (Requests(k - 1) & << >>)
      BY <2>1, RequestsFront
    <2>4. QED  BY <1>1, <2>1, <2>2, <2>3
  <1>5. CASE toUnix = << >>
    <2>1. ~Has(toUnix, WL)
      BY <1>5, NoWord
    <2>2. Timeout
      BY <1>3, <2>1, WhichStep DEF PrintString, DrainRepeats, PutCode, NotGetCode, Op, OtherOp
    <2>3. Has(Header(p), WL) /\ Has(Args(p), 3 * WL)
      BY ArgsFacts
    <2>4. ~PiSilent
      BY <1>2, <2>3 DEF HeaderSent, PiSilent
    <2>5. QED  BY <2>2, <2>4 DEF Timeout
  <1>6. CASE k - 1 \in Nat /\ toUnix = GET_PROG_INFO & Requests(k - 1)
             /\ Requests(k - 1) \in Seq(Bytes)
    <2>1. toUnix' = Requests(k - 1) /\ UNCHANGED <<unix, pi, toPi, faults, calm, verified, booted>>
      BY <1>3, <1>6, RequestInFront
    <2>2. QED  BY <1>6, <2>1 DEF HeaderSent, Accepted
  <1>7. QED  BY <1>4, <1>5, <1>6

LEMMA HeaderPi ==
  ASSUME SInv, faults = 0, HeaderSent, PiStep
  PROVE  faults' = 0 /\ (HeaderSent' \/ Refused' \/ CodeWanted')
  <1>1. PICK k \in Nat : toUnix = Requests(k)
    BY DEF HeaderSent
  <1>2. PICK p \in Prog : p = unix.prog
    BY DEF SInv, TypeOK, UnixState
  <1>3. pi \in PiState /\ unix.pc = "get_code" /\ Requests(k) \in Seq(Bytes)
    BY RequestsFront, WordsFacts DEF SInv, TypeOK, HeaderSent
  <1>4. UNCHANGED <<unix, faults>>
    BY WhichPi DEF PiSide
  <1>5. CASE pi.pc \in {"start", "wait", "info"} /\ toPi = Header(p)
    <2>1. CASE Ask
      <3>1. toUnix' = Requests(k + 1) /\ k + 1 \in Nat
        BY <1>1, <2>1, MoreRequests DEF Ask, &
      <3>2. pi'.pc = "wait" /\ toPi' = toPi
        BY <1>3, <2>1 DEF Ask, PiState
      <3>3. QED  BY <1>2, <1>3, <1>4, <1>5, <3>1, <3>2 DEF HeaderSent
    <2>2. CASE SeeData
      <3>1. pi'.pc = "info" /\ toPi' = toPi /\ toUnix' = toUnix
        BY <1>3, <2>2 DEF SeeData, PiState
      <3>2. QED  BY <1>1, <1>2, <1>3, <1>4, <1>5, <3>1 DEF HeaderSent
    <2>3. CASE GetInfo
      <3>1. First(toPi, WL) = PUT_PROG_INFO /\ Drop(toPi, WL) = Args(p)
        BY <1>5, ArgsFacts
      <3>2. pi'.pc = "args" /\ toPi' = Args(p) /\ toUnix' = toUnix
        BY <1>3, <2>3, <3>1 DEF GetInfo, Expect, PiState
      <3>3. QED  BY <1>1, <1>2, <1>3, <1>4, <3>2 DEF HeaderSent
    <2>4. QED  BY <1>5, <2>1, <2>2, <2>3, WhichPi
  <1>6. CASE pi.pc = "args" /\ toPi = Args(p)
    <2>1. GetArgs
      BY <1>6, WhichPi
    <2>2. /\ SubSeq(toPi, WL + 1, 2 * WL) = Number(CodeLen[p])
          /\ SubSeq(toPi, 2 * WL + 1, 3 * WL) = Crc(p)
          /\ Drop(toPi, 3 * WL) = << >> /\ First(toPi, WL) = ARMBASE
      BY <1>6, ArgsFacts
    <2>3. LengthsOf(Number(CodeLen[p])) = {CodeLen[p]} /\ PlacesOf(ARMBASE) = {"armbase"}
      BY LengthKnown DEF PlacesOf
    <2>4. /\ pi'.pc \in {"refuse", "reply"} /\ pi'.addr = "armbase"
          /\ pi'.n = CodeLen[p] /\ pi'.cksum = Crc(p)
          /\ toPi' = << >> /\ toUnix' = toUnix
      BY <1>3, <2>1, <2>2, <2>3 DEF GetArgs, PiState
    <2>5. QED  BY <1>1, <1>2, <1>3, <1>4, <2>4 DEF HeaderSent, Accepted
  <1>7. CASE pi.pc \in {"refuse", "reply"} /\ toPi = << >> /\ Accepted
    <2>1. Answer
      BY <1>7, WhichPi
    <2>2. toPi' = << >>
      BY <1>7, <2>1 DEF Answer
    <2>3. CASE pi.pc = "refuse"
      <3>1. toUnix' = (Requests(k) & BOOT_ERROR) & ExitString /\ pi'.pc = "reboot"
        BY <1>1, <1>3, <2>1, <2>3 DEF Answer, Refuse, PiState, &
      <3>2. ExitString \in Seq(Bytes) /\ BOOT_ERROR \in Seq(Bytes)
        BY WordsFacts
      <3>3. toUnix' = Requests(k) & (BOOT_ERROR & ExitString)
        BY <1>3, <3>1, <3>2, Grouped
      <3>4. \A i \in 1 .. Len(ExitString) : ExitString[i] \in Stray
        BY ExitStray
      <3>5. Stale(ExitString)
        BY <3>2, <3>4, StaleStray
      <3>6. Left(ExitString)'
        BY <3>4, <3>5 DEF Left
      <3>7. QED  BY <1>3, <1>4, <2>2, <3>1, <3>2, <3>3, <3>6 DEF Refused, Starting
    <2>4. CASE pi.pc = "reply"
      <3>1. /\ toUnix' = (Requests(k) & GET_CODE) & pi.cksum
            /\ pi'.pc = "code" /\ pi'.addr = pi.addr /\ pi'.n = pi.n
            /\ pi'.cksum = pi.cksum
        BY <1>1, <1>3, <2>1, <2>4 DEF Answer, PiState, &
      <3>2. GET_CODE \in Seq(Bytes) /\ pi.cksum \in Seq(Bytes)
        BY <1>3, WordsFacts DEF PiState
      <3>3. toUnix' = Requests(k) & (GET_CODE & pi.cksum)
        BY <1>3, <3>1, <3>2, Grouped
      <3>4. QED  BY <1>3, <1>4, <1>7, <2>2, <3>1, <3>3 DEF CodeWanted, Accepted
    <2>5. QED  BY <1>7, <2>3, <2>4
  <1>8. QED  BY <1>2, <1>5, <1>6, <1>7 DEF HeaderSent

LEMMA RefusedStep ==
  ASSUME SInv, faults = 0, Refused, PiStep \/ UnixStep
  PROVE  faults' = 0 /\ (Refused' \/ Idle')
  <1>1. PICK k \in Nat, x \in Seq(Bytes) : toUnix = Requests(k) & (BOOT_ERROR & x) /\ Left(x)
    BY DEF Refused
  <1>2. PICK y : y = BOOT_ERROR & x
    OBVIOUS
  <1>3. /\ BOOT_ERROR \in Words /\ BOOT_ERROR \in Seq(Bytes) /\ y \in Seq(Bytes)
        /\ GET_PROG_INFO \in Seq(Bytes) /\ Requests(k) \in Seq(Bytes)
    BY <1>2, WordsFacts, Grouped, RequestsFront
  <1>4. unix.pc = "get_code" /\ Starting /\ Stale(x)
        /\ (pi.pc = "reboot" => \A i \in 1 .. Len(x) : x[i] \in Stray)
    BY <1>1 DEF Refused, Left
  <1>5. CASE PiStep
    <2>1. /\ Starting' /\ pi'.pc # "reboot" /\ UNCHANGED <<unix, faults, calm, verified, booted>>
          /\ toUnix' = toUnix \/ toUnix' = toUnix & GET_PROG_INFO
      BY <1>4, <1>5, StartingStep
    <2>2. PICK z \in Seq(Bytes) : z = x & GET_PROG_INFO
      BY <1>3, Grouped
    <2>3. toUnix & GET_PROG_INFO = Requests(k) & (BOOT_ERROR & z)
      <3>1. y & GET_PROG_INFO = BOOT_ERROR & z
        BY <1>2, <1>3, <2>2, Grouped
      <3>2. (Requests(k) & y) & GET_PROG_INFO = Requests(k) & (y & GET_PROG_INFO)
        BY <1>3, Grouped
      <3>3. QED  BY <1>1, <1>2, <3>1, <3>2
    <2>4. Stale(x) /\ Stale(z)
      BY <1>4, <2>2, StaleAsk DEF &
    <2>5. Left(x)' /\ Left(z)'
      BY <2>1, <2>4 DEF Left
    <2>6. QED  BY <1>1, <1>4, <2>1, <2>2, <2>3, <2>5 DEF Refused
  <1>6. CASE UnixStep
    <2>1. \/ k = 0 /\ toUnix = y
          \/ k - 1 \in Nat /\ toUnix = GET_PROG_INFO & (Requests(k - 1) & y)
      BY <1>1, <1>2, <1>3, RequestsFront
    <2>2. CASE toUnix = y
      <3>1. /\ Has(toUnix, WL) /\ Drop(toUnix, WL) = x
            /\ \A v : Op(v) <=> v = BOOT_ERROR
            /\ \A ws : OtherOp(ws) <=> BOOT_ERROR \notin ws \cup {PRINT_STRING}
        BY <1>2, <1>3, <2>2, FrontWord
      <3>2. ~Op(GET_PROG_INFO) /\ ~Op(PRINT_STRING) /\ ~Op(GET_CODE)
        BY <3>1, OpsDiffer
      <3>3. Wanted = WL
        BY <1>4, <3>1, <3>2 DEF Wanted
      <3>4. NotGetCode
        BY <1>4, <1>6, <3>1, <3>2, <3>3, WhichStep DEF PrintString, PutCode, DrainRepeats, Timeout
      <3>5. toUnix' = x /\ unix'.pc = "failed" /\ UNCHANGED <<pi, toPi, faults>>
        <4>1. unix \in UnixState
          BY DEF SInv, TypeOK
        <4>2. QED  BY <3>1, <3>4, <4>1 DEF NotGetCode, Fail, UnixSide, UnixState
      <3>6. Left(toUnix)'
        BY <1>4, <3>5 DEF Left
      <3>7. QED  BY <1>4, <3>5, <3>6 DEF Idle, Starting
    <2>3. CASE k - 1 \in Nat /\ toUnix = GET_PROG_INFO & (Requests(k - 1) & y)
      <3>1. Requests(k - 1) & y \in Seq(Bytes)
        BY <1>3, <2>3, RequestsFront
      <3>2. toUnix' = Requests(k - 1) & y /\ UNCHANGED <<unix, pi, toPi, faults, calm, verified, booted>>
        BY <1>4, <1>6, <2>3, <3>1, RequestInFront
      <3>3. Left(x)'
        BY <1>4, <3>2 DEF Left
      <3>4. QED  BY <1>2, <1>4, <2>3, <3>2, <3>3 DEF Refused, Starting
    <2>4. QED  BY <2>1, <2>2, <2>3
  <1>7. QED  BY <1>5, <1>6

LEMMA WantedStep ==
  ASSUME SInv, faults = 0, CodeWanted, PiStep \/ UnixStep
  PROVE  faults' = 0 /\ (CodeWanted' \/ CodeSent')
  <1>1. PICK k \in Nat : toUnix = Requests(k) & (GET_CODE & Crc(unix.prog))
    BY DEF CodeWanted
  <1>2. PICK p \in Prog : p = unix.prog
    BY DEF SInv, TypeOK, UnixState
  <1>3. PICK c \in Words : c = Crc(p)
    BY WordsFacts
  <1>4. PICK y : y = GET_CODE & c
    OBVIOUS
  <1>5. /\ GET_CODE \in Words /\ GET_CODE \in Seq(Bytes) /\ c \in Seq(Bytes)
        /\ y \in Seq(Bytes) /\ Requests(k) \in Seq(Bytes) /\ toUnix = Requests(k) & y
    BY <1>1, <1>2, <1>3, <1>4, WordsFacts, Grouped, RequestsFront
  <1>6. unix.pc = "get_code" /\ pi.pc = "code" /\ toPi = << >> /\ Accepted
    BY DEF CodeWanted
  <1>7. ~PiStep
    BY <1>6, NoWord, WhichPi DEF GetCode, Expect
  <1>8. \/ k = 0 /\ toUnix = y
        \/ k - 1 \in Nat /\ toUnix = GET_PROG_INFO & (Requests(k - 1) & y)
    BY <1>5, RequestsFront
  <1>9. CASE toUnix = y
    <2>1. /\ Has(toUnix, WL)
          /\ \A v : Op(v) <=> v = GET_CODE
          /\ \A ws : OtherOp(ws) <=> GET_CODE \notin ws \cup {PRINT_STRING}
      BY <1>3, <1>4, <1>5, <1>9, FrontWord
    <2>2. ~Op(GET_PROG_INFO) /\ ~Op(PRINT_STRING) /\ Op(GET_CODE)
          /\ ~OtherOp({GET_PROG_INFO, GET_CODE})
      BY <2>1, OpsDiffer
    <2>3. Wanted = 2 * WL
      BY <1>6, <2>1, <2>2 DEF Wanted
    <2>4. PICK z \in Seq(Bytes) : z = << >>
      BY WordsFacts
    <2>5. toUnix = GET_CODE & (c & z)
      BY <1>4, <1>5, <1>9, <2>4, Grouped
    <2>6. /\ Has(toUnix, 2 * WL) /\ SubSeq(toUnix, WL + 1, 2 * WL) = c
          /\ Drop(toUnix, 2 * WL) = z
      BY <1>3, <1>5, <2>5, ReadSecond
    <2>7. PutCode
      BY <1>6, <1>7, <2>2, <2>3, <2>6, WhichStep DEF PrintString, NotGetCode, DrainRepeats, Timeout
    <2>8. /\ toPi' = (toPi & PUT_CODE) & Code(p) /\ toUnix' = << >>
          /\ unix' = [unix EXCEPT !.pc = "success"] /\ UNCHANGED <<pi, faults>>
      BY <1>2, <1>3, <2>3, <2>4, <2>6, <2>7 DEF PutCode, UnixSide, &
    <2>9. toPi' = PUT_CODE & Code(p)
      <3>1. << >> & PUT_CODE = PUT_CODE
        BY WordsFacts, Grouped
      <3>2. QED  BY <1>6, <2>8, <3>1
    <2>10. unix'.pc = "success" /\ unix'.prog = p
      BY <1>2, <2>8 DEF SInv, TypeOK, UnixState
    <2>11. QED  BY <1>2, <1>6, <2>8, <2>9, <2>10 DEF CodeSent, Accepted
  <1>10. CASE k - 1 \in Nat /\ toUnix = GET_PROG_INFO & (Requests(k - 1) & y)
    <2>1. Requests(k - 1) & y \in Seq(Bytes)
      BY <1>5, <1>10, RequestsFront
    <2>2. toUnix' = Requests(k - 1) & y /\ UNCHANGED <<unix, pi, toPi, faults, calm, verified, booted>>
      BY <1>6, <1>7, <1>10, <2>1, RequestInFront
    <2>3. QED  BY <1>2, <1>3, <1>4, <1>6, <1>10, <2>2 DEF CodeWanted, Accepted
  <1>11. QED  BY <1>8, <1>9, <1>10

LEMMA SentStep ==
  ASSUME SInv, AtStart, faults = 0, CodeSent, PiStep \/ UnixStep
  PROVE  faults' = 0 /\ (CodeSent' \/ Succeeded')
  <1>1. PICK p \in Prog : p = unix.prog
    BY DEF SInv, TypeOK, UnixState
  <1>2. pi \in PiState /\ unix.pc = "success" /\ toUnix = << >> /\ pi.n = CodeLen[p]
        /\ pi.cksum = Crc(p) /\ pi.addr = "armbase"
    BY <1>1 DEF SInv, TypeOK, CodeSent, Accepted
  <1>3. PICK c \in Seq(Bytes) : c = Code(p) /\ Len(c) = CodeLen[p] /\ CodeLen[p] \in Nat
    BY WordsFacts
  <1>4. PICK m : m = PUT_CODE & c
    OBVIOUS
  <1>5. Has(m, WL) /\ First(m, WL) = PUT_CODE /\ Drop(m, WL) = c
    BY <1>3, <1>4, WordsFacts, ReadWord
  <1>6. Has(c, pi.n) /\ First(c, pi.n) = c /\ Drop(c, pi.n) = << >>
    <2>1. Len(c) >= Len(c) /\ Len(c) + 1 \in Int /\ Len(c) \in Int /\ Len(c) < Len(c) + 1
      BY <1>3
    <2>2. SubSeq(c, 1, Len(c)) = c /\ SubSeq(c, Len(c) + 1, Len(c)) = << >>
      BY <1>3, <2>1, SubSeqFull, SubSeqEmpty
    <2>3. QED  BY <1>2, <1>3, <2>1, <2>2 DEF Has, First, Drop
  <1>7. \/ pi.pc = "code" /\ toPi = m
        \/ pi.pc = "load" /\ toPi = c
        \/ pi.pc = "loaded" /\ toPi = << >> /\ pi.mem = c
    BY <1>1, <1>3, <1>4 DEF CodeSent
  <1>8. ~UnixStep
    <2>1. ~Has(toUnix, WL)
      BY <1>2, NoWord
    <2>2. ~PiSilent
      BY <1>5, <1>6, <1>7 DEF PiSilent
    <2>3. QED  BY <1>2, <2>1, <2>2, WhichStep DEF PrintString, AwaitSuccess, Timeout, Op
  <1>9. UNCHANGED <<unix, faults>>
    BY <1>8, WhichPi DEF PiSide
  <1>10. CASE pi.pc = "code" /\ toPi = m
    <2>1. GetCode
      BY <1>8, <1>10, WhichPi
    <2>2. /\ pi' = [pi EXCEPT !.pc = "load"] /\ toPi' = c /\ toUnix' = toUnix
      BY <1>5, <1>10, <2>1 DEF GetCode, Expect
    <2>3. pi'.pc = "load" /\ pi'.addr = pi.addr /\ pi'.n = pi.n /\ pi'.cksum = pi.cksum
      BY <1>2, <2>2 DEF PiState
    <2>4. QED  BY <1>1, <1>2, <1>3, <1>9, <2>2, <2>3 DEF CodeSent, Accepted
  <1>11. CASE pi.pc = "load" /\ toPi = c
    <2>1. Load
      BY <1>8, <1>11, WhichPi
    <2>2. /\ pi' = [pi EXCEPT !.pc = "loaded", !.mem = c]
          /\ toPi' = << >> /\ toUnix' = toUnix
      BY <1>6, <1>11, <2>1 DEF Load
    <2>3. /\ pi'.pc = "loaded" /\ pi'.addr = pi.addr /\ pi'.n = pi.n
          /\ pi'.cksum = pi.cksum /\ pi'.mem = c
      BY <1>2, <2>2 DEF PiState
    <2>4. QED  BY <1>1, <1>2, <1>3, <1>9, <2>2, <2>3 DEF CodeSent, Accepted
  <1>12. CASE pi.pc = "loaded" /\ toPi = << >> /\ pi.mem = c
    <2>1. Finish
      BY <1>8, <1>12, WhichPi
    <2>2. CrcOK
      BY <1>2, <1>3, <1>12 DEF CrcOK
    <2>3. /\ toUnix' = (((toUnix & PRINT_STRING) & Number(1)) & <<Char(0)>>) & BOOT_SUCCESS
          /\ pi' = [pi EXCEPT !.pc = "return"] /\ toPi' = toPi
          /\ verified' = CHOOSE q \in Prog : pi.mem = Code(q)
      BY <1>2, <2>1, <2>2 DEF Finish, Succeed, &
    <2>4. verified' = p
      <3>1. pi.mem \in Seq(FromLaptop(tried)) /\ pi.mem = Code(p)
        BY <1>3, <1>12 DEF SInv, Safe
      <3>2. QED  BY <2>3, <3>1, LoadedTried
    <2>5. pi'.pc = "return" /\ pi'.addr = "armbase"
      BY <1>2, <2>3 DEF PiState
    <2>6. PICK n, s \in Seq(Bytes) : n = Number(1) /\ s = <<Char(0)>>
      BY WordsFacts
    <2>7. PRINT_STRING \in Seq(Bytes) /\ BOOT_SUCCESS \in Seq(Bytes) /\ << >> \in Seq(Bytes)
      BY WordsFacts
    <2>8. toUnix' = (((<< >> & PRINT_STRING) & n) & s) & BOOT_SUCCESS
      BY <1>2, <2>3, <2>6
    <2>9. toUnix' = PRINT_STRING & (n & (s & BOOT_SUCCESS))
      BY <2>7, <2>8, Grouped
    <2>10. BOOT_SUCCESS & << >> = BOOT_SUCCESS
      BY <2>7, Grouped
    <2>11. toUnix' = Booted(<< >>)
      BY <2>6, <2>9, <2>10 DEF Booted
    <2>12. QED  BY <1>1, <1>2, <1>9, <1>12, <2>3, <2>4, <2>5, <2>7, <2>11 DEF Succeeded, Returned
  <1>13. QED  BY <1>7, <1>10, <1>11, <1>12

\* What the Pi prints comes after its success.
LEMMA BootedFacts ==
  ASSUME NEW p \in Prog, NEW x \in Seq(Bytes)
  PROVE  /\ \A y \in Seq(Bytes) : Booted(x) & y = Booted(x & y)
         /\ \A y \in Seq(Bytes) : (BOOT_SUCCESS & x) & y = BOOT_SUCCESS & (x & y)
         /\ \E z \in Seq(Bytes) : Booted(x) = PRINT_STRING & z
         /\ SubSeq(Booted(x), WL + 1, 2 * WL) = Number(1)
         /\ Has(Booted(x), 2 * WL + 1) /\ Drop(Booted(x), 2 * WL + 1) = BOOT_SUCCESS & x
  <1>2. PICK n \in Words : n = Number(1)
    BY WordsFacts
  <1>3. PICK s \in Seq(Bytes) : s = <<Char(0)>> /\ Len(s) = 1
    BY WordsFacts
  <1>4. /\ PRINT_STRING \in Words /\ PRINT_STRING \in Seq(Bytes) /\ Len(PRINT_STRING) = WL
        /\ n \in Seq(Bytes) /\ Len(n) = WL /\ BOOT_SUCCESS \in Seq(Bytes) /\ WL \in Nat
    BY WordsFacts, BootAssumption DEF Words
  <1>4a. PRINT_STRING \in Seq(Bytes) /\ n \in Seq(Bytes)
    BY <1>4
  <1>5. PICK t \in Seq(Bytes) : t = BOOT_SUCCESS & x
    BY <1>4, Grouped
  <1>6. Booted(x) = PRINT_STRING & (n & (s & t))
    BY <1>2, <1>3, <1>5 DEF Booted
  <1>7. PICK u \in Seq(Bytes) : u = s & t
    BY Grouped
  <1>8. PICK line : line = PRINT_STRING & (n & u)
    OBVIOUS
  <1>9. Booted(x) = line
    BY <1>6, <1>7, <1>8
  <1>10. SubSeq(line, WL + 1, 2 * WL) = n
    BY <1>4, <1>8, ReadSecond
  <1>11. PICK a \in Seq(Bytes) : a = (PRINT_STRING & n) & s
    BY <1>4, Grouped
  <1>12. line = a & t
    <2>1. ((PRINT_STRING & n) & s) & t = PRINT_STRING & (n & (s & t))
      BY <1>4a, Regrouped
    <2>2. QED  BY <1>7, <1>8, <1>11, <2>1
  <1>13. Len(a) = 2 * WL + 1
    <2>1. PRINT_STRING & n \in Seq(Bytes)
      BY <1>4a, Grouped
    <2>2. Len(PRINT_STRING & n) = Len(PRINT_STRING) + Len(n)
      BY <1>4a, GroupedLen
    <2>3. Len(a) = Len(PRINT_STRING & n) + Len(s)
      BY <1>11, <2>1, GroupedLen
    <2>4. QED  BY <1>3, <1>4, <2>2, <2>3
  <1>14. Len(line) = Len(a) + Len(t) /\ Drop(line, Len(a)) = t
    BY <1>12, SplitConcat DEF &
  <1>15. Has(line, 2 * WL + 1) /\ Drop(line, 2 * WL + 1) = t
    <2>1. Len(t) \in Nat
      BY LenProperties
    <2>2. Len(line) >= 2 * WL + 1
      BY <1>4, <1>13, <1>14, <2>1
    <2>3. QED  BY <1>13, <1>14, <2>2 DEF Has
  <1>16. \A y \in Seq(Bytes) : (BOOT_SUCCESS & x) & y = BOOT_SUCCESS & (x & y)
    BY <1>4, Grouped
  <1>17. ASSUME NEW y \in Seq(Bytes)  PROVE Booted(x) & y = Booted(x & y)
    <2>1. (PRINT_STRING & (n & (s & t))) & y = PRINT_STRING & (n & (s & (t & y)))
      BY <1>4, Grouped
    <2>2. t & y = BOOT_SUCCESS & (x & y)
      BY <1>5, <1>16
    <2>3. Booted(x & y) = PRINT_STRING & (n & (s & (BOOT_SUCCESS & (x & y))))
      BY <1>2, <1>3 DEF Booted
    <2>4. QED  BY <1>6, <2>1, <2>2, <2>3
  <1>18. n & u \in Seq(Bytes)
    BY <1>4, Grouped
  <1>19. QED  BY <1>2, <1>5, <1>8, <1>9, <1>10, <1>15, <1>16, <1>17, <1>18

LEMMA RunningStep ==
  ASSUME SInv, Running, PiStep
  PROVE  /\ Running' /\ UNCHANGED <<unix, faults>>
         /\ \E y \in Seq(Bytes) : toUnix' = toUnix & y
  <1>1. toUnix \in Seq(Bytes) /\ pi \in PiState
    BY DEF SInv, TypeOK
  <1>2. CASE Starting
    <2>1. /\ Starting' /\ UNCHANGED <<unix, faults, calm, verified, booted>>
          /\ toUnix' = toUnix \/ toUnix' = toUnix & GET_PROG_INFO
      BY <1>2, StartingStep DEF &
    <2>2. toUnix & << >> = toUnix /\ << >> \in Seq(Bytes) /\ GET_PROG_INFO \in Seq(Bytes)
      <3>1. toUnix & << >> = toUnix
        BY <1>1, Grouped
      <3>2. QED  BY <3>1, WordsFacts
    <2>3. \E y \in Seq(Bytes) : toUnix' = toUnix & y
      BY <2>1, <2>2
    <2>4. QED  BY <2>1, <2>3 DEF Running, Starting
  <1>3. CASE pi.pc = "run" /\ toPi = << >> /\ verified = unix.prog
             /\ booted = unix.prog
    <2>1. RunProgram
      BY <1>3, WhichPi
    <2>2. PICK o \in Outputs : toUnix' = (toUnix & o) & ExitString
      BY <2>1 DEF RunProgram, &
    <2>3. o \in Seq(Bytes) /\ ExitString \in Seq(Bytes)
      BY LineAssumption, WordsFacts
    <2>4. toUnix' = toUnix & (o & ExitString) /\ o & ExitString \in Seq(Bytes)
      BY <1>1, <2>2, <2>3, Grouped
    <2>5. pi'.pc = "reboot" /\ UNCHANGED <<toPi, verified, booted, unix, faults>>
      BY <1>1, <2>1 DEF RunProgram, PiState, PiSide
    <2>6. QED  BY <1>3, <2>4, <2>5 DEF Running, Starting
  <1>4. \/ pi.pc = "run" /\ toPi = << >> /\ verified = unix.prog /\ booted = unix.prog
        \/ Starting
    BY DEF Running, Starting
  <1>5. QED  BY <1>2, <1>3, <1>4

\* main's branch, to the program sent.
LEMMA ReturnedStep ==
  ASSUME SInv, Returned, PiStep
  PROVE  Running' /\ UNCHANGED <<unix, toUnix, faults>>
  <1>1. pi \in PiState /\ pi.pc = "return" /\ pi.addr = "armbase"
    BY DEF SInv, TypeOK, Returned
  <1>2. Branch
    BY <1>1, WhichPi
  <1>3. pi' = [pi EXCEPT !.pc = "run"] /\ booted' = verified
    BY <1>1, <1>2 DEF Branch
  <1>4. pi'.pc = "run"
    BY <1>1, <1>3 DEF PiState
  <1>5. UNCHANGED <<unix, toUnix, toPi, verified, faults>>
    BY <1>2 DEF Branch, PiSide
  <1>6. QED  BY <1>3, <1>4, <1>5 DEF Returned, Running

LEMMA SucceededStep ==
  ASSUME SInv, AtStart, faults = 0, Succeeded, PiStep \/ UnixStep
  PROVE  faults' = 0 /\ (Succeeded' \/ Echoing')
  <1>1. PICK x \in Seq(Bytes) : /\ toUnix = Booted(x) \/ toUnix = BOOT_SUCCESS & x
                                /\ Returned => x = << >>
    BY DEF Succeeded
  <1>2. unix.pc = "success" /\ (Returned \/ Running) /\ ~(Returned /\ Running) /\ unix \in UnixState /\ unix.prog \in Prog
        /\ unix.pos = 0
    BY DEF Succeeded, SInv, TypeOK, UnixState, Returned, Running, AtStart
  <1>3. CASE PiStep /\ Returned
    BY <1>1, <1>2, <1>3, ReturnedStep DEF Succeeded, Returned, Running
  <1>4. CASE PiStep /\ Running
    <2>1. Running' /\ UNCHANGED <<unix, faults>>
      BY <1>4, RunningStep
    <2>2. PICK y \in Seq(Bytes) : toUnix' = toUnix & y
      BY <1>4, RunningStep
    <2>3. toUnix' = Booted(x & y) \/ toUnix' = BOOT_SUCCESS & (x & y)
      BY <1>1, <1>2, <2>2, BootedFacts
    <2>4. x & y \in Seq(Bytes)
      BY Grouped
    <2>5. ~Returned'
      BY <2>1 DEF Returned, Running
    <2>6. QED  BY <1>2, <2>1, <2>3, <2>4, <2>5 DEF Succeeded
  <1>5. CASE UnixStep
    <2>1. ASSUME UNCHANGED <<pi, toPi, verified, booted>>, unix'.prog = unix.prog
          PROVE  (Returned' <=> Returned) /\ (Running' <=> Running)
      BY <2>1 DEF Returned, Running
    <2>2. CASE toUnix = Booted(x)
      <3>1. PICK z \in Seq(Bytes) : toUnix = PRINT_STRING & z
        BY <1>2, <2>2, BootedFacts
      <3>2. Has(toUnix, WL) /\ Op(PRINT_STRING)
        BY <3>1, WordsFacts, FrontWord
      <3>3. Wanted = 2 * WL + 1
        BY <3>2 DEF Wanted
      <3>4. /\ SubSeq(toUnix, WL + 1, 2 * WL) = Number(1)
            /\ Has(toUnix, 2 * WL + 1) /\ Drop(toUnix, 2 * WL + 1) = BOOT_SUCCESS & x
        BY <1>2, <2>2, BootedFacts
      <3>5. PrintString
        BY <1>2, <1>5, <3>2, <3>3, <3>4, WhichStep DEF AwaitSuccess, Timeout
      <3>6. toUnix' = BOOT_SUCCESS & x /\ UNCHANGED <<unix, pi, toPi, faults, verified, booted>>
        BY <3>3, <3>4, <3>5 DEF PrintString, UnixSide
      <3>7. QED  BY <1>1, <1>2, <2>1, <3>6 DEF Succeeded
    <2>3. CASE toUnix = BOOT_SUCCESS & x
      <3>1. /\ Has(toUnix, WL) /\ Drop(toUnix, WL) = x
            /\ \A v : Op(v) <=> v = BOOT_SUCCESS
        BY <2>3, WordsFacts, FrontWord
      <3>2. Op(BOOT_SUCCESS) /\ ~Op(PRINT_STRING)
        BY <3>1, OpsDiffer
      <3>3. Wanted = WL
        BY <1>2, <3>1, <3>2 DEF Wanted
      <3>4. AwaitSuccess
        BY <1>2, <1>5, <3>1, <3>2, <3>3, WhichStep DEF PrintString, Timeout
      <3>5. /\ unix'.pc = "echo" /\ unix'.prog = unix.prog /\ unix'.pos = 0 /\ toUnix' = x
            /\ UNCHANGED <<pi, toPi, faults, verified, booted>>
        BY <1>2, <3>1, <3>2, <3>4 DEF AwaitSuccess, UnixState, UnixSide
      <3>6. QED  BY <1>1, <1>2, <2>1, <3>5 DEF Echoing
    <2>4. QED  BY <1>1, <2>2, <2>3
  <1>6. QED  BY <1>2, <1>3, <1>4, <1>5

LEMMA EchoingStep ==
  ASSUME SInv, faults = 0, Echoing, PiStep \/ UnixStep
  PROVE  faults' = 0 /\ Echoing'
  <1>1. unix.pc \in {"echo", "ended"} /\ unix \in UnixState
    BY DEF Echoing, SInv, TypeOK
  <1>2. CASE PiStep /\ Running
    BY <1>1, <1>2, RunningStep DEF Echoing
  <1>3. CASE PiStep /\ Returned
    BY <1>1, <1>3, ReturnedStep DEF Echoing
  <1>4. CASE UnixStep
    <2>1. Echo
      BY <1>1, <1>4, WhichStep
    <2>2. unix'.pc \in {"echo", "ended"} /\ unix'.prog = unix.prog
      BY <1>1, <2>1 DEF Echo, UnixState
    <2>3. UNCHANGED <<pi, toPi, faults, verified, booted>>
      BY <2>1 DEF Echo, UnixSide
    <2>4. Running
      <3>1. ~Has(<< >>, 1)
        BY EmptySeq DEF Has
      <3>2. QED  BY <2>1, <3>1 DEF Echo, Echoing
    <2>5. QED  BY <1>1, <2>2, <2>3, <2>4 DEF Echoing, Running
  <1>5. QED  BY <1>2, <1>3, <1>4 DEF Echoing

LEMMA AtStartInit == Init => AtStart
  BY DEF Init, Start, AtStart

LEMMA AtStartNext == SInv /\ AtStart /\ [Next]_vars => AtStart'
  <1> SUFFICES ASSUME SInv, AtStart, [Next]_vars  PROVE AtStart'
    OBVIOUS
  <1>1. unix \in UnixState
    BY DEF SInv, TypeOK
  <1>2. CASE unix' = unix
    BY <1>2 DEF AtStart
  <1>3. CASE UnixStep
    BY <1>1, <1>3 DEF AtStart, UnixStep, PrintString, DrainGarbage, PutProgInfo, DrainRepeats,
       PutCode, NotGetCode, AwaitSuccess, Echo, Timeout, Fail, UnixState, Booting
  <1>4. CASE Again
    BY <1>4 DEF AtStart, Again, Start
  <1>5. CASE Fault
    BY <1>1, <1>5 DEF AtStart, Fault, LineFault, PowerCycle, Kill, Fail, UnixState, Booting
  <1>6. PiStep => unix' = unix
    BY WhichPi DEF PiSide
  <1>7. QED  BY <1>2, <1>3, <1>4, <1>5, <1>6 DEF Next, vars

LEMMA LockstepInit == Init => Lockstep
  <1> SUFFICES ASSUME Init  PROVE Lockstep
    OBVIOUS
  <1>1. unix.pc = "drain" /\ pi.pc = "start" /\ toPi = << >> /\ Stale(toUnix)
        /\ (calm => faults = 0)
    <2>1. pi.pc = "start" /\ toPi = << >> /\ (calm => faults = 0)
      BY DEF Init, PiStart
    <2>2. unix.pc = "drain"
      BY DEF Init, Start
    <2>3. Stale(toUnix)
      BY LineAssumption DEF Init
    <2>4. QED  BY <2>1, <2>2, <2>3
  <1>2. QED  BY <1>1 DEF Lockstep, Idle, Starting, Left

LEMMA LockstepNext == SInv /\ AtStart /\ Lockstep /\ [Next]_vars => Lockstep'
  <1> SUFFICES ASSUME SInv, AtStart, Lockstep, [Next]_vars, calm'  PROVE Lockstep'
    BY DEF Lockstep
  <1>1. CASE UNCHANGED vars
    BY <1>1 DEF vars, Lockstep, Idle, HeaderSent, Refused, CodeWanted, CodeSent, Succeeded,
       Echoing, Starting, Accepted, Returned, Running, Left
  <1>2. CASE Next
    <2>1. calm
      <3>1. UnixStep \/ Again \/ Fault => calm' = calm
        BY DEF UnixStep, Again, Fault, PrintString, DrainGarbage, PutProgInfo, DrainRepeats,
           PutCode, NotGetCode, AwaitSuccess, Echo, Timeout, UnixSide
      <3>2. PiStep => calm' = calm
        BY WhichPi DEF PiSide
      <3>3. QED  BY <1>2, <3>1, <3>2 DEF Next
    <2>2. /\ faults = 0
          /\ \/ Idle \/ HeaderSent \/ Refused \/ CodeWanted \/ CodeSent \/ Succeeded
             \/ Echoing
      BY <2>1 DEF Lockstep
    <2>3. ~Fault
      BY <2>2 DEF Fault
    <2>4. CASE Idle
      BY <1>2, <2>2, <2>3, <2>4, IdleStep DEF Next, Lockstep
    <2>5. CASE ~Idle
      <3>1. unix.pc # "failed"
        BY <2>2, <2>5 DEF HeaderSent, Refused, CodeWanted, CodeSent, Succeeded, Echoing
      <3>2. PiStep \/ UnixStep
        BY <1>2, <2>3, <3>1 DEF Next, Again
      <3>3. QED  BY <2>2, <2>5, <3>2, HeaderLaptop, HeaderPi, RefusedStep, WantedStep, SentStep,
                    SucceededStep, EchoingStep DEF Lockstep
    <2>6. QED  BY <2>4, <2>5
  <1>3. QED  BY <1>1, <1>2

\* Without faults nothing is on its way to the Pi while it is busy with a message
\* (get-code.h's rule for printing), for every word length and set of programs.
THEOREM QuietTheorem == Spec => []QuietWhenBusy
  <1>1. Init => SInv /\ AtStart /\ Lockstep
    BY InitSafe, AtStartInit, LockstepInit
  <1>2. SInv /\ AtStart /\ Lockstep /\ [Next]_vars => (SInv /\ AtStart /\ Lockstep)'
    BY StepSafe, AtStartNext, LockstepNext
  <1>3. Lockstep => QuietWhenBusy
    BY DEF Lockstep, QuietWhenBusy, Idle, HeaderSent, Refused, CodeWanted, CodeSent, Succeeded,
           Echoing, Starting, Returned, Running
  <1>4. QED  BY <1>1, <1>2, <1>3, PTL DEF Spec

\* When the laptop says "bootloader: Done." the Pi has received and checked a
\* complete program the laptop was started with.  Without faults it is this run's,
\* and the Pi has branched to it at ARMBASE, or is about to and the laptop has
\* echoed nothing (get-code.h, main.c, put-code.c), for any number of starts and
\* faults.
THEOREM DoneTrue == Spec => []DoneMeansBooted
  <1>1. Init => SInv /\ AtStart /\ Lockstep
    BY InitSafe, AtStartInit, LockstepInit
  <1>2. SInv /\ AtStart /\ Lockstep /\ [Next]_vars => (SInv /\ AtStart /\ Lockstep)'
    BY StepSafe, AtStartNext, LockstepNext
  <1>3. SInv /\ Lockstep => DoneMeansBooted
    <2> SUFFICES ASSUME SInv, Lockstep, unix.pc \in {"echo", "ended"}
                 PROVE  /\ verified \in (IF calm THEN {unix.prog} ELSE tried)
                        /\ calm /\ booted # unix.prog =>
                             /\ pi.pc = "return" /\ pi.addr = "armbase"
                             /\ unix.pc = "echo" /\ unix.pos = 0
      BY DEF DoneMeansBooted
    <2>1. verified \in tried
      BY DEF SInv, Safe
    <2>2. calm => Echoing
      BY DEF Lockstep, Idle, HeaderSent, Refused, CodeWanted, CodeSent, Succeeded
    <2>3. QED  BY <2>1, <2>2 DEF Echoing, Returned, Running
  <1>4. QED  BY <1>1, <1>2, <1>3, PTL DEF Spec

=============================================================================
