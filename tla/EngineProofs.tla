---------------------------- MODULE EngineProofs ----------------------------
(***************************************************************************)
(* Proofs about the engine package: the line splitter and the bounded      *)
(* buffer of TurnStream, for every cap, every input and every way to cut   *)
(* it; and the child process of Engine.                                    *)
(***************************************************************************)
EXTENDS Engine, TurnStream, FiniteSetTheorems, SequenceTheorems, TLAPS

\* What is left of the chunk is the end of the input.
Rest ==
    /\ Len(p) <= Len(input)
    /\ \A i \in 1..Len(p) : p[i] = input[Consumed + i]

\* The bounded buffer holds the head of the input, and all it can of it.
Headed ==
    /\ Len(kept) <= Len(input)
    /\ \A i \in 1..Len(kept) : kept[i] = input[i]
    /\ truncated <=> Len(kept) < Len(input)
    /\ truncated => Len(kept) = StderrCap

StreamInv == StreamTypeOK /\ Rest /\ Headed /\ LinesAreWhole /\ PartialIsTail

\* The caps are numbers.
LEMMA Caps == LineCap \in Nat /\ StderrCap \in Nat
  BY StreamAssumption

\* What is consumed is a number of bytes of the input.
LEMMA ConsumedType ==
    ASSUME StreamTypeOK, Rest
    PROVE  Len(p) \in Nat /\ Len(input) \in Nat /\ Consumed \in 0..Len(input)
  BY DEF StreamTypeOK, Rest, Consumed

\* A slice is what its bytes are.
LEMMA SameSlice ==
    ASSUME NEW s \in Seq(Byte), NEW t \in Seq(Byte),
           NEW m \in Nat \ {0}, NEW n \in Nat, n <= Len(s), n <= Len(t),
           \A i \in m..n : s[i] = t[i]
    PROVE  SubSeq(s, m, n) = SubSeq(t, m, n)
  <1>1. \A i \in m..n : s[i] \in Byte /\ t[i] \in Byte
    BY ElementOfSeq
  <1>2. /\ SubSeq(s, m, n) \in Seq(Byte)
        /\ Len(SubSeq(s, m, n)) = IF m <= n THEN n - m + 1 ELSE 0
        /\ \A i \in 1 .. n - m + 1 : SubSeq(s, m, n)[i] = s[m + i - 1]
    BY <1>1, SubSeqProperties
  <1>3. /\ SubSeq(t, m, n) \in Seq(Byte)
        /\ Len(SubSeq(t, m, n)) = IF m <= n THEN n - m + 1 ELSE 0
        /\ \A i \in 1 .. n - m + 1 : SubSeq(t, m, n)[i] = t[m + i - 1]
    BY <1>1, SubSeqProperties
  <1>4. ASSUME NEW i \in 1..Len(SubSeq(s, m, n))
        PROVE  SubSeq(s, m, n)[i] = SubSeq(t, m, n)[i]
    <2>1. i \in 1 .. n - m + 1 /\ m + i - 1 \in m..n
      BY <1>2
    <2> QED BY <1>2, <1>3, <2>1
  <1> QED BY <1>2, <1>3, <1>4, SeqEqual

\* A slice of the input, and its length.
LEMMA SliceOfInput ==
    ASSUME StreamTypeOK, NEW m \in 0..Len(input), NEW n \in m..Len(input)
    PROVE  SubSeq(input, m + 1, n) \in Seq(Byte) /\ Len(SubSeq(input, m + 1, n)) = n - m
  <1>1. input \in Seq(Byte) /\ Len(input) \in Nat
    BY LenProperties DEF StreamTypeOK
  <1>2. \A i \in m + 1 .. n : input[i] \in Byte
    BY <1>1, ElementOfSeq
  <1>3. m + 1 \in Int /\ n \in Int
    BY <1>1
  <1>4. /\ SubSeq(input, m + 1, n) \in Seq(Byte)
        /\ Len(SubSeq(input, m + 1, n)) = IF m + 1 <= n THEN n - (m + 1) + 1 ELSE 0
    BY <1>2, <1>3, SubSeqProperties
  <1> QED BY <1>1, <1>4

\* What is left of a chunk is a slice too.
LEMMA RestIsSlice ==
    ASSUME StreamTypeOK, Rest
    PROVE  p = SubSeq(input, Consumed + 1, Len(input))
  <1>1. /\ Len(p) \in Nat /\ Len(input) \in Nat /\ Consumed \in 0..Len(input)
        /\ Len(input) - Consumed = Len(p)
    BY ConsumedType DEF Consumed
  <1>2. input \in Seq(Byte) /\ p \in Seq(Byte)
    BY DEF StreamTypeOK
  <1>3. \A i \in Consumed + 1 .. Len(input) : input[i] \in Byte
    BY <1>1, <1>2, ElementOfSeq
  <1>4. \A i \in 1 .. Len(input) - (Consumed + 1) + 1 :
          SubSeq(input, Consumed + 1, Len(input))[i] = input[Consumed + 1 + i - 1]
    BY <1>1, <1>3, SubSeqProperties
  <1>5. ASSUME NEW i \in 1..Len(p)
        PROVE  p[i] = SubSeq(input, Consumed + 1, Len(input))[i]
    <2>1. i \in 1 .. Len(input) - (Consumed + 1) + 1 /\ Consumed + 1 + i - 1 = Consumed + i
      BY <1>1
    <2> QED BY <1>4, <2>1 DEF Rest
  <1>6. /\ SubSeq(input, Consumed + 1, Len(input)) \in Seq(Byte)
        /\ Len(SubSeq(input, Consumed + 1, Len(input))) = Len(p)
    BY <1>1, SliceOfInput
  <1> QED BY <1>2, <1>5, <1>6, SeqEqual

\* A head of the rest of the chunk is a slice of the input.
LEMMA HeadOfRest ==
    ASSUME StreamTypeOK, Rest, NEW m \in 0..Len(p)
    PROVE  SubSeq(p, 1, m) = SubSeq(input, Consumed + 1, Consumed + m)
  <1>1. /\ Len(p) \in Nat /\ Len(input) \in Nat /\ Consumed \in 0..Len(input)
        /\ Len(input) = Consumed + Len(p)
    BY ConsumedType DEF Consumed
  <1>2. \A i \in 1..m : p[i] \in Byte
    BY <1>1, ElementOfSeq DEF StreamTypeOK
  <1>3. \A i \in Consumed + 1 .. Consumed + m : input[i] \in Byte
    BY <1>1, ElementOfSeq DEF StreamTypeOK
  <1>4. /\ SubSeq(p, 1, m) \in Seq(Byte)
        /\ Len(SubSeq(p, 1, m)) = IF 1 <= m THEN m - 1 + 1 ELSE 0
        /\ \A i \in 1 .. m - 1 + 1 : SubSeq(p, 1, m)[i] = p[1 + i - 1]
    BY <1>1, <1>2, SubSeqProperties
  <1> DEFINE t == SubSeq(input, Consumed + 1, Consumed + m)
  <1>5. /\ t \in Seq(Byte)
        /\ Len(t) = IF Consumed + 1 <= Consumed + m THEN Consumed + m - (Consumed + 1) + 1 ELSE 0
        /\ \A i \in 1 .. Consumed + m - (Consumed + 1) + 1 : t[i] = input[Consumed + 1 + i - 1]
    BY <1>1, <1>3, SubSeqProperties
  <1> HIDE DEF t
  <1>6. ASSUME NEW i \in 1..m PROVE SubSeq(p, 1, m)[i] = t[i]
    <2>1. /\ i \in 1 .. m - 1 + 1 /\ 1 + i - 1 = i
          /\ i \in 1 .. Consumed + m - (Consumed + 1) + 1 /\ Consumed + 1 + i - 1 = Consumed + i
          /\ i \in 1..Len(p)
      BY <1>1
    <2>2. SubSeq(p, 1, m)[i] = p[i] /\ t[i] = input[Consumed + i]
      BY <1>4, <1>5, <2>1
    <2> QED BY <2>1, <2>2 DEF Rest
  <1>7. Len(SubSeq(p, 1, m)) = m /\ Len(t) = m
    BY <1>1, <1>4, <1>5
  <1>8. SubSeq(p, 1, m) = t
    BY <1>4, <1>5, <1>6, <1>7, SeqEqual
  <1> QED BY <1>8 DEF t

\* Two slices that meet are one.
LEMMA JoinSlices ==
    ASSUME StreamTypeOK, NEW a \in 0..Len(input), NEW m \in a..Len(input), NEW n \in m..Len(input)
    PROVE  SubSeq(input, a + 1, m) \o SubSeq(input, m + 1, n) = SubSeq(input, a + 1, n)
  <1> DEFINE s == SubSeq(input, a + 1, m)
             t == SubSeq(input, m + 1, n)
             u == SubSeq(input, a + 1, n)
  <1>1. input \in Seq(Byte) /\ Len(input) \in Nat /\ \A i \in 1..Len(input) : input[i] \in Byte
    BY LenProperties, ElementOfSeq DEF StreamTypeOK
  <1>2. s \in Seq(Byte) /\ Len(s) = m - a
    BY SliceOfInput
  <1>3. t \in Seq(Byte) /\ Len(t) = n - m
    BY <1>1, SliceOfInput
  <1>4. u \in Seq(Byte) /\ Len(u) = n - a
    BY <1>1, SliceOfInput
  <1>5. \A i \in 1 .. m - a : s[i] = input[a + i]
    <2>1. \A i \in 1 .. m - (a + 1) + 1 : s[i] = input[a + 1 + i - 1]
      BY <1>1, SubSeqProperties
    <2> QED BY <1>1, <2>1
  <1>6. \A i \in 1 .. n - m : t[i] = input[m + i]
    <2>1. \A i \in 1 .. n - (m + 1) + 1 : t[i] = input[m + 1 + i - 1]
      BY <1>1, SubSeqProperties
    <2> QED BY <1>1, <2>1
  <1>7. \A i \in 1 .. n - a : u[i] = input[a + i]
    <2>1. \A i \in 1 .. n - (a + 1) + 1 : u[i] = input[a + 1 + i - 1]
      BY <1>1, SubSeqProperties
    <2> QED BY <1>1, <2>1
  <1> HIDE DEF s, t, u
  <1>8. /\ s \o t \in Seq(Byte) /\ Len(s \o t) = Len(s) + Len(t)
        /\ \A i \in 1..Len(s) + Len(t) : (s \o t)[i] = IF i <= Len(s) THEN s[i] ELSE t[i - Len(s)]
    BY <1>2, <1>3, ConcatProperties
  <1>9. Len(s \o t) = Len(u)
    BY <1>1, <1>2, <1>3, <1>4, <1>8
  <1>10. ASSUME NEW i \in 1..Len(s \o t) PROVE (s \o t)[i] = u[i]
    <2>1. i \in 1 .. n - a /\ i \in 1..Len(s) + Len(t)
      BY <1>1, <1>4, <1>8, <1>9
    <2>2. CASE i <= Len(s)
      BY <1>1, <1>2, <1>5, <1>7, <1>8, <2>1, <2>2
    <2>3. CASE ~(i <= Len(s))
      <3>1. i - Len(s) \in 1 .. n - m /\ m + (i - Len(s)) = a + i
        BY <1>1, <1>2, <2>1, <2>3
      <3> QED BY <1>6, <1>7, <1>8, <2>1, <2>3, <3>1
    <2> QED BY <2>2, <2>3
  <1>11. s \o t = u
    BY <1>4, <1>8, <1>9, <1>10, SeqEqual
  <1> QED BY <1>11 DEF s, t, u

-----------------------------------------------------------------------------
(* The lines of the input. *)

\* A line has one beginning.
LEMMA OneBeginning ==
    ASSUME NEW b \in Nat, NEW a \in 0..b - 1, NEW c \in 0..b - 1,
           Unbroken(a, b), Unbroken(c, b)
    PROVE  a = c
  BY DEF Unbroken

\* There are finitely many ends, and each has its place among the lines.
LEMMA EndsAreRanked ==
    ASSUME StreamTypeOK, Rest
    PROVE  /\ IsFiniteSet(FittingEnds) /\ Cardinality(FittingEnds) \in Nat
           /\ \A b \in FittingEnds : Rank(b) \in 1..Cardinality(FittingEnds)
  <1>1. Consumed \in Nat
    BY ConsumedType
  <1>2. IsFiniteSet(1..Consumed)
    BY <1>1, FS_Interval
  <1>3. FittingEnds \in SUBSET (1..Consumed)
    BY DEF FittingEnds
  <1>4. IsFiniteSet(FittingEnds)
    BY <1>2, <1>3, FS_Subset
  <1>5. Cardinality(FittingEnds) \in Nat
    BY <1>4, FS_CardinalityType
  <1>6. ASSUME NEW b \in FittingEnds
        PROVE  Rank(b) \in 1..Cardinality(FittingEnds)
    <2> DEFINE S == {c \in FittingEnds : c <= b}
    <2>1. S \in SUBSET FittingEnds /\ b \in S
      BY <1>1, <1>3
    <2>2. IsFiniteSet(S) /\ Cardinality(S) <= Cardinality(FittingEnds)
      BY <1>4, <2>1, FS_Subset
    <2>3. Cardinality(S) \in Nat /\ Cardinality(S) # 0
      BY <2>1, <2>2, FS_CardinalityType, FS_EmptySet
    <2>4. Rank(b) = Cardinality(S)
      BY DEF Rank
    <2> HIDE DEF S
    <2> QED BY <1>5, <2>2, <2>3, <2>4
  <1> QED BY <1>4, <1>5, <1>6

\* Reading on without meeting a newline brings no new line.
LEMMA NoNewLine ==
    ASSUME StreamTypeOK, Rest, StreamTypeOK', Rest', LinesAreWhole,
           Consumed <= Consumed',
           \A i \in 1..Consumed : input'[i] = input[i],
           \A i \in Consumed + 1 .. Consumed' : input'[i] # NL,
           lines' = lines
    PROVE  LinesAreWhole'
  <1>1. /\ Consumed \in Nat /\ Consumed' \in Nat
        /\ Consumed <= Len(input) /\ Consumed' <= Len(input')
    BY ConsumedType DEF StreamTypeOK, Rest, Consumed
  <1>2. ASSUME NEW b \in 1..Consumed, NEW a \in 0..b - 1
        PROVE  Unbroken(a, b)' <=> Unbroken(a, b)
    BY <1>1 DEF Unbroken
  <1>3. FittingEnds' = FittingEnds
    <2>1. ASSUME NEW b \in FittingEnds PROVE b \in FittingEnds'
      <3>1. b \in 1..Consumed /\ input[b] = NL
        BY DEF FittingEnds
      <3>2. b \in 1..Consumed' /\ input'[b] = NL
        BY <1>1, <3>1
      <3>3. PICK a \in 0..b - 1 : Unbroken(a, b) /\ b - a - 1 <= LineCap
        BY DEF FittingEnds
      <3>4. Unbroken(a, b)'
        BY <1>2, <3>1, <3>3
      <3> QED BY <3>2, <3>3, <3>4 DEF FittingEnds
    <2>2. ASSUME NEW b \in FittingEnds' PROVE b \in FittingEnds
      <3>1. b \in 1..Consumed' /\ input'[b] = NL
        BY DEF FittingEnds
      <3>2. b \in 1..Consumed
        BY <1>1, <3>1
      <3> QED BY <1>2, <3>2 DEF FittingEnds
    <2> QED BY <2>1, <2>2
  <1>4. ASSUME NEW b \in FittingEnds', NEW a \in 0..b - 1, Unbroken(a, b)'
        PROVE  lines'[Rank(b)'] = SubSeq(input, a + 1, b - 1)'
    <2>1. b \in FittingEnds /\ b \in 1..Consumed
      BY <1>3 DEF FittingEnds
    <2>2. Rank(b)' = Rank(b)
      BY <1>3 DEF Rank
    <2>3. lines[Rank(b)] = SubSeq(input, a + 1, b - 1)
      BY <1>2, <1>4, <2>1 DEF LinesAreWhole
    <2>4. SubSeq(input', a + 1, b - 1) = SubSeq(input, a + 1, b - 1)
      <3>1. input \in Seq(Byte) /\ input' \in Seq(Byte)
        BY DEF StreamTypeOK
      <3>2. a + 1 \in Nat \ {0} /\ b - 1 \in Nat /\ b - 1 <= Consumed /\ Consumed <= Len(input')
        BY <1>1, <2>1
      <3>3. \A i \in a + 1 .. b - 1 : input'[i] = input[i]
        BY <1>1, <3>2
      <3>4. b - 1 <= Len(input) /\ b - 1 <= Len(input')
        BY <1>1, <3>1, <3>2
      <3> QED BY <3>1, <3>2, <3>3, <3>4, SameSlice
    <2> QED BY <2>2, <2>3, <2>4
  <1> QED BY <1>3, <1>4 DEF LinesAreWhole

-----------------------------------------------------------------------------
(* The steps. *)

\* A chunk is a sequence of bytes, and the input goes on with it.
LEMMA ChunkFacts ==
    ASSUME StreamTypeOK, NEW n \in Nat, NEW chunk \in [1..n -> Byte], Write(chunk)
    PROVE  /\ chunk \in Seq(Byte) /\ Len(chunk) = n
           /\ input' \in Seq(Byte) /\ Len(input') = Len(input) + n
           /\ \A i \in 1..Len(input) : input'[i] = input[i]
           /\ \A i \in 1..n : input'[Len(input) + i] = chunk[i]
  <1>1. chunk \in Seq(Byte) /\ Len(chunk) = n
    BY IsASeq, LenProperties
  <1>2. input \in Seq(Byte) /\ input' = input \o chunk
    BY DEF StreamTypeOK, Write
  <1>3. /\ input' \in Seq(Byte) /\ Len(input') = Len(input) + Len(chunk)
        /\ \A i \in 1..Len(input) + Len(chunk) :
             input'[i] = IF i <= Len(input) THEN input[i] ELSE chunk[i - Len(input)]
    BY <1>1, <1>2, ConcatProperties
  <1>4. Len(input) \in Nat
    BY <1>2, LenProperties
  <1>5. ASSUME NEW i \in 1..n PROVE input'[Len(input) + i] = chunk[i]
    <2>1. Len(input) + i \in 1..Len(input) + Len(chunk) /\ ~(Len(input) + i <= Len(input))
      BY <1>1, <1>4
    <2>2. (Len(input) + i) - Len(input) = i
      BY <1>4
    <2> QED BY <1>3, <2>1, <2>2
  <1> QED BY <1>1, <1>3, <1>4, <1>5

\* The bounded buffer keeps the head of what it is given, and stays bounded.
LEMMA BoundedWriteFacts ==
    ASSUME StreamTypeOK, Headed, NEW n \in Nat, NEW chunk \in [1..n -> Byte], Write(chunk)
    PROVE  /\ kept' \in Seq(Byte) /\ Len(kept') <= StderrCap /\ truncated' \in BOOLEAN
           /\ Headed'
  <1> DEFINE room == StderrCap - Len(kept)
             fits == IF Len(chunk) <= room THEN Len(chunk) ELSE room
             head == SubSeq(chunk, 1, fits)
  <1>1. /\ chunk \in Seq(Byte) /\ Len(chunk) = n
        /\ input' \in Seq(Byte) /\ Len(input') = Len(input) + n
        /\ \A i \in 1..Len(input) : input'[i] = input[i]
        /\ \A i \in 1..n : input'[Len(input) + i] = chunk[i]
    BY ChunkFacts
  <1>2. kept \in Seq(Byte) /\ Len(kept) \in Nat /\ Len(input) \in Nat /\ StderrCap \in Nat
    BY Caps, LenProperties DEF StreamTypeOK
  <1>3. room \in Nat /\ fits \in 0..n /\ fits <= room /\ (fits < n => fits = room)
    BY <1>1, <1>2 DEF StreamTypeOK
  <1>4. kept' = kept \o head /\ truncated' = (truncated \/ Len(chunk) > room)
    BY DEF Write, BoundedWrite
  <1> HIDE DEF fits
  <1>5. \A i \in 1..fits : chunk[i] \in Byte
    BY <1>1, <1>3
  <1>6. /\ head \in Seq(Byte) /\ Len(head) = fits
        /\ \A i \in 1..fits : head[i] = chunk[i]
    <2>1. /\ head \in Seq(Byte) /\ Len(head) = IF 1 <= fits THEN fits - 1 + 1 ELSE 0
          /\ \A i \in 1 .. fits - 1 + 1 : head[i] = chunk[1 + i - 1]
      BY <1>3, <1>5, SubSeqProperties
    <2> QED BY <1>3, <2>1
  <1> HIDE DEF head
  <1>7. /\ kept' \in Seq(Byte) /\ Len(kept') = Len(kept) + fits
        /\ \A i \in 1..Len(kept) + fits :
             kept'[i] = IF i <= Len(kept) THEN kept[i] ELSE head[i - Len(kept)]
    <2>1. /\ kept' \in Seq(Byte) /\ Len(kept') = Len(kept) + Len(head)
          /\ \A i \in 1..Len(kept) + Len(head) :
               kept'[i] = IF i <= Len(kept) THEN kept[i] ELSE head[i - Len(kept)]
      BY <1>2, <1>4, <1>6, ConcatProperties
    <2> QED BY <1>6, <2>1
  <1>8. truncated' <=> truncated \/ n > room
    BY <1>1, <1>4 DEF StreamTypeOK
  <1>9. Len(kept') <= Len(input') /\ Len(kept') <= StderrCap
    BY <1>1, <1>2, <1>3, <1>7 DEF Headed
  <1>10. truncated' <=> Len(kept') < Len(input')
    BY <1>1, <1>2, <1>3, <1>7, <1>8 DEF Headed
  <1>11. truncated' => Len(kept') = StderrCap
    BY <1>1, <1>2, <1>3, <1>7, <1>8 DEF Headed
  <1>12. ASSUME NEW i \in 1..Len(kept') PROVE kept'[i] = input'[i]
    <2>1. CASE i <= Len(kept)
      BY <1>1, <1>2, <1>7, <2>1 DEF Headed
    <2>2. CASE i > Len(kept)
      <3>1. fits > 0 /\ ~truncated
        BY <1>2, <1>3, <1>7, <2>2 DEF Headed
      <3>2. Len(kept) = Len(input)
        BY <1>2, <3>1 DEF Headed
      <3>3. i - Len(kept) \in 1..fits /\ i - Len(kept) \in 1..n /\ Len(input) + (i - Len(kept)) = i
        BY <1>2, <1>3, <1>7, <2>2, <3>2
      <3>4. kept'[i] = chunk[i - Len(kept)]
        BY <1>2, <1>6, <1>7, <2>2, <3>3
      <3> QED BY <1>1, <3>3, <3>4
    <2> QED BY <1>2, <1>7, <2>1, <2>2
  <1> QED BY <1>4, <1>7, <1>9, <1>10, <1>11, <1>12 DEF Headed, StreamTypeOK

\* Writing a chunk reads none of it yet.
LEMMA WriteStream ==
    ASSUME StreamInv, NEW n \in Nat, NEW chunk \in [1..n -> Byte], Write(chunk)
    PROVE  StreamInv'
  <1> USE DEF StreamInv
  <1>1. /\ chunk \in Seq(Byte) /\ Len(chunk) = n
        /\ input' \in Seq(Byte) /\ Len(input') = Len(input) + n
        /\ \A i \in 1..Len(input) : input'[i] = input[i]
        /\ \A i \in 1..n : input'[Len(input) + i] = chunk[i]
    BY ChunkFacts
  <1>2. p' = chunk /\ p = <<>> /\ UNCHANGED <<buf, discarding, lines>>
    BY DEF Write
  <1>3. Len(input) \in Nat /\ Consumed = Len(input) /\ Consumed' = Consumed
    <2>1. Len(input) \in Nat /\ Len(p) = 0
      BY <1>2, LenProperties, EmptySeq DEF StreamTypeOK
    <2>2. Consumed = Len(input)
      BY <2>1 DEF Consumed
    <2>3. Consumed' = (Len(input) + n) - n
      BY <1>1, <1>2 DEF Consumed
    <2> QED BY <2>1, <2>2, <2>3
  <1>4. StreamTypeOK' /\ Headed'
    BY <1>1, <1>2, BoundedWriteFacts DEF StreamTypeOK
  <1>5. Rest'
    <2>1. Len(p') = n /\ Consumed' = Len(input)
      BY <1>1, <1>2, <1>3
    <2> QED BY <1>1, <1>2, <1>3, <2>1 DEF Rest
  <1>6. LinesAreWhole'
    BY <1>1, <1>2, <1>3, <1>4, <1>5, NoNewLine
  <1>7. PartialIsTail'
    <2>s. PICK a \in 0..Consumed : PartialFrom(a)
      BY DEF PartialIsTail
    <2>1. /\ Unbroken(a, Consumed + 1)
          /\ discarding <=> Consumed - a > LineCap
          /\ buf = IF discarding THEN <<>> ELSE SubSeq(input, a + 1, Consumed)
      BY <2>s DEF PartialFrom
    <2>2. Unbroken(a, Consumed + 1)'
      BY <1>1, <1>3, <2>1 DEF Unbroken
    <2>3. SubSeq(input, a + 1, Consumed) = SubSeq(input', a + 1, Consumed)
      <3>1. a + 1 \in Nat \ {0} /\ Consumed \in Nat
        BY <1>3
      <3>2. Consumed <= Len(input) /\ Consumed <= Len(input')
        BY <1>1, <1>3
      <3>3. \A i \in a + 1 .. Consumed : input[i] = input'[i]
        BY <1>1, <1>3
      <3>4. input \in Seq(Byte)
        BY DEF StreamTypeOK
      <3> QED BY <1>1, <3>1, <3>2, <3>3, <3>4, SameSlice
    <2>4. PartialFrom(a)'
      BY <1>2, <1>3, <2>1, <2>2, <2>3 DEF PartialFrom
    <2> QED BY <1>3, <2>4 DEF PartialIsTail
  <1> QED BY <1>4, <1>5, <1>6, <1>7


\* The rest of a chunk without a newline joins the line under way, which is
\* given up when it has become too long.
LEMMA KeepPartialStream == StreamInv /\ KeepPartial => StreamInv'
  <1> SUFFICES ASSUME StreamInv, KeepPartial PROVE StreamInv'
    OBVIOUS
  <1> USE DEF StreamInv
  <1>1. /\ p # <<>> /\ p' = <<>> /\ \A i \in 1..Len(p) : p[i] # NL
        /\ UNCHANGED <<lines, kept, truncated, input>>
    BY DEF KeepPartial
  <1>2. /\ Len(p) \in Nat /\ Len(input) \in Nat /\ Consumed \in 0..Len(input)
        /\ Len(input) = Consumed + Len(p)
    BY ConsumedType DEF Consumed
  <1>3. Len(p') = 0 /\ Len(input') = Len(input) /\ Consumed' = Len(input)
    BY <1>1, <1>2, EmptySeq DEF Consumed
  <1>4. \A i \in Consumed + 1 .. Len(input) : input[i] # NL
    <2> SUFFICES ASSUME NEW i \in Consumed + 1 .. Len(input) PROVE input[i] # NL
      OBVIOUS
    <2>1. i - Consumed \in 1..Len(p) /\ Consumed + (i - Consumed) = i
      BY <1>2
    <2> QED BY <1>1, <2>1 DEF Rest
  <1>s. PICK a \in 0..Consumed : PartialFrom(a)
    BY DEF PartialIsTail
  <1>5. /\ Unbroken(a, Consumed + 1)
        /\ discarding <=> Consumed - a > LineCap
        /\ buf = IF discarding THEN <<>> ELSE SubSeq(input, a + 1, Consumed)
    BY <1>s DEF PartialFrom
  <1>6. a \in 0..Len(input) /\ Unbroken(a, Len(input) + 1)
    BY <1>2, <1>4, <1>5 DEF Unbroken
  <1>7. ~discarding => Len(buf) = Consumed - a
    BY <1>2, <1>5, SliceOfInput
  <1>8. ~discarding => buf \o p = SubSeq(input, a + 1, Len(input))
    <2> SUFFICES ASSUME ~discarding PROVE buf \o p = SubSeq(input, a + 1, Len(input))
      OBVIOUS
    <2>1. p = SubSeq(input, Consumed + 1, Len(input))
      BY RestIsSlice
    <2>2. /\ a \in 0..Len(input) /\ Consumed \in a..Len(input)
          /\ Len(input) \in Consumed..Len(input)
      BY <1>2
    <2>3. SubSeq(input, a + 1, Consumed) \o SubSeq(input, Consumed + 1, Len(input))
            = SubSeq(input, a + 1, Len(input))
      BY <2>2, JoinSlices
    <2> QED BY <1>5, <2>1, <2>3
  <1>9. /\ discarding' <=> Len(input) - a > LineCap
        /\ buf' = IF discarding' THEN <<>> ELSE SubSeq(input, a + 1, Len(input))
    <2>1. CASE discarding
      BY <1>2, <1>5, <2>1, Caps DEF KeepPartial
    <2>2. CASE ~discarding /\ Len(buf) + Len(p) > LineCap
      BY <1>2, <1>7, <2>2, Caps DEF KeepPartial
    <2>3. CASE ~discarding /\ Len(buf) + Len(p) <= LineCap
      <3>1. ~(Len(buf) + Len(p) > LineCap)
        BY <1>2, <1>7, <2>3, Caps
      <3>2. ~discarding' /\ buf' = buf \o p
        BY <2>3, <3>1 DEF KeepPartial
      <3>3. ~(Len(input) - a > LineCap)
        BY <1>2, <1>7, <2>3, Caps
      <3> QED BY <1>8, <2>3, <3>2, <3>3
    <2>4. Len(buf) + Len(p) > LineCap \/ Len(buf) + Len(p) <= LineCap
      BY <1>2, LenProperties, Caps DEF StreamTypeOK
    <2> QED BY <2>1, <2>2, <2>3, <2>4
  <1>10. PartialIsTail'
    <2>1. PartialFrom(a)'
      BY <1>1, <1>3, <1>6, <1>9 DEF PartialFrom, Unbroken
    <2> QED BY <1>3, <1>6, <2>1 DEF PartialIsTail
  <1>11. StreamTypeOK'
    <2>1. buf' \in Seq(Byte) /\ Len(buf') <= LineCap /\ discarding' \in BOOLEAN
      <3>1. CASE discarding'
        BY <1>9, <3>1, Caps, EmptySeq DEF KeepPartial, StreamTypeOK
      <3>2. CASE ~discarding'
        BY <1>2, <1>6, <1>9, <3>2, Caps, SliceOfInput, SMTT(30) DEF KeepPartial, StreamTypeOK
      <3> QED BY <3>1, <3>2
    <2> QED BY <1>1, <2>1 DEF StreamTypeOK
  <1>12. Rest' /\ Headed'
    BY <1>1, <1>2, <1>3 DEF Rest, Headed
  <1>13. LinesAreWhole'
    BY <1>1, <1>2, <1>3, <1>4, <1>11, <1>12, NoNewLine
  <1> QED BY <1>10, <1>11, <1>12, <1>13


\* The line between a and b is parsed, if it fits.
LineAdded(a, b) ==
    IF b - a - 1 <= LineCap
    THEN lines' = Append(lines, SubSeq(input, a + 1, b - 1))
    ELSE lines' = lines

\* The end of a line that was begun after byte a: it is one more line that
\* fits, or none.
LEMMA LineEnds ==
    ASSUME StreamTypeOK, Rest, StreamTypeOK', Rest', LinesAreWhole, UNCHANGED input,
           NEW b \in Nat, Consumed' = b, Consumed < b, input[b] = NL,
           \A i \in Consumed + 1 .. b - 1 : input[i] # NL,
           NEW a \in 0..Consumed, Unbroken(a, Consumed + 1),
           LineAdded(a, b)
    PROVE  LinesAreWhole'
  <1>1. /\ Consumed \in Nat /\ b \in Nat /\ Len(input) \in Nat /\ LineCap \in Nat
        /\ Consumed < b /\ b <= Len(input)
    BY ConsumedType, Caps, SMTT(30) DEF StreamTypeOK, Rest, Consumed
  <1>2. \A c, d \in Nat : Unbroken(c, d)' <=> Unbroken(c, d)
    BY DEF Unbroken
  <1>3. Unbroken(a, b) /\ a \in 0..b - 1
    <2>1. a \in 0..b - 1
      <3>1. a \in Nat /\ a <= Consumed
        BY <1>1
      <3>2. a <= b - 1
        BY <1>1, <3>1
      <3> QED BY <1>1, <3>1, <3>2
    <2>2. ASSUME NEW k \in a + 1 .. b - 1 PROVE input[k] # NL
      <3>1. k \in a + 1 .. (Consumed + 1) - 1 \/ k \in Consumed + 1 .. b - 1
        BY <1>1
      <3> QED BY <3>1 DEF Unbroken
    <2>3. a = 0 \/ input[a] = NL
      BY DEF Unbroken
    <2> QED BY <2>1, <2>2, <2>3 DEF Unbroken
  <1>4. \A c \in FittingEnds' : c \in 1..b /\ (c <= Consumed \/ c = b)
    <2> SUFFICES ASSUME NEW c \in FittingEnds' PROVE c \in 1..b /\ (c <= Consumed \/ c = b)
      OBVIOUS
    <2>1. c \in 1..b /\ input[c] = NL
      BY DEF FittingEnds
    <2>2. c \notin Consumed + 1 .. b - 1
      BY <2>1
    <2> QED BY <1>1, <2>1, <2>2
  <1>5. ASSUME NEW c \in Nat, c <= Consumed PROVE c \in FittingEnds' <=> c \in FittingEnds
    <2>1. c \in 1..b <=> c \in 1..Consumed
      BY <1>1, <1>5
    <2>2. \A d \in 0..c - 1 : Unbroken(d, c)' <=> Unbroken(d, c)
      BY <1>2
    <2> QED BY <2>1, <2>2 DEF FittingEnds
  <1>6. b \in FittingEnds' <=> b - a - 1 <= LineCap
    <2>1. b \in 1..b /\ input'[b] = NL
      BY <1>1
    <2>2. ASSUME NEW d \in 0..b - 1, Unbroken(d, b) PROVE d = a
      BY <1>1, <1>3, <2>2, OneBeginning
    <2>3. \A d \in 0..b - 1 : Unbroken(d, b)' <=> Unbroken(d, b)
      BY <1>1, <1>2
    <2> QED BY <1>3, <2>1, <2>2, <2>3 DEF FittingEnds
  <1>7. b \notin FittingEnds /\ FittingEnds \subseteq Nat /\ \A c \in FittingEnds : c <= Consumed
    BY <1>1 DEF FittingEnds
  <1>8. IsFiniteSet(FittingEnds) /\ Cardinality(FittingEnds) \in Nat
    BY EndsAreRanked
  <1>9. Len(lines) = Cardinality(FittingEnds) /\ lines \in Seq(Seq(Byte))
    BY DEF LinesAreWhole, StreamTypeOK
  <1> DEFINE line == SubSeq(input, a + 1, b - 1)
  <1>10. line \in Seq(Byte)
    <2>1. a \in 0..Len(input) /\ b - 1 \in a..Len(input)
      BY <1>1
    <2> QED BY <2>1, SliceOfInput
  <1>11. \A c \in FittingEnds : Rank(c)' = Rank(c)
    <2> SUFFICES ASSUME NEW c \in FittingEnds PROVE Rank(c)' = Rank(c)
      OBVIOUS
    <2>1. c \in Nat /\ c <= Consumed
      BY <1>7
    <2>2. {d \in FittingEnds' : d <= c} = {d \in FittingEnds : d <= c}
      <3>1. ASSUME NEW d \in FittingEnds', d <= c PROVE d \in FittingEnds
        <4>1. d \in Nat /\ d <= Consumed
          BY <1>1, <1>4, <2>1, <3>1
        <4> QED BY <1>5, <4>1
      <3>2. ASSUME NEW d \in FittingEnds PROVE d \in FittingEnds'
        BY <1>5, <1>7
      <3> QED BY <3>1, <3>2
    <2> QED BY <2>2 DEF Rank
  <1>12. /\ Cardinality(FittingEnds)' = Len(lines')
         /\ \A c \in FittingEnds : lines'[Rank(c)] = lines[Rank(c)]
         /\ b \in FittingEnds' => lines'[Rank(b)'] = line
    <2>1. CASE b - a - 1 <= LineCap
      <3>1. FittingEnds' = FittingEnds \cup {b}
        <4>1. ASSUME NEW d \in FittingEnds', d # b PROVE d \in FittingEnds
          <5>1. d \in Nat /\ d <= Consumed
            BY <1>4, <4>1
          <5> QED BY <1>5, <5>1
        <4>2. ASSUME NEW d \in FittingEnds PROVE d \in FittingEnds'
          BY <1>5, <1>7
        <4>3. b \in FittingEnds'
          BY <1>6, <2>1
        <4> QED BY <4>1, <4>2, <4>3
      <3>2. Cardinality(FittingEnds)' = Cardinality(FittingEnds) + 1
        BY <1>7, <1>8, <3>1, FS_AddElement
      <3>3. lines' = Append(lines, line)
        BY <2>1 DEF LineAdded
      <3> HIDE DEF line
      <3>4. /\ Len(lines') = Len(lines) + 1
            /\ \A i \in 1..Len(lines) : lines'[i] = lines[i]
            /\ lines'[Len(lines) + 1] = line
        BY <1>9, <1>10, <3>3, AppendProperties
      <3>5. Rank(b)' = Cardinality(FittingEnds)'
        <4>1. {d \in FittingEnds' : d <= b} = FittingEnds'
          BY <1>1, <1>4
        <4> QED BY <4>1 DEF Rank
      <3>6. \A c \in FittingEnds : Rank(c) \in 1..Len(lines)
        BY <1>9, EndsAreRanked
      <3> QED BY <1>9, <3>2, <3>4, <3>5, <3>6
    <2>2. CASE ~(b - a - 1 <= LineCap)
      <3>1. FittingEnds' = FittingEnds
        <4>1. b \notin FittingEnds'
          BY <1>6, <2>2
        <4>2. ASSUME NEW d \in FittingEnds' PROVE d \in FittingEnds
          <5>1. d \in Nat /\ d <= Consumed
            BY <1>4, <4>1
          <5> QED BY <1>5, <5>1
        <4>3. ASSUME NEW d \in FittingEnds PROVE d \in FittingEnds'
          BY <1>5, <1>7
        <4> QED BY <4>2, <4>3
      <3>2. lines' = lines
        BY <2>2 DEF LineAdded
      <3> QED BY <1>6, <1>9, <2>2, <3>1, <3>2
    <2> QED BY <2>1, <2>2
  <1>13. ASSUME NEW c \in FittingEnds', NEW d \in 0..c - 1, Unbroken(d, c)'
         PROVE  lines'[Rank(c)'] = SubSeq(input, d + 1, c - 1)'
    <2>1. CASE c = b
      <3>1. d = a
        <4>1. d \in 0..b - 1 /\ d \in Nat /\ b \in Nat
          BY <1>1, <2>1
        <4>2. Unbroken(d, b)
          BY <1>2, <1>13, <2>1, <4>1
        <4> QED BY <1>3, <4>1, <4>2, OneBeginning
      <3> QED BY <1>12, <2>1, <3>1
    <2>2. CASE c # b
      <3>1. c \in FittingEnds /\ c \in Nat /\ d \in Nat
        BY <1>4, <1>5, <2>2
      <3>2. Unbroken(d, c)
        BY <1>2, <1>13, <3>1
      <3>3. lines[Rank(c)] = SubSeq(input, d + 1, c - 1)
        BY <3>1, <3>2 DEF LinesAreWhole
      <3> QED BY <1>11, <1>12, <3>1, <3>3
    <2> QED BY <2>1, <2>2
  <1> QED BY <1>12, <1>13 DEF LinesAreWhole


\* A newline ends the line under way, and the next begins after it.
LEMMA EndLineStream ==
    ASSUME StreamInv, NEW nl \in 1..Len(p), EndLine(nl)
    PROVE  StreamInv'
  <1> USE DEF StreamInv
  <1>1. /\ p[nl] = NL /\ \A i \in 1..nl - 1 : p[i] # NL
        /\ p' = SubSeq(p, nl + 1, Len(p))
        /\ UNCHANGED <<kept, truncated, input>>
    BY DEF EndLine, FirstNewline
  <1>2. /\ Len(p) \in Nat /\ Len(input) \in Nat /\ Consumed \in 0..Len(input)
        /\ Len(input) = Consumed + Len(p) /\ nl \in Nat /\ 1 <= nl /\ nl <= Len(p)
    BY ConsumedType DEF Consumed
  <1>3. p \in Seq(Byte) /\ \A i \in nl + 1 .. Len(p) : p[i] \in Byte
    BY <1>2, ElementOfSeq DEF StreamTypeOK
  <1>4. /\ p' \in Seq(Byte) /\ Len(p') = Len(p) - nl
        /\ \A i \in 1 .. Len(p) - nl : p'[i] = p[nl + i]
    <2>1. /\ p' \in Seq(Byte) /\ Len(p') = IF nl + 1 <= Len(p) THEN Len(p) - (nl + 1) + 1 ELSE 0
          /\ \A i \in 1 .. Len(p) - (nl + 1) + 1 : p'[i] = p[nl + 1 + i - 1]
      BY <1>1, <1>2, <1>3, SubSeqProperties
    <2>2. Len(p') = Len(p) - nl
      BY <1>2, <2>1
    <2>3. ASSUME NEW i \in 1 .. Len(p) - nl PROVE p'[i] = p[nl + i]
      <3>1. i \in 1 .. Len(p) - (nl + 1) + 1 /\ nl + 1 + i - 1 = nl + i
        BY <1>2
      <3> QED BY <2>1, <3>1
    <2> QED BY <2>1, <2>2, <2>3
  <1>b. PICK b \in Nat : b = Consumed + nl
    BY <1>2
  <1>5. Consumed' = b /\ Consumed < b /\ b <= Len(input)
    <2>1. Consumed' = Len(input) - (Len(p) - nl)
      BY <1>1, <1>4 DEF Consumed
    <2> QED BY <1>2, <1>b, <2>1
  <1>6. input[b] = NL /\ \A i \in Consumed + 1 .. b - 1 : input[i] # NL
    <2>1. input[b] = NL
      BY <1>1, <1>2, <1>b DEF Rest
    <2>2. ASSUME NEW i \in Consumed + 1 .. b - 1 PROVE input[i] # NL
      <3>1. i - Consumed \in 1..nl - 1 /\ i - Consumed \in 1..Len(p) /\ Consumed + (i - Consumed) = i
        BY <1>2, <1>b
      <3> QED BY <1>1, <3>1 DEF Rest
    <2> QED BY <2>1, <2>2
  <1>7. Rest'
    <2>1. ASSUME NEW i \in 1..Len(p') PROVE p'[i] = input[b + i]
      <3>1. i \in 1 .. Len(p) - nl /\ nl + i \in 1..Len(p) /\ Consumed + (nl + i) = b + i
        BY <1>2, <1>b, <1>4
      <3> QED BY <1>4, <3>1 DEF Rest
    <2> QED BY <1>1, <1>2, <1>b, <1>4, <1>5, <2>1 DEF Rest
  <1>s. PICK a \in 0..Consumed : PartialFrom(a)
    BY DEF PartialIsTail
  <1>8. /\ Unbroken(a, Consumed + 1)
        /\ discarding <=> Consumed - a > LineCap
        /\ buf = IF discarding THEN <<>> ELSE SubSeq(input, a + 1, Consumed)
    BY <1>s DEF PartialFrom
  <1>9. ~discarding => /\ Len(buf) = Consumed - a
                       /\ buf \o SubSeq(p, 1, nl - 1) = SubSeq(input, a + 1, b - 1)
    <2> SUFFICES ASSUME ~discarding
                 PROVE  /\ Len(buf) = Consumed - a
                        /\ buf \o SubSeq(p, 1, nl - 1) = SubSeq(input, a + 1, b - 1)
      OBVIOUS
    <2>1. /\ a \in 0..Len(input) /\ Consumed \in a..Len(input)
          /\ b - 1 \in Consumed..Len(input)
      BY <1>2, <1>b
    <2>2. Len(buf) = Consumed - a
      BY <1>8, <2>1, SliceOfInput
    <2>3. SubSeq(p, 1, nl - 1) = SubSeq(input, Consumed + 1, b - 1)
      BY <1>2, <1>b, HeadOfRest
    <2> QED BY <1>8, <2>1, <2>2, <2>3, JoinSlices
  <1>10. /\ ~discarding' /\ discarding' \in BOOLEAN /\ buf' = <<>>
         /\ LineAdded(a, b)
    <2>1. CASE discarding
      <3>1. ~(b - a - 1 <= LineCap)
        BY <1>2, <1>b, <1>8, <2>1, Caps
      <3>2. discarding' = FALSE /\ buf' = buf /\ lines' = lines
        BY <2>1 DEF EndLine
      <3>3. buf = <<>>
        BY <1>8, <2>1
      <3> QED BY <3>1, <3>2, <3>3 DEF LineAdded
    <2>2. CASE ~discarding
      <3>1. Len(buf) + nl - 1 <= LineCap <=> b - a - 1 <= LineCap
        BY <1>2, <1>b, <1>9, <2>2
      <3>2. Len(buf) + nl - 1 > LineCap <=> ~(Len(buf) + nl - 1 <= LineCap)
        BY <1>2, <1>b, <1>9, <2>2, Caps
      <3>3. CASE Len(buf) + nl - 1 <= LineCap
        <4>1. /\ lines' = Append(lines, buf \o SubSeq(p, 1, nl - 1))
              /\ buf' = <<>> /\ discarding' = discarding
          BY <2>2, <3>2, <3>3 DEF EndLine
        <4>2. lines' = Append(lines, SubSeq(input, a + 1, b - 1))
          BY <1>9, <2>2, <4>1
        <4> QED BY <2>2, <3>1, <3>3, <4>1, <4>2 DEF LineAdded, StreamTypeOK
      <3>4. CASE ~(Len(buf) + nl - 1 <= LineCap)
        <4>1. lines' = lines /\ buf' = <<>> /\ discarding' = discarding
          BY <2>2, <3>2, <3>4 DEF EndLine
        <4> QED BY <2>2, <3>1, <3>4, <4>1 DEF LineAdded, StreamTypeOK
      <3> QED BY <3>3, <3>4
    <2> QED BY <2>1, <2>2
  <1>11. StreamTypeOK'
    <2>1. SubSeq(input, a + 1, b - 1) \in Seq(Byte)
      <3>1. a \in 0..Len(input) /\ b - 1 \in a..Len(input)
        BY <1>2, <1>b
      <3> QED BY <3>1, SliceOfInput
    <2>2. lines' \in Seq(Seq(Byte))
      <3>1. lines \in Seq(Seq(Byte))
        BY DEF StreamTypeOK
      <3>2. Append(lines, SubSeq(input, a + 1, b - 1)) \in Seq(Seq(Byte))
        BY <2>1, <3>1, AppendProperties
      <3> QED BY <1>10, <3>1, <3>2 DEF LineAdded
    <2>3. buf' \in Seq(Byte) /\ Len(buf') <= LineCap
      BY <1>10, EmptySeq, Caps
    <2> QED BY <1>1, <1>4, <1>10, <2>2, <2>3 DEF StreamTypeOK
  <1>12. LinesAreWhole'
    BY <1>1, <1>5, <1>6, <1>7, <1>8, <1>10, <1>11, LineEnds
  <1>13. PartialIsTail'
    <2>1. b \in 0..Consumed' /\ ~(Consumed' - b > LineCap)
      BY <1>5, Caps
    <2>2. Unbroken(b, Consumed + 1)'
      BY <1>1, <1>5, <1>6 DEF Unbroken
    <2>3. SubSeq(input', b + 1, Consumed') = <<>>
      BY <1>5, SubSeqEmpty
    <2>4. PartialFrom(b)'
      BY <1>10, <2>1, <2>2, <2>3 DEF PartialFrom
    <2> QED BY <2>1, <2>4 DEF PartialIsTail
  <1>14. Headed'
    BY <1>1 DEF Headed
  <1> QED BY <1>7, <1>11, <1>12, <1>13, <1>14

\* The initial state satisfies the inductive invariant.
LEMMA InitStream == StreamInit => StreamInv
  <1> SUFFICES ASSUME StreamInit PROVE StreamInv
    OBVIOUS
  <1>1. Len(p) = 0 /\ Len(input) = 0 /\ Len(kept) = 0 /\ Len(buf) = 0 /\ Len(lines) = 0
    BY EmptySeq DEF StreamInit
  <1>2. Consumed = 0
    BY <1>1 DEF Consumed
  <1>3. StreamTypeOK
    <2>1. <<>> \in Seq(Byte) /\ <<>> \in Seq(Seq(Byte))
      BY EmptySeq
    <2>2. Len(buf) <= LineCap /\ Len(kept) <= StderrCap
      BY <1>1, Caps
    <2> QED BY <2>1, <2>2 DEF StreamInit, StreamTypeOK
  <1>4. Rest /\ Headed
    BY <1>1 DEF StreamInit, Rest, Headed
  <1>5. FittingEnds = {}
    BY <1>2 DEF FittingEnds
  <1>6. LinesAreWhole
    BY <1>1, <1>5, FS_EmptySet DEF LinesAreWhole
  <1>7. PartialIsTail
    <2>1. Unbroken(0, Consumed + 1) /\ SubSeq(input, 0 + 1, Consumed) = <<>>
      BY <1>2, SubSeqEmpty DEF Unbroken
    <2>2. PartialFrom(0)
      BY <1>2, <2>1, Caps DEF PartialFrom, StreamInit
    <2> QED BY <1>2, <2>2 DEF PartialIsTail
  <1> QED BY <1>3, <1>4, <1>6, <1>7 DEF StreamInv

\* Every step keeps the inductive invariant.
LEMMA NextStream == StreamInv /\ [StreamNext]_streamVars => StreamInv'
  <1> SUFFICES ASSUME StreamInv, [StreamNext]_streamVars PROVE StreamInv'
    OBVIOUS
  <1>1. CASE \E n \in 1..MaxChunk : \E chunk \in [1..n -> Byte] : Write(chunk)
    <2>1. MaxChunk \in Nat
      BY StreamAssumption
    <2> QED BY <1>1, <2>1, WriteStream
  <1>2. CASE KeepPartial
    BY <1>2, KeepPartialStream
  <1>3. CASE \E nl \in 1..Len(p) : EndLine(nl)
    BY <1>3, EndLineStream
  <1>4. CASE UNCHANGED streamVars
    <2>1. UNCHANGED <<p, buf, discarding, lines, kept, truncated, input>>
      BY <1>4 DEF streamVars
    <2>2. Consumed' = Consumed
      BY <2>1 DEF Consumed
    <2>3. \A a, b : Unbroken(a, b)' <=> Unbroken(a, b)
      BY <2>1 DEF Unbroken
    <2>4. FittingEnds' = FittingEnds
      BY <2>1, <2>2, <2>3 DEF FittingEnds
    <2>5. \A b : Rank(b)' = Rank(b)
      BY <2>4 DEF Rank
    <2>6. LinesAreWhole'
      BY <2>1, <2>3, <2>4, <2>5 DEF StreamInv, LinesAreWhole
    <2>7. PartialIsTail'
      BY <2>1, <2>2, <2>3 DEF StreamInv, PartialIsTail, PartialFrom
    <2> QED BY <2>1, <2>2, <2>6, <2>7 DEF StreamInv, StreamTypeOK, Rest, Headed
  <1> QED BY <1>1, <1>2, <1>3, <1>4 DEF StreamNext

\* The inductive invariant of the splitter and the bounded buffer.
LEMMA StreamInductive == StreamSpec => []StreamInv
  BY InitStream, NextStream, PTL DEF StreamSpec

\* The kept head is a prefix in the library's sense.
LEMMA HeadIsPrefix == StreamInv => StderrIsHonest
  <1> SUFFICES ASSUME StreamInv PROVE StderrIsHonest
    OBVIOUS
  <1>1. /\ kept \in Seq(Byte) /\ input \in Seq(Byte)
        /\ Len(kept) \in Nat /\ Len(kept) <= Len(input)
        /\ \A i \in 1..Len(kept) : kept[i] = input[i]
        /\ truncated <=> Len(kept) < Len(input)
    BY LenProperties DEF StreamInv, StreamTypeOK, Headed
  <1>2. SubSeq(kept, 1, Len(kept)) = SubSeq(input, 1, Len(kept))
    BY <1>1, SameSlice
  <1> QED BY <1>1, <1>2 DEF StderrIsHonest, IsPrefix

-----------------------------------------------------------------------------
(* What is promised of a child's output. *)

\* A child cannot grow the daemon's memory: a partial line stays within
\* lineCap and the kept stderr within its limit, for every cap and input.
THEOREM OutputIsBounded == StreamSpec => []StreamTypeOK
  <1>1. StreamInv => StreamTypeOK
    BY DEF StreamInv
  <1> QED BY <1>1, StreamInductive, PTL

\* turnStats.Write parses exactly the lines that fit, whole and in order,
\* wherever the chunks were cut and however long the lines between them.
THEOREM SplittingIsExact == StreamSpec => []ChunksDoNotMatter
  <1>1. StreamInv => ChunksDoNotMatter
    BY DEF StreamInv, ChunksDoNotMatter
  <1> QED BY <1>1, StreamInductive, PTL

\* boundedBuffer keeps the head of stderr and admits what it dropped.
THEOREM TruncationIsAdmitted == StreamSpec => []StderrIsHonest
  BY StreamInductive, HeadIsPrefix, PTL


-----------------------------------------------------------------------------
(* The child process. *)

Ran == {"ran", "swept", "recorded", "returned"}

\* What the place of run says about the leader and its own registers.
PlacesOK ==
    /\ pc = "idle" => leader = "unborn" /\ err = "nil"
    /\ pc = "waiting" => leader \in {"alive", "zombie"} /\ err = "nil"
    /\ pc \in {"reaped", "joining"} => leader = "reaped"
    /\ pc \in Ran => leader = "reaped" \/ (leader = "unborn" /\ err = "spawn")
    /\ outcome # "none" => pc \in {"recorded", "returned"}
    /\ result # "none" => pc = "returned"

\* Before the child is born nothing of it exists.
UnbornOK ==
    leader = "unborn" =>
        helper = "unborn" /\ watch = "off" /\ copier = "done" /\ ~termed

\* The watcher is stopped before the join; a TERM was its verdict, and the
\* sweep comes after the last of them.
WatchOK ==
    /\ watch = "on" => pc \in {"waiting", "reaped"}
    /\ termed => watchErr = "ctx" /\ ctx # "live"
    /\ pc \in {"swept", "recorded", "returned"} /\ termed => helper # "alive"

\* An error-free wait means a clean exit and a copier that met the end of its
\* pipe.
JudgedOK ==
    /\ pc = "reaped" /\ err = "nil" => exit = "ok"
    /\ pc \in Ran \cup {"joining"} /\ err = "nil" => exit = "ok" /\ watchErr = "nil"
    /\ pc \in Ran /\ err = "nil" => copier = "done"
    /\ outcome = "ok" \/ result = "nil" => err = "nil"
    /\ result = "resume_failed" => ctx = "live"

RunInv == TypeOK /\ PlacesOK /\ UnbornOK /\ WatchOK /\ JudgedOK

\* A run begins in the invariant.
LEMMA InitRunInv == Init => RunInv
  BY DEF Init, RunInv, TypeOK, PlacesOK, UnbornOK, WatchOK, JudgedOK, Ran

\* The steps of run itself keep it.
LEMMA RunRunInv == RunInv /\ Run => RunInv'
  <1> SUFFICES ASSUME RunInv, Run PROVE RunInv'
    OBVIOUS
  <1> USE DEF RunInv, TypeOK, PlacesOK, UnbornOK, WatchOK, JudgedOK, Ran,
              procVars, execVars, runVars
  <1>1. CASE CmdStart
    BY <1>1 DEF CmdStart
  <1>2. CASE CmdStartFails
    BY <1>2 DEF CmdStartFails
  <1>3. CASE WaitReaps
    BY <1>3 DEF WaitReaps
  <1>4. CASE WaitJoins
    BY <1>4 DEF WaitJoins
  <1>8. CASE WaitStopsWatch
    BY <1>8 DEF WaitStopsWatch
  <1>5. CASE Sweep
    BY <1>5 DEF Sweep
  <1>6. CASE Record
    BY <1>6 DEF Record, OutcomeOf
  <1>7. CASE Return
    BY <1>7 DEF Return, Verdict
  <1> QED BY <1>1, <1>2, <1>3, <1>4, <1>5, <1>6, <1>7, <1>8 DEF Run

\* So does every step of the processes, of os/exec and of the context.
LEMMA NextRunInv == RunInv /\ [Next]_vars => RunInv'
  <1> SUFFICES ASSUME RunInv, [Next]_vars PROVE RunInv'
    OBVIOUS
  <1>1. CASE Run
    BY <1>1, RunRunInv
  <1> USE DEF RunInv, TypeOK, PlacesOK, UnbornOK, WatchOK, JudgedOK, Ran,
              procVars, execVars, runVars
  <1>2. ASSUME NEW why \in {"deadline", "shutdown"}, ContextEnds(why) PROVE RunInv'
    BY <1>2 DEF ContextEnds
  <1>3. CASE Fork
    BY <1>3 DEF Fork
  <1>4. ASSUME NEW how \in {"ok", "failed", "gone"}, NEW s \in {"unseen", "ok", "bad"},
               LeaderExits(how, s)
        PROVE  RunInv'
    BY <1>4 DEF LeaderExits
  <1>5. CASE HelperExits
    BY <1>5 DEF HelperExits
  <1>6. CASE Output
    BY <1>6 DEF Output
  <1>7. CASE OutputReturns
    BY <1>7 DEF OutputReturns
  <1>8. CASE EndOfOutput
    BY <1>8 DEF EndOfOutput
  <1>9. CASE Watch
    <2>1. /\ pc \in {"waiting", "reaped"} /\ ctx # "live"
          /\ watch' = "off" /\ timer' = "running"
          /\ \/ termed' = TRUE /\ watchErr' = "ctx"
             \/ UNCHANGED <<termed, watchErr>>
          /\ UNCHANGED <<pc, ctx, leader, helper, exit, score, copier, err, outcome, result>>
      BY <1>9 DEF Watch, TermGroup
    <2>2. CASE termed' = TRUE /\ watchErr' = "ctx"
      BY <2>1, <2>2
    <2>3. CASE UNCHANGED <<termed, watchErr>>
      BY <2>1, <2>3
    <2> QED BY <2>1, <2>2, <2>3
  <1>10. CASE WaitDelayOver
    BY <1>10 DEF WaitDelayOver
  <1>11. CASE UNCHANGED vars
    BY <1>11 DEF vars
  <1> QED BY <1>1, <1>2, <1>3, <1>4, <1>5, <1>6, <1>7, <1>8, <1>9, <1>10, <1>11
          DEF Next, Exits, Done

\* The inductive invariant of one engine run.
LEMMA RunInductive == Spec => []RunInv
  BY InitRunInv, NextRunInv, PTL DEF Spec

\* The registers of run, exec and the processes keep their values; the row
\* that record writes is one of the closed set of outcomes.
THEOREM RunTyped == Spec => []TypeOK
  <1>1. RunInv => TypeOK
    BY DEF RunInv
  <1> QED BY <1>1, RunInductive, PTL

\* run's sweep: a turn whose group was TERMed leaves no process behind,
\* whichever of them ignored the TERM.
THEOREM GroupIsSwept == Spec => []NoStragglers
  <1>1. RunInv => NoStragglers
    BY DEF RunInv, PlacesOK, WatchOK, Ran, NoStragglers
  <1> QED BY <1>1, RunInductive, PTL

\* A nil result is returned only after the goroutine that feeds Spec.Output
\* has read its pipe to the end: a pipe that exec had to close is an error.
THEOREM ReplyIsComplete == Spec => []ReplyIsWhole
  <1>1. RunInv => ReplyIsWhole
    BY DEF RunInv, PlacesOK, JudgedOK, Ran, ReplyIsWhole
  <1> QED BY <1>1, RunInductive, PTL

\* A killed turn is never taken for a lost transcript, and success is never
\* claimed for a turn that was cut.
THEOREM VerdictsAreTrue == Spec => []VerdictIsTrue
  <1>1. RunInv => VerdictIsTrue
    BY DEF RunInv, TypeOK, PlacesOK, WatchOK, JudgedOK, Ran, VerdictIsTrue,
           KilledIsNotLoss, OkMeansDone
  <1> QED BY <1>1, RunInductive, PTL


=============================================================================
