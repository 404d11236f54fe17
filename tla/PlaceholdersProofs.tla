------------------------- MODULE PlaceholdersProofs -------------------------
(***************************************************************************)
(* Proofs about Placeholders, for texts and batches of any size.           *)
(***************************************************************************)
EXTENDS Placeholders, FiniteSetTheorems, TLAPS

-----------------------------------------------------------------------------
(***************************************************************************)
(* The scan.                                                               *)
(*                                                                         *)
(* Between two steps the scan never stands behind a percent sign that      *)
(* would escape the next character: the run before position i + 1 is even, *)
(* or the next character is one that nothing escapes.                      *)
(***************************************************************************)

\* n percent signs stand immediately before position j, and no more.
RunIs(j, n) ==
    /\ \A k \in j - n .. j - 1 : query[k] = "%"
    /\ n < j - 1 => query[j - n - 1] # "%"

\* There is only one such number.
LEMMA RunOfSigns ==
    ASSUME NEW j \in Nat, NEW n \in 0 .. j - 1, RunIs(j, n)
    PROVE  Run(j) = n
<1>1. ASSUME NEW m \in 0 .. j - 1, RunIs(j, m) PROVE m = n
  <2>1. CASE m < n
    <3>1. j - m - 1 \in j - n .. j - 1 /\ m < j - 1
      BY <2>1
    <3>2. QED
      BY <1>1, <3>1 DEF RunIs
  <2>2. CASE n < m
    <3>1. j - n - 1 \in j - m .. j - 1 /\ n < j - 1
      BY <2>2
    <3>2. QED
      BY <1>1, <3>1 DEF RunIs
  <2>3. QED
    BY <2>1, <2>2
<1>2. Run(j) = CHOOSE m \in 0 .. j - 1 : RunIs(j, m)
  BY DEF Run, RunIs
<1>3. QED
  BY <1>1, <1>2

\* The scan does not stand between a percent sign and what it escapes.
Aligned ==
    \E n \in 0 .. i :
        /\ RunIs(i + 1, n)
        /\ i < Len(query) => n % 2 = 0 \/ query[i + 1] = "x"

\* An invariant of the scan.
ScanInv ==
    /\ pc \in {"batch", "nothing", "rejected", "convert"}
    /\ query \in Seq(Chars)
    /\ i \in 0 .. Len(query)
    /\ counter = Cardinality(Numbers(i))
    /\ result \in Seq([text : Chars \cup {"$"}, number : Nat])
    /\ pc # "convert" => query = <<>> /\ result = <<>>
    /\ pc = "convert" => Aligned
    /\ ScanIsRight

\* Numbers and Kept are finite sets of positions.
LEMMA PositionsAreFinite ==
    ASSUME NEW n \in Nat
    PROVE  /\ IsFiniteSet(Numbers(n)) /\ Cardinality(Numbers(n)) \in Nat
           /\ IsFiniteSet(Kept(n)) /\ Cardinality(Kept(n)) \in Nat
<1>1. IsFiniteSet(1 .. n)
  BY FS_Interval
<1>2. Numbers(n) \subseteq 1 .. n /\ Kept(n) \subseteq 1 .. n
  BY DEF Numbers, Kept
<1>3. QED
  BY <1>1, <1>2, FS_Subset, FS_CardinalityType

\* As long as the query stays, so does what it means.
LEMMA SameText ==
    ASSUME query' = query, NEW m, i' = m
    PROVE  /\ Kept(i)' = Kept(m)
           /\ Numbers(i)' = Numbers(m)
           /\ \A j : Rank(i, j)' = Rank(m, j)
           /\ \A j : Meaning(j)' = Meaning(j)
<1>1. \A j : Run(j)' = Run(j)
  BY DEF Run
<1>2. \A j : Escaped(j)' = Escaped(j)
  BY <1>1 DEF Escaped
<1>3. Kept(i)' = Kept(m)
  BY <1>2 DEF Kept
<1>4. \A n : Numbers(n)' = Numbers(n)
  BY <1>2 DEF Numbers
<1>5. Numbers(i)' = Numbers(m)
  BY <1>2 DEF Numbers
<1>6. \A j : Rank(i, j)' = Rank(m, j)
  BY <1>3 DEF Rank
<1>7. \A j : Meaning(j)' = Meaning(j)
  BY <1>2, <1>4 DEF Meaning
<1>8. QED
  BY <1>3, <1>5, <1>6, <1>7

\* The scan stays right when it keeps one more position and appends what that
\* position means.
LEMMA OneMoreKept ==
    ASSUME ScanInv, NEW m \in Nat, i < m, i' = m, query' = query, pc = "convert", pc' = pc,
           Kept(m) = Kept(i) \cup {m},
           result' = Append(result, Meaning(m))
    PROVE  ScanIsRight'
<1> USE DEF ScanInv
<1>1. i \in Nat /\ result \in Seq([text : Chars \cup {"$"}, number : Nat])
  OBVIOUS
<1>2. IsFiniteSet(Kept(i)) /\ Cardinality(Kept(i)) \in Nat
  BY <1>1, PositionsAreFinite
<1>3. \A j \in Kept(i) : j \in 1 .. i
  BY DEF Kept
<1>4. m \notin Kept(i)
  BY <1>1, <1>3
<1>5. Cardinality(Kept(m)) = Cardinality(Kept(i)) + 1
  BY <1>2, <1>4, FS_AddElement
<1>6. Len(result) = Cardinality(Kept(i)) /\ \A j \in Kept(i) : result[Rank(i, j)] = Meaning(j)
  BY DEF ScanIsRight
<1>7. Len(result') = Cardinality(Kept(m))
  BY <1>1, <1>5, <1>6
<1>8. ASSUME NEW j \in Kept(i) PROVE result'[Rank(m, j)] = Meaning(j)
  <2>1. Rank(m, j) = Rank(i, j)
    <3>1. {k \in Kept(m) : k <= j} = {k \in Kept(i) : k <= j}
      BY <1>1, <1>3
    <3>2. QED
      BY <3>1 DEF Rank
  <2>2. Rank(i, j) \in 1 .. Len(result)
    <3>1. {k \in Kept(i) : k <= j} \subseteq Kept(i) /\ j \in {k \in Kept(i) : k <= j}
      BY <1>3
    <3>2. IsFiniteSet({k \in Kept(i) : k <= j})
      BY <1>2, <3>1, FS_Subset
    <3>3. /\ Cardinality({k \in Kept(i) : k <= j}) \in Nat
          /\ Cardinality({k \in Kept(i) : k <= j}) <= Cardinality(Kept(i))
      BY <1>2, <3>1, <3>2, FS_Subset, FS_CardinalityType
    <3>4. Cardinality({k \in Kept(i) : k <= j}) # 0
      BY <3>1, <3>2, FS_EmptySet
    <3>5. QED
      BY <1>2, <1>6, <3>3, <3>4 DEF Rank
  <2>3. result'[Rank(i, j)] = result[Rank(i, j)]
    BY <1>1, <2>2
  <2>4. QED
    BY <1>6, <2>1, <2>3
<1>9. result'[Rank(m, m)] = Meaning(m)
  <2>1. {k \in Kept(m) : k <= m} = Kept(m)
    BY <1>1, <1>3
  <2>2. Rank(m, m) = Len(result) + 1
    BY <1>5, <1>6, <2>1 DEF Rank
  <2>3. QED
    BY <1>1, <2>2
<1>10. \A j \in Kept(m) : result'[Rank(m, j)] = Meaning(j)
  BY <1>8, <1>9
<1>11. /\ Kept(i)' = Kept(m)
       /\ \A j : Rank(i, j)' = Rank(m, j)
       /\ \A j : Meaning(j)' = Meaning(j)
  BY SameText
<1>12. Len(result)' = Cardinality(Kept(i))'
  BY <1>7, <1>11
<1>13. \A j \in Kept(i)' : result'[Rank(i, j)'] = Meaning(j)'
  BY <1>10, <1>11
<1>14. QED
  BY <1>12, <1>13 DEF ScanIsRight

\* A function from the first n positions is a sequence.
LEMMA IsSequence ==
    ASSUME NEW n \in Nat, NEW S, NEW f \in [1 .. n -> S]
    PROVE  f \in Seq(S)
OBVIOUS

\* What a batch is turned into is a text.
LEMMA RowsAreText ==
    ASSUME columns \in Nat, NEW l \in Nat,
           NEW q, q = [p \in 1 .. l * Len(RowText) |-> RowText[((p - 1) % Len(RowText)) + 1]]
    PROVE  q \in Seq(Chars)
<1>1. RowText \in [1 .. 2 * columns + 2 -> Chars]
  BY DEF RowText, Chars
<1>2. Len(RowText) = 2 * columns + 2
  BY DEF RowText
<1>3. l * Len(RowText) \in Nat /\ Len(RowText) \in Nat \ {0}
  BY <1>2
<1>4. ASSUME NEW p \in 1 .. l * Len(RowText) PROVE RowText[((p - 1) % Len(RowText)) + 1] \in Chars
  <2>1. (p - 1) % Len(RowText) \in 0 .. Len(RowText) - 1
    BY <1>2, <1>3
  <2>2. QED
    BY <1>1, <1>2, <2>1
<1>5. q \in [1 .. l * Len(RowText) -> Chars]
  BY <1>4
<1>6. QED
  BY <1>3, <1>5, IsSequence

\* Aligned after a step to position m.
LEMMA AlignedAt ==
    ASSUME query' = query, NEW m \in Nat, i' = m, NEW n \in 0 .. m, RunIs(m + 1, n),
           m < Len(query) => n % 2 = 0 \/ query[m + 1] = "x"
    PROVE  Aligned'
<1>1. \A k \in (i' + 1) - n .. (i' + 1) - 1 : query'[k] = "%"
  BY DEF RunIs
<1>2. n < (i' + 1) - 1 => query'[(i' + 1) - n - 1] # "%"
  BY DEF RunIs
<1>3. QED
  BY <1>1, <1>2 DEF Aligned, RunIs

\* At first nothing was read.
LEMMA ScanInit == Init => ScanInv
<1> SUFFICES ASSUME Init PROVE ScanInv
  OBVIOUS
<1>1. query \in Seq(Chars) /\ pc \in {"batch", "convert"}
  <2>1. Texts \subseteq Seq(Chars)
    <3>1. ASSUME NEW n \in 0 .. MaxLength, NEW f \in [1 .. n -> Chars] PROVE f \in Seq(Chars)
      BY BoundsAssumption, IsSequence
    <3>2. QED
      BY <3>1 DEF Texts
  <2>2. <<>> \in Seq(Chars)
    OBVIOUS
  <2>3. QED
    BY <2>1, <2>2 DEF Init
<1>2. i = 0 /\ counter = 0 /\ result = <<>> /\ (pc # "convert" => query = <<>>)
  BY DEF Init
<1>3. Numbers(0) = {} /\ Kept(0) = {}
  BY DEF Numbers, Kept
<1>4. Aligned
  BY <1>2 DEF Aligned, RunIs
<1>5. ScanIsRight
  BY <1>2, <1>3, FS_EmptySet DEF ScanIsRight
<1>6. i \in 0 .. Len(query) /\ result \in Seq([text : Chars \cup {"$"}, number : Nat])
  BY <1>1, <1>2
<1>7. counter = Cardinality(Numbers(i))
  BY <1>2, <1>3, FS_EmptySet
<1>8. QED
  BY <1>1, <1>2, <1>4, <1>5, <1>6, <1>7 DEF ScanInv

\* The scan stands where the next character is not escaped; behind it the run of
\* percent signs is longer by one, or empty.
LEMMA NextCharacter ==
    ASSUME ScanInv, pc = "convert", i < Len(query)
    PROVE  /\ ~Escaped(i + 1)
           /\ query[i + 1] = "%" => Run(i + 2) % 2 = 1
           /\ query[i + 1] # "%" => RunIs(i + 2, 0)
           /\ query[i + 1] = "%" => \E n \in 0 .. i : RunIs(i + 2, n + 1) /\ n % 2 = 0
<1>1. i \in Nat /\ query \in Seq(Chars)
  BY DEF ScanInv
<1>2. PICK n \in 0 .. i : RunIs(i + 1, n) /\ (n % 2 = 0 \/ query[i + 1] = "x")
  BY DEF ScanInv, Aligned
<1>3. Run(i + 1) = n
  BY <1>1, <1>2, RunOfSigns
<1>4. ~Escaped(i + 1)
  BY <1>1, <1>2, <1>3 DEF Escaped
<1>5. CASE query[i + 1] = "%"
  <2>1. n % 2 = 0
    BY <1>2, <1>5
  <2>2. RunIs(i + 2, n + 1)
    BY <1>1, <1>2, <1>5 DEF RunIs
  <2>3. Run(i + 2) = n + 1
    BY <1>1, <2>2, RunOfSigns
  <2>4. QED
    BY <1>1, <1>4, <1>5, <2>1, <2>2, <2>3
<1>6. CASE query[i + 1] # "%"
  <2>1. RunIs(i + 2, 0)
    BY <1>1, <1>6 DEF RunIs
  <2>2. QED
    BY <1>4, <1>6, <2>1
<1>7. QED
  BY <1>5, <1>6

\* The two characters that Reads(c) finds: the first is dropped, the second kept
\* and escaped.
LEMMA PairIsEscaped ==
    ASSUME ScanInv, pc = "convert", NEW c \in {"%", "s"}, Reads(c)
    PROVE  /\ Escaped(i + 2)
           /\ Kept(i + 2) = Kept(i) \cup {i + 2}
           /\ Numbers(i + 2) = IF c = "s" THEN Numbers(i) \cup {i + 2} ELSE Numbers(i)
<1>1. i \in Nat /\ query[i + 1] = "%" /\ query[i + 2] = c /\ i + 1 < Len(query)
  BY DEF ScanInv, Reads
<1>2. ~Escaped(i + 1) /\ Run(i + 2) % 2 = 1
  BY <1>1, NextCharacter DEF ScanInv
<1>3. Escaped(i + 2)
  BY <1>1, <1>2 DEF Escaped
<1>4. Kept(i + 2) = Kept(i) \cup {i + 2}
  <2>1. ASSUME NEW j \in 1 .. i + 2
        PROVE  j \in Kept(i + 2) <=> j \in Kept(i) \cup {i + 2}
    <3>1. CASE j < i
      BY <1>1, <3>1 DEF Kept
    <3>2. CASE j = i
      BY <1>1, <1>2, <3>2 DEF Kept
    <3>3. CASE j = i + 1
      BY <1>1, <1>3, <3>3 DEF Kept
    <3>4. CASE j = i + 2
      BY <1>1, <3>4 DEF Kept
    <3>5. QED
      BY <1>1, <3>1, <3>2, <3>3, <3>4
  <2>2. Kept(i + 2) \subseteq 1 .. i + 2 /\ Kept(i) \cup {i + 2} \subseteq 1 .. i + 2
    BY <1>1 DEF Kept
  <2>3. QED
    BY <2>1, <2>2
<1>5. Numbers(i + 2) = IF c = "s" THEN Numbers(i) \cup {i + 2} ELSE Numbers(i)
  <2>1. ASSUME NEW j \in 1 .. i + 2
        PROVE  j \in Numbers(i + 2) <=> j \in Numbers(i) \/ (j = i + 2 /\ c = "s")
    <3>1. CASE j <= i
      BY <1>1, <3>1 DEF Numbers
    <3>2. CASE j = i + 1
      BY <1>1, <3>2 DEF Numbers
    <3>3. CASE j = i + 2
      BY <1>1, <1>3, <3>3 DEF Numbers
    <3>4. QED
      BY <1>1, <3>1, <3>2, <3>3
  <2>2. Numbers(i + 2) \subseteq 1 .. i + 2 /\ Numbers(i) \subseteq 1 .. i + 2
    BY <1>1 DEF Numbers
  <2>3. i + 2 \in 1 .. i + 2
    BY <1>1
  <2>4. QED
    BY <2>1, <2>2, <2>3
<1>6. QED
  BY <1>3, <1>4, <1>5

\* A character that is copied is kept as it is.
LEMMA SingleIsKept ==
    ASSUME ScanInv, pc = "convert", i < Len(query)
    PROVE  /\ Kept(i + 1) = Kept(i) \cup {i + 1}
           /\ Numbers(i + 1) = Numbers(i)
           /\ Meaning(i + 1) = Literal(query[i + 1])
<1>1. i \in Nat /\ ~Escaped(i + 1)
  BY NextCharacter DEF ScanInv
<1>2. Kept(i + 1) = Kept(i) \cup {i + 1}
  <2>1. ASSUME NEW j \in 1 .. i + 1
        PROVE  j \in Kept(i + 1) <=> j \in Kept(i) \cup {i + 1}
    <3>1. CASE j < i
      BY <1>1, <3>1 DEF Kept
    <3>2. CASE j = i
      BY <1>1, <3>2 DEF Kept
    <3>3. CASE j = i + 1
      BY <1>1, <3>3 DEF Kept
    <3>4. QED
      BY <1>1, <3>1, <3>2, <3>3
  <2>2. Kept(i + 1) \subseteq 1 .. i + 1 /\ Kept(i) \cup {i + 1} \subseteq 1 .. i + 1
    BY <1>1 DEF Kept
  <2>3. QED
    BY <2>1, <2>2
<1>3. Numbers(i + 1) = Numbers(i)
  BY <1>1 DEF Numbers
<1>4. Meaning(i + 1) = Literal(query[i + 1])
  BY <1>1 DEF Meaning
<1>5. QED
  BY <1>2, <1>3, <1>4

\* Each step of the scan keeps the invariant; the other steps do not touch it.
LEMMA ScanStep == columns \in Nat /\ widths \in Seq(Nat) /\ ScanInv /\ [Next]_vars => ScanInv'
<1> SUFFICES ASSUME columns \in Nat, widths \in Seq(Nat), ScanInv, [Next]_vars PROVE ScanInv'
  OBVIOUS
<1> DEFINE Out == [text : Chars \cup {"$"}, number : Nat]
<1>0. /\ i \in Nat /\ i <= Len(query) /\ Len(query) \in Nat /\ query \in Seq(Chars)
      /\ result \in Seq(Out) /\ counter = Cardinality(Numbers(i)) /\ counter \in Nat
      /\ IsFiniteSet(Numbers(i))
  BY PositionsAreFinite DEF ScanInv
<1>1. CASE Placeholder
  <2>1. /\ pc = "convert" /\ Reads("s") /\ i' = i + 2 /\ query' = query /\ pc' = pc
        /\ counter' = counter + 1 /\ result' = Append(result, Numbered(counter + 1))
    BY <1>1 DEF Placeholder
  <2>2. Escaped(i + 2) /\ Kept(i + 2) = Kept(i) \cup {i + 2} /\ Numbers(i + 2) = Numbers(i) \cup {i + 2}
    BY <2>1, PairIsEscaped
  <2>3. Cardinality(Numbers(i + 2)) = counter + 1
    <3>1. i + 2 \notin Numbers(i)
      BY <1>0 DEF Numbers
    <3>2. QED
      BY <1>0, <2>2, <3>1, FS_AddElement
  <2>4. query[i + 2] = "s" /\ i + 2 <= Len(query)
    BY <1>0, <2>1 DEF Reads
  <2>5. Meaning(i + 2) = Numbered(counter + 1)
    BY <2>2, <2>3, <2>4 DEF Meaning
  <2>6. ScanIsRight'
    BY <1>0, <2>1, <2>2, <2>5, OneMoreKept
  <2>7. counter' = Cardinality(Numbers(i))'
    BY <2>1, <2>3, SameText
  <2>8. RunIs(i + 3, 0)
    BY <1>0, <2>4 DEF RunIs
  <2>9. Aligned'
    <3>1. 0 \in 0 .. i + 2 /\ 0 % 2 = 0 /\ i + 2 \in Nat /\ RunIs((i + 2) + 1, 0)
      BY <1>0, <2>8
    <3>2. QED
      BY <2>1, <3>1, AlignedAt
  <2>10. result' \in Seq(Out)
    BY <1>0, <2>1 DEF Numbered
  <2>11. QED
    BY <1>0, <2>1, <2>4, <2>6, <2>7, <2>9, <2>10 DEF ScanInv
<1>2. CASE Percent
  <2>1. /\ pc = "convert" /\ Reads("%") /\ i' = i + 2 /\ query' = query /\ pc' = pc
        /\ counter' = counter /\ result' = Append(result, Literal("%"))
    BY <1>2 DEF Percent
  <2>2. Escaped(i + 2) /\ Kept(i + 2) = Kept(i) \cup {i + 2} /\ Numbers(i + 2) = Numbers(i)
    BY <2>1, PairIsEscaped
  <2>3. query[i + 1] = "%" /\ query[i + 2] = "%" /\ i + 2 <= Len(query) /\ i < Len(query)
    BY <1>0, <2>1 DEF Reads
  <2>4. Meaning(i + 2) = Literal("%")
    BY <2>3 DEF Meaning
  <2>5. ScanIsRight'
    BY <1>0, <2>1, <2>2, <2>4, OneMoreKept
  <2>6. counter' = Cardinality(Numbers(i))'
    BY <1>0, <2>1, <2>2, SameText
  <2>7. PICK n \in 0 .. i : RunIs(i + 2, n + 1) /\ n % 2 = 0
    BY <2>1, <2>3, NextCharacter
  <2>8. RunIs(i + 3, n + 2)
    BY <1>0, <2>3, <2>7 DEF RunIs
  <2>9. Aligned'
    <3>1. n + 2 \in 0 .. i + 2 /\ (n + 2) % 2 = 0 /\ i + 2 \in Nat /\ RunIs((i + 2) + 1, n + 2)
      BY <1>0, <2>7, <2>8
    <3>2. QED
      BY <2>1, <3>1, AlignedAt
  <2>10. result' \in Seq(Out)
    BY <1>0, <2>1 DEF Literal, Chars
  <2>11. QED
    BY <1>0, <2>1, <2>3, <2>5, <2>6, <2>9, <2>10 DEF ScanInv
<1>3. CASE Copy
  <2>1. /\ pc = "convert" /\ i < Len(query) /\ ~Reads("s") /\ ~Reads("%") /\ i' = i + 1
        /\ query' = query /\ pc' = pc
        /\ counter' = counter /\ result' = Append(result, Literal(query[i + 1]))
    BY <1>3 DEF Copy
  <2>2. /\ Kept(i + 1) = Kept(i) \cup {i + 1} /\ Numbers(i + 1) = Numbers(i)
        /\ Meaning(i + 1) = Literal(query[i + 1])
    BY <2>1, SingleIsKept
  <2>3. ScanIsRight'
    BY <1>0, <2>1, <2>2, OneMoreKept
  <2>4. counter' = Cardinality(Numbers(i))'
    BY <1>0, <2>1, <2>2, SameText
  <2>5. query[i + 1] \in Chars
    BY <1>0, <2>1
  <2>6. result' \in Seq(Out)
    BY <1>0, <2>1, <2>5 DEF Literal, Chars
  <2>7. Aligned'
    <3>1. CASE query[i + 1] = "%"
      <4>1. PICK n \in 0 .. i : RunIs(i + 2, n + 1) /\ n % 2 = 0
        BY <2>1, <3>1, NextCharacter
      <4>2. ASSUME i + 1 < Len(query) PROVE query[i + 2] = "x"
        <5>1. query[i + 2] \in Chars
          BY <1>0, <4>2
        <5>2. query[i + 2] # "s" /\ query[i + 2] # "%"
          BY <2>1, <3>1, <4>2 DEF Reads
        <5>3. QED
          BY <5>1, <5>2 DEF Chars
      <4>3. n + 1 \in 0 .. i + 1 /\ i + 1 \in Nat /\ RunIs((i + 1) + 1, n + 1)
        BY <1>0, <4>1
      <4>4. i + 1 < Len(query) => query[(i + 1) + 1] = "x"
        BY <1>0, <4>2
      <4>5. QED
        BY <2>1, <4>3, <4>4, AlignedAt
    <3>2. CASE query[i + 1] # "%"
      <4>1. RunIs(i + 2, 0)
        BY <2>1, <3>2, NextCharacter
      <4>2. 0 \in 0 .. i + 1 /\ 0 % 2 = 0 /\ i + 1 \in Nat /\ RunIs((i + 1) + 1, 0)
        BY <1>0, <4>1
      <4>3. QED
        BY <2>1, <4>2, AlignedAt
    <3>3. QED
      BY <3>1, <3>2
  <2>8. QED
    BY <1>0, <2>1, <2>3, <2>4, <2>6, <2>7 DEF ScanInv
<1>4. CASE Build
  <2>1. /\ pc = "batch" /\ pc' = "convert" /\ i' = i /\ counter' = counter /\ result' = result
        /\ query' = [p \in 1 .. Len(widths) * Len(RowText) |-> RowText[((p - 1) % Len(RowText)) + 1]]
    BY <1>4 DEF Build
  <2>2. i = 0 /\ result = <<>>
    BY <1>0, <2>1 DEF ScanInv
  <2>3. query' \in Seq(Chars)
    <3>1. Len(widths) \in Nat
      OBVIOUS
    <3>2. QED
      BY <2>1, <3>1, RowsAreText
  <2>4. Kept(i)' = {} /\ Numbers(i)' = {} /\ Numbers(i) = {}
    BY <2>1, <2>2 DEF Kept, Numbers
  <2>5. ScanIsRight'
    BY <2>1, <2>2, <2>4, FS_EmptySet DEF ScanIsRight
  <2>6. counter' = Cardinality(Numbers(i))'
    BY <1>0, <2>1, <2>4
  <2>7. Aligned'
    <3>1. 0 \in 0 .. i' /\ 0 % 2 = 0 /\ i' = 0
      BY <2>1, <2>2
    <3>2. QED
      BY <3>1 DEF Aligned, RunIs
  <2>8. QED
    BY <1>0, <2>1, <2>2, <2>3, <2>5, <2>6, <2>7 DEF ScanInv
<1>5. CASE NoRows \/ RowsRejected
  <2>1. /\ pc = "batch" /\ pc' \in {"nothing", "rejected"}
        /\ i' = i /\ counter' = counter /\ result' = result /\ query' = query
    BY <1>5 DEF NoRows, RowsRejected
  <2>2. counter' = Cardinality(Numbers(i))'
    BY <1>0, <2>1, SameText
  <2>3. QED
    BY <1>0, <2>1, <2>2 DEF ScanInv, ScanIsRight
<1>6. CASE UNCHANGED vars
  <2>1. /\ pc' = pc /\ i' = i /\ counter' = counter /\ result' = result /\ query' = query
    BY <1>6 DEF vars
  <2>2. /\ Kept(i)' = Kept(i) /\ Numbers(i)' = Numbers(i)
        /\ \A j : Rank(i, j)' = Rank(i, j)
        /\ \A j : Meaning(j)' = Meaning(j)
    BY <2>1, SameText
  <2>3. ScanIsRight'
    BY <2>1, <2>2 DEF ScanIsRight, ScanInv
  <2>4. pc = "convert" => Aligned'
    BY <2>1 DEF Aligned, RunIs, ScanInv
  <2>5. QED
    BY <2>1, <2>2, <2>3, <2>4 DEF ScanInv
<1>7. QED
  BY <1>1, <1>2, <1>3, <1>4, <1>5, <1>6 DEF Next

\* The batch is what it was at first.
BatchInv == columns \in Nat /\ widths \in Seq(Nat)

\* ... a number of columns, and a number of values for each row.
LEMMA BatchInit == Init => BatchInv
<1> SUFFICES ASSUME Init PROVE BatchInv
  OBVIOUS
<1>1. ASSUME NEW n \in 0 .. MaxRows, NEW f \in [1 .. n -> 0 .. MaxColumns + 1] PROVE f \in Seq(Nat)
  <2>1. f \in [1 .. n -> Nat]
    BY BoundsAssumption
  <2>2. QED
    BY <2>1, BoundsAssumption, IsSequence
<1>2. Widths \subseteq Seq(Nat) /\ <<>> \in Seq(Nat)
  BY <1>1 DEF Widths
<1>3. columns \in Nat
  BY BoundsAssumption DEF Init
<1>4. widths \in Seq(Nat)
  BY <1>2 DEF Init
<1>5. QED
  BY <1>3, <1>4 DEF BatchInv

\* No step changes the batch.
LEMMA BatchStep == BatchInv /\ [Next]_vars => BatchInv'
BY DEF BatchInv, Next, vars, batch, NoRows, RowsRejected, Build, Placeholder, Percent, Copy

\* For texts of any length: _to_positional computes, at each step of its scan,
\* what the characters read so far mean.
THEOREM ScanComputesMeaning == Spec => []ScanIsRight
<1>1. ScanInv => ScanIsRight
  BY DEF ScanInv
<1>2. BatchInv /\ ScanInv /\ [Next]_vars => ScanInv'
  BY ScanStep DEF BatchInv
<1>3. QED
  BY BatchInit, BatchStep, ScanInit, <1>1, <1>2, PTL DEF Spec

-----------------------------------------------------------------------------
(***************************************************************************)
(* Batches.                                                                *)
(*                                                                         *)
(* The scan of a batch is at the end of a row or behind some placeholders  *)
(* of a row, and the row and the column say how many characters were read, *)
(* how many placeholders were found, and how long the result is.           *)
(***************************************************************************)

\* Rows that come before another one leave room for themselves.
LEMMA RowsBefore ==
    ASSUME NEW x \in Nat, NEW y \in Nat, NEW w \in Nat, x < y
    PROVE  x * w \in Nat /\ x * w + w <= y * w
<1>1. (y - x - 1) * w >= 0
  OBVIOUS
<1>2. QED
  BY <1>1

\* A number has one quotient and one remainder.
LEMMA Quotient ==
    ASSUME NEW a \in Nat, NEW b \in Nat, NEW w \in Nat, NEW u \in 0 .. w - 1, NEW v \in 0 .. w - 1,
           a * w + u = b * w + v
    PROVE  a = b /\ u = v
<1>1. ASSUME NEW x \in Nat, NEW y \in Nat, x < y
      PROVE  x * w + w <= y * w
  BY <1>1, RowsBefore
<1>2. ~(a < b)
  BY <1>1
<1>3. ~(b < a)
  BY <1>1
<1>4. QED
  BY <1>2, <1>3

\* The place in a row is a remainder.
LEMMA Remainder ==
    ASSUME NEW a \in Nat, NEW w \in Nat, NEW u \in 0 .. w - 1
    PROVE  (a * w + u) % w = u
OBVIOUS

\* Characters of a row in the query and in the result.
RowLength == 2 * columns + 2
RowResult == columns + 2

\* The scan has read the given number of rows.
AtRow(row) ==
    /\ i = row * RowLength
    /\ counter = row * columns
    /\ Len(result) = row * RowResult

\* After that it has read the bracket and c placeholders of the next row.
InRow(row, c) ==
    /\ i = row * RowLength + (1 + 2 * c)
    /\ counter = row * columns + c
    /\ Len(result) = row * RowResult + (1 + c)

\* The placeholders found so far have their numbers.
Placed ==
    \A r \in 1 .. Len(widths), c \in 1 .. columns :
        LET place == (r - 1) * RowResult + (1 + c) IN
        place <= Len(result) => result[place] = Numbered((r - 1) * columns + c)

Built == [p \in 1 .. Len(widths) * Len(RowText) |-> RowText[((p - 1) % Len(RowText)) + 1]]

PlaceInv ==
    pc = "convert" /\ widths # <<>> =>
        /\ RowsFit
        /\ query = Built
        /\ \/ \E row \in 0 .. Len(widths) : AtRow(row)
           \/ \E row \in 0 .. Len(widths) - 1, c \in 0 .. columns : InRow(row, c)
        /\ Placed

\* The characters of the query of a batch, by row and place in the row.
LEMMA BuiltCharacters ==
    ASSUME BatchInv, query = Built
    PROVE  /\ Len(query) = Len(widths) * RowLength
           /\ \A row \in 0 .. Len(widths) - 1, u \in 0 .. RowLength - 1 :
                /\ row * RowLength + u \in 0 .. Len(query) - 1
                /\ query[row * RowLength + u + 1] = RowText[u + 1]
<1>1. columns \in Nat /\ Len(widths) \in Nat /\ RowLength \in Nat
  BY DEF BatchInv, RowLength
<1>2. Len(RowText) = RowLength
  BY <1>1 DEF RowText, RowLength
<1>3. Len(widths) * RowLength \in Nat
  BY <1>1
<1>4. Len(query) = Len(widths) * RowLength
  BY <1>2, <1>3 DEF Built
<1>5. ASSUME NEW row \in 0 .. Len(widths) - 1, NEW u \in 0 .. RowLength - 1
      PROVE  /\ row * RowLength + u \in 0 .. Len(query) - 1
             /\ query[row * RowLength + u + 1] = RowText[u + 1]
  <2>1. row * RowLength \in Nat /\ row * RowLength + RowLength <= Len(widths) * RowLength
    BY <1>1, RowsBefore
  <2>2. row * RowLength + u \in 0 .. Len(query) - 1
    BY <1>1, <1>4, <2>1
  <2>3. (row * RowLength + u) % RowLength = u
    BY <1>1, Remainder
  <2>4. row * RowLength + u + 1 \in 1 .. Len(widths) * Len(RowText)
    BY <1>2, <1>4, <2>1, <2>2
  <2>5. query[row * RowLength + u + 1] =
          RowText[(((row * RowLength + u + 1) - 1) % Len(RowText)) + 1]
    BY <2>4 DEF Built
  <2>6. (row * RowLength + u + 1) - 1 = row * RowLength + u
    BY <2>1
  <2>7. QED
    BY <1>2, <2>2, <2>3, <2>5, <2>6
<1>6. QED
  BY <1>4, <1>5

\* Row and column of a place in the result.
LEMMA SamePlace ==
    ASSUME columns \in Nat, widths \in Seq(Nat)
    PROVE  \A r \in 1 .. Len(widths), c \in 1 .. columns, row \in Nat, u \in 0 .. columns + 1 :
             (r - 1) * RowResult + (1 + c) = row * RowResult + u => r - 1 = row /\ 1 + c = u
<1> SUFFICES ASSUME NEW r \in 1 .. Len(widths), NEW c \in 1 .. columns, NEW row \in Nat,
                    NEW u \in 0 .. columns + 1,
                    (r - 1) * RowResult + (1 + c) = row * RowResult + u
             PROVE  r - 1 = row /\ 1 + c = u
  OBVIOUS
<1>1. PICK a \in Nat : a = r - 1
  OBVIOUS
<1>2. PICK v \in 0 .. columns + 1 : v = 1 + c
  OBVIOUS
<1>3. RowResult \in Nat /\ RowResult - 1 = columns + 1
  BY DEF RowResult
<1>4. a * RowResult + v = row * RowResult + u
  BY <1>1, <1>2
<1>5. a = row /\ v = u
  BY <1>3, <1>4, Quotient
<1>6. QED
  BY <1>1, <1>2, <1>5

\* Appending keeps the placeholders where they are.
LEMMA StillPlaced ==
    ASSUME BatchInv, Placed, NEW T, result \in Seq(T), NEW v \in T, result' = Append(result, v),
           columns' = columns, widths' = widths,
           \A r \in 1 .. Len(widths), c \in 1 .. columns :
              (r - 1) * RowResult + (1 + c) = Len(result) + 1 => v = Numbered((r - 1) * columns + c)
    PROVE  Placed'
<1>1. columns \in Nat /\ Len(widths) \in Nat /\ Len(result) \in Nat
  BY DEF BatchInv
<1>2. Len(result') = Len(result) + 1
  OBVIOUS
<1>3. ASSUME NEW r \in 1 .. Len(widths), NEW c \in 1 .. columns,
             (r - 1) * RowResult + (1 + c) <= Len(result')
      PROVE  result'[(r - 1) * RowResult + (1 + c)] = Numbered((r - 1) * columns + c)
  <2> DEFINE place == (r - 1) * RowResult + (1 + c)
  <2>1. place \in Nat \ {0}
    BY <1>1 DEF RowResult
  <2>2. CASE place <= Len(result)
    <3>1. result[place] = Numbered((r - 1) * columns + c)
      BY <2>2 DEF Placed
    <3>2. result'[place] = result[place]
      BY <1>1, <2>1, <2>2
    <3>3. QED
      BY <3>1, <3>2
  <2>3. CASE place = Len(result) + 1
    <3>1. v = Numbered((r - 1) * columns + c)
      BY <2>3
    <3>2. result'[place] = v
      BY <1>1, <2>3
    <3>3. QED
      BY <3>1, <3>2
  <2>4. QED
    BY <1>1, <1>2, <1>3, <2>1, <2>2, <2>3
<1>4. QED
  BY <1>3 DEF Placed, RowResult

\* At first a batch was not yet built, and a query of the user has no rows.
LEMMA PlaceInit == Init => PlaceInv
BY DEF Init, PlaceInv

\* What a step does in a batch, by the place of the scan.
LEMMA BatchMoves ==
    ASSUME BatchInv, ScanInv, pc = "convert", widths # <<>>, query = Built, Next
    PROVE  /\ \A row \in 0 .. Len(widths) : AtRow(row) =>
                row < Len(widths) /\ Copy
           /\ \A row \in 0 .. Len(widths) - 1, c \in 0 .. columns : InRow(row, c) =>
                IF c < columns THEN Placeholder ELSE Copy
<1>1. columns \in Nat /\ Len(widths) \in Nat /\ RowLength \in Nat /\ i \in Nat
  BY DEF BatchInv, ScanInv, RowLength
<1>2. Placeholder \/ Percent \/ Copy
  BY DEF Next, NoRows, RowsRejected, Build
<1>3. Len(query) \in Nat /\ i < Len(query)
  BY <1>1, <1>2 DEF Placeholder, Percent, Copy, Reads, ScanInv
<1>4. Len(query) = Len(widths) * RowLength
  BY BuiltCharacters
<1>5. \A row \in 0 .. Len(widths) - 1, u \in 0 .. RowLength - 1 :
        /\ row * RowLength + u \in 0 .. Len(query) - 1
        /\ query[row * RowLength + u + 1] = RowText[u + 1]
  BY BuiltCharacters
<1>6. ASSUME NEW row \in 0 .. Len(widths), AtRow(row) PROVE row < Len(widths) /\ Copy
  <2>1. i = row * RowLength
    BY <1>6 DEF AtRow
  <2>2. row < Len(widths)
    BY <1>1, <1>3, <1>4, <2>1
  <2>3. 0 \in 0 .. RowLength - 1 /\ row \in 0 .. Len(widths) - 1 /\ row * RowLength \in Nat
    BY <1>1, <2>2 DEF RowLength
  <2>4. query[row * RowLength + 0 + 1] = RowText[0 + 1]
    BY <1>5, <2>3
  <2>5. RowText[0 + 1] = "x"
    BY <1>1 DEF RowText
  <2>6. query[i + 1] = "x"
    BY <2>1, <2>3, <2>4, <2>5
  <2>7. QED
    BY <1>2, <2>2, <2>6 DEF Placeholder, Percent, Reads
<1>7. ASSUME NEW row \in 0 .. Len(widths) - 1, NEW c \in 0 .. columns, InRow(row, c)
      PROVE  IF c < columns THEN Placeholder ELSE Copy
  <2>1. i = row * RowLength + (1 + 2 * c) /\ row * RowLength \in Nat
    BY <1>1, <1>7 DEF InRow
  <2>2. 1 + 2 * c \in 0 .. RowLength - 1
    BY <1>1 DEF RowLength
  <2>3. query[row * RowLength + (1 + 2 * c) + 1] = RowText[(1 + 2 * c) + 1]
    BY <1>5, <2>2
  <2>4. query[i + 1] = RowText[2 * c + 2]
    BY <1>1, <2>1, <2>3
  <2>5. CASE c < columns
    <3>1. RowText[2 * c + 2] = "%"
      BY <1>1, <2>5 DEF RowText
    <3>2. RowText[2 * c + 3] = "s"
      BY <1>1, <2>5 DEF RowText
    <3>3. 2 + 2 * c \in 0 .. RowLength - 1
      BY <1>1, <2>5 DEF RowLength
    <3>4. /\ row * RowLength + (2 + 2 * c) \in 0 .. Len(query) - 1
          /\ query[row * RowLength + (2 + 2 * c) + 1] = RowText[(2 + 2 * c) + 1]
      BY <1>5, <3>3
    <3>5. i + 1 < Len(query) /\ query[i + 2] = "s"
      BY <1>1, <1>3, <2>1, <3>2, <3>4
    <3>6. query[i + 1] = "%"
      BY <2>4, <3>1
    <3>7. QED
      BY <1>2, <2>5, <3>5, <3>6 DEF Percent, Copy, Reads
  <2>6. CASE ~(c < columns)
    <3>1. RowText[2 * c + 2] = "x"
      BY <1>1, <2>6 DEF RowText
    <3>2. query[i + 1] = "x"
      BY <2>4, <3>1
    <3>3. QED
      BY <1>2, <2>6, <3>2 DEF Placeholder, Percent, Reads
  <2>7. QED
    BY <2>5, <2>6
<1>8. QED
  BY <1>6, <1>7

\* From row to row and from column to column.
LEMMA PlaceStep == BatchInv /\ ScanInv /\ PlaceInv /\ [Next]_vars => PlaceInv'
<1> SUFFICES ASSUME BatchInv, ScanInv, PlaceInv, [Next]_vars, pc' = "convert", widths' # <<>>
             PROVE  /\ RowsFit'
                    /\ (query = Built)'
                    /\ \/ (\E row \in 0 .. Len(widths) : AtRow(row))'
                       \/ (\E row \in 0 .. Len(widths) - 1, c \in 0 .. columns : InRow(row, c))'
                    /\ Placed'
  BY DEF PlaceInv
<1> DEFINE Out == [text : Chars \cup {"$"}, number : Nat]
<1>1. columns' = columns /\ widths' = widths /\ widths # <<>>
  BY DEF Next, vars, batch, NoRows, RowsRejected, Build, Placeholder, Percent, Copy
<1>2. /\ columns \in Nat /\ widths \in Seq(Nat) /\ Len(widths) \in Nat
      /\ RowLength \in Nat /\ RowResult \in Nat
      /\ i \in Nat /\ counter \in Nat /\ result \in Seq(Out) /\ Len(result) \in Nat
  <2>1. i \in Nat /\ result \in Seq(Out) /\ counter = Cardinality(Numbers(i))
    BY DEF ScanInv
  <2>2. counter \in Nat
    BY <2>1, PositionsAreFinite
  <2>3. columns \in Nat /\ widths \in Seq(Nat)
    BY DEF BatchInv
  <2>4. RowLength \in Nat /\ RowResult \in Nat
    BY <2>3 DEF RowLength, RowResult
  <2>5. QED
    BY <2>1, <2>2, <2>3, <2>4
<1>3. RowLength' = RowLength /\ RowResult' = RowResult /\ Built' = Built /\ RowsFit' = RowsFit
  BY <1>1 DEF RowLength, RowResult, Built, RowText, RowsFit
<1>3a. \A r \in 1 .. Len(widths), c \in 1 .. columns, row \in Nat, u \in 0 .. columns + 1 :
        (r - 1) * RowResult + (1 + c) = row * RowResult + u => r - 1 = row /\ 1 + c = u
  BY <1>2, SamePlace
<1>4. CASE pc = "batch"
  <2>1. CASE Build
    <3>1. /\ query' = Built /\ RowsFit /\ i' = i /\ counter' = counter /\ result' = result
      BY <2>1 DEF Build, Built
    <3>2. i = 0 /\ result = <<>> /\ counter = 0
      <4>1. i \in 0 .. Len(query) /\ query = <<>> /\ result = <<>> /\ counter = Cardinality(Numbers(i))
        BY <1>4 DEF ScanInv
      <4>2. i = 0
        BY <4>1
      <4>3. Numbers(0) = {}
        BY DEF Numbers
      <4>4. QED
        BY <4>1, <4>2, <4>3, FS_EmptySet
    <3>3. AtRow(0)'
      BY <1>1, <1>2, <1>3, <3>1, <3>2 DEF AtRow
    <3>4. Placed'
      <4>1. Len(result') = 0
        BY <3>1, <3>2
      <4>2. ASSUME NEW r \in 1 .. Len(widths), NEW c \in 1 .. columns
            PROVE  ~((r - 1) * RowResult + (1 + c) <= Len(result'))
        <5>1. r - 1 \in Nat /\ (r - 1) * RowResult \in Nat
          BY <1>2
        <5>2. QED
          BY <4>1, <5>1
      <4>3. QED
        BY <1>1, <1>3, <4>2 DEF Placed
    <3>5. 0 \in 0 .. Len(widths')
      BY <1>1, <1>2
    <3>6. QED
      BY <1>3, <3>1, <3>3, <3>4, <3>5
  <2>2. QED
    BY <1>4, <2>1 DEF Next, vars, NoRows, RowsRejected, Placeholder, Percent, Copy
<1>5. CASE pc = "convert" /\ Next
  <2>1. RowsFit /\ query = Built /\ Placed
    BY <1>1, <1>5 DEF PlaceInv
  <2>2. query' = query
    BY <1>5 DEF Next, NoRows, RowsRejected, Build, Placeholder, Percent, Copy
  <2>3. RowsFit' /\ (query = Built)'
    BY <1>3, <2>1, <2>2
  <2>4. ASSUME NEW row \in 0 .. Len(widths), AtRow(row)
        PROVE  /\ row \in 0 .. Len(widths) - 1 /\ InRow(row, 0)'
               /\ Placed'
    <3>1. row < Len(widths) /\ Copy
      BY <1>1, <1>5, <2>1, <2>4, BatchMoves
    <3>2. i' = i + 1 /\ counter' = counter /\ result' = Append(result, Literal(query[i + 1]))
      BY <3>1 DEF Copy
    <3>3. /\ i = row * RowLength /\ counter = row * columns /\ Len(result) = row * RowResult
      BY <2>4 DEF AtRow
    <3>4. Literal(query[i + 1]) \in Out
      <4>1. query \in Seq(Chars) /\ i < Len(query)
        BY <3>1 DEF ScanInv, Copy
      <4>2. query[i + 1] \in Chars
        BY <1>2, <4>1
      <4>3. QED
        BY <4>2 DEF Literal
    <3>5. Len(result') = Len(result) + 1
      BY <1>2, <3>2, <3>4
    <3>6. InRow(row, 0)'
      BY <1>1, <1>2, <1>3, <3>2, <3>3, <3>5 DEF InRow
    <3>7. ASSUME NEW r \in 1 .. Len(widths), NEW c \in 1 .. columns,
                 (r - 1) * RowResult + (1 + c) = Len(result) + 1
          PROVE  FALSE
      <4>1. (r - 1) * RowResult + (1 + c) = row * RowResult + 1 /\ 1 \in 0 .. columns + 1
        BY <1>2, <3>3, <3>7
      <4>2. 1 + c = 1
        <5>1. row \in Nat
          BY <1>2
        <5>2. \A u \in 0 .. columns + 1 :
                (r - 1) * RowResult + (1 + c) = row * RowResult + u => r - 1 = row /\ 1 + c = u
          BY <1>3a, <5>1
        <5>3. QED
          BY <4>1, <5>2
      <4>3. QED
        BY <1>2, <4>2
    <3>8. Placed'
      BY <1>1, <1>2, <2>1, <3>2, <3>4, <3>7, StillPlaced
    <3>9. QED
      BY <1>2, <3>1, <3>6, <3>8
  <2>5. ASSUME NEW row \in 0 .. Len(widths) - 1, NEW c0 \in 0 .. columns, InRow(row, c0)
        PROVE  /\ \/ c0 + 1 \in 0 .. columns /\ InRow(row, c0 + 1)'
                  \/ row + 1 \in 0 .. Len(widths) /\ AtRow(row + 1)'
               /\ Placed'
    <3>1. /\ i = row * RowLength + (1 + 2 * c0) /\ counter = row * columns + c0
          /\ Len(result) = row * RowResult + (1 + c0)
      BY <2>5 DEF InRow
    <3>2. IF c0 < columns THEN Placeholder ELSE Copy
      BY <1>1, <1>5, <2>1, <2>5, BatchMoves
    <3>3. CASE c0 < columns
      <4>1. /\ i' = i + 2 /\ counter' = counter + 1
            /\ result' = Append(result, Numbered(counter + 1))
        BY <3>2, <3>3 DEF Placeholder
      <4>2. Numbered(counter + 1) \in Out
        BY <1>2 DEF Numbered
      <4>3. Len(result') = Len(result) + 1
        BY <1>2, <4>1, <4>2
      <4>4. InRow(row, c0 + 1)'
        BY <1>1, <1>2, <1>3, <3>1, <4>1, <4>3 DEF InRow
      <4>5. ASSUME NEW r \in 1 .. Len(widths), NEW c \in 1 .. columns,
                   (r - 1) * RowResult + (1 + c) = Len(result) + 1
            PROVE  Numbered(counter + 1) = Numbered((r - 1) * columns + c)
        <5>1. 2 + c0 \in 0 .. columns + 1
          BY <1>2, <3>3
        <5>2. (r - 1) * RowResult + (1 + c) = row * RowResult + (2 + c0)
          BY <1>2, <3>1, <4>5
        <5>3. r - 1 = row /\ 1 + c = 2 + c0
          <6>1. row \in Nat
            BY <1>2
          <6>2. \A u \in 0 .. columns + 1 :
                  (r - 1) * RowResult + (1 + c) = row * RowResult + u => r - 1 = row /\ 1 + c = u
            BY <1>3a, <6>1
          <6>3. QED
            BY <5>1, <5>2, <6>2
        <5>4. counter + 1 = (r - 1) * columns + c
          BY <1>2, <3>1, <5>3
        <5>5. QED
          BY <5>4
      <4>6. Placed'
        BY <1>1, <1>2, <2>1, <4>1, <4>2, <4>5, StillPlaced
      <4>7. QED
        BY <1>2, <3>3, <4>4, <4>6
    <3>4. CASE ~(c0 < columns)
      <4>1. /\ i' = i + 1 /\ counter' = counter
            /\ result' = Append(result, Literal(query[i + 1]))
        BY <3>2, <3>4 DEF Copy
      <4>2. Literal(query[i + 1]) \in Out
        <5>1. query \in Seq(Chars) /\ i < Len(query)
          BY <3>2, <3>4 DEF ScanInv, Copy
        <5>2. query[i + 1] \in Chars
          BY <1>2, <5>1
        <5>3. QED
          BY <5>2 DEF Literal
      <4>3. Len(result') = Len(result) + 1
        BY <1>2, <4>1, <4>2
      <4>4. c0 = columns
        BY <1>2, <3>4
      <4>5. /\ row * RowLength + RowLength = (row + 1) * RowLength
            /\ row * RowResult + RowResult = (row + 1) * RowResult
            /\ row * columns + columns = (row + 1) * columns
        BY <1>2
      <4>6. /\ i' = (row + 1) * RowLength /\ counter' = (row + 1) * columns
            /\ Len(result') = (row + 1) * RowResult
        BY <1>2, <3>1, <4>1, <4>3, <4>4, <4>5 DEF RowLength, RowResult
      <4>7. AtRow(row + 1)'
        BY <1>1, <1>3, <4>6 DEF AtRow
      <4>8. ASSUME NEW r \in 1 .. Len(widths), NEW c \in 1 .. columns,
                   (r - 1) * RowResult + (1 + c) = Len(result) + 1
            PROVE  FALSE
        <5>1. row + 1 \in Nat /\ 0 \in 0 .. columns + 1
          BY <1>2
        <5>2. (r - 1) * RowResult + (1 + c) = (row + 1) * RowResult + 0
          BY <1>2, <4>1, <4>3, <4>6, <4>8
        <5>3. 1 + c = 0
          <6>1. \A u \in 0 .. columns + 1 :
                  (r - 1) * RowResult + (1 + c) = (row + 1) * RowResult + u => 1 + c = u
            BY <1>3a, <5>1
          <6>2. QED
            BY <5>1, <5>2, <6>1
        <5>4. QED
          BY <1>2, <5>3
      <4>9. Placed'
        BY <1>1, <1>2, <2>1, <4>1, <4>2, <4>8, StillPlaced
      <4>10. QED
        BY <1>2, <4>7, <4>9
    <3>5. QED
      BY <3>3, <3>4
  <2>6. CASE \E row \in 0 .. Len(widths) : AtRow(row)
    <3>1. PICK row \in 0 .. Len(widths) : AtRow(row)
      BY <2>6
    <3>2. row \in 0 .. Len(widths) - 1 /\ InRow(row, 0)' /\ Placed' /\ 0 \in 0 .. columns
      BY <1>2, <2>4, <3>1
    <3>3. (\E q \in 0 .. Len(widths) - 1, c \in 0 .. columns : InRow(q, c))'
      BY <1>1, <3>2
    <3>4. QED
      BY <2>3, <3>2, <3>3
  <2>7. CASE \E row \in 0 .. Len(widths) - 1, c \in 0 .. columns : InRow(row, c)
    <3>1. PICK row \in 0 .. Len(widths) - 1, c \in 0 .. columns : InRow(row, c)
      BY <2>7
    <3>2. /\ \/ c + 1 \in 0 .. columns /\ InRow(row, c + 1)'
             \/ row + 1 \in 0 .. Len(widths) /\ AtRow(row + 1)'
          /\ Placed'
      BY <2>5, <3>1
    <3>3. \/ (\E q \in 0 .. Len(widths) : AtRow(q))'
          \/ (\E q \in 0 .. Len(widths) - 1, d \in 0 .. columns : InRow(q, d))'
      BY <1>1, <3>2
    <3>4. QED
      BY <2>3, <3>2, <3>3
  <2>8. QED
    BY <1>1, <1>5, <2>6, <2>7 DEF PlaceInv
<1>6. CASE UNCHANGED vars
  <2>1. /\ pc' = pc /\ query' = query /\ i' = i /\ counter' = counter /\ result' = result
    BY <1>6 DEF vars
  <2>2. \A row : AtRow(row)' = AtRow(row)
    BY <1>1, <1>3, <2>1 DEF AtRow
  <2>3. \A row, c : InRow(row, c)' = InRow(row, c)
    BY <1>1, <1>3, <2>1 DEF InRow
  <2>4. Placed' = Placed
    BY <1>1, <1>3, <2>1 DEF Placed
  <2>5. QED
    BY <1>1, <1>3, <2>1, <2>2, <2>3, <2>4 DEF PlaceInv
<1>7. QED
  BY <1>4, <1>5, <1>6 DEF ScanInv, Next, NoRows, RowsRejected, Build, Placeholder, Percent, Copy

\* The numbers from 1 to n are n numbers.
LEMMA SizeOfInterval ==
    ASSUME NEW n \in Nat
    PROVE  IsFiniteSet(1 .. n) /\ Cardinality(1 .. n) = n
<1>1. 1 \in Int /\ n \in Int
  OBVIOUS
<1>2. IsFiniteSet(1 .. n) /\ Cardinality(1 .. n) = IF 1 > n THEN 0 ELSE n - 1 + 1
  BY <1>1, FS_Interval
<1>3. QED
  BY <1>2

\* The arguments of a batch whose rows fit.
LEMMA PlacesOfValues ==
    ASSUME BatchInv, RowsFit
    PROVE  /\ Cardinality(Values) = Len(widths) * columns
           /\ \A r \in 1 .. Len(widths), c \in 1 .. columns : Place(<<r, c>>) = (r - 1) * columns + c
<1>1. columns \in Nat /\ Len(widths) \in Nat
  BY DEF BatchInv
<1>2. Values = (1 .. Len(widths)) \X (1 .. columns)
  BY DEF Values, RowsFit
<1>3. /\ IsFiniteSet(1 .. Len(widths)) /\ Cardinality(1 .. Len(widths)) = Len(widths)
      /\ IsFiniteSet(1 .. columns) /\ Cardinality(1 .. columns) = columns
  BY <1>1, SizeOfInterval
<1>4. Cardinality(Values) = Len(widths) * columns
  BY <1>2, <1>3, FS_Product
<1>5. ASSUME NEW r \in 1 .. Len(widths), NEW c \in 1 .. columns
      PROVE  Place(<<r, c>>) = (r - 1) * columns + c
  <2> DEFINE Before == (1 .. r - 1) \X (1 .. columns)
             Row == {r} \X (1 .. c)
  <2>1. {w \in Values : w[1] < r \/ (w[1] = r /\ w[2] <= c)} = Before \cup Row
    <3>1. ASSUME NEW w \in Values
          PROVE  (w[1] < r \/ (w[1] = r /\ w[2] <= c)) <=> w \in Before \cup Row
      <4>1. PICK a \in 1 .. Len(widths), b \in 1 .. columns : w = <<a, b>>
        BY <1>2, <3>1
      <4>2. w[1] = a /\ w[2] = b
        BY <4>1
      <4>3. w \in Before <=> a < r
        BY <1>1, <4>1
      <4>4. w \in Row <=> a = r /\ b <= c
        BY <1>1, <4>1
      <4>5. QED
        BY <4>2, <4>3, <4>4
    <3>2. Before \subseteq Values /\ Row \subseteq Values
      <4>1. 1 .. r - 1 \subseteq 1 .. Len(widths) /\ {r} \subseteq 1 .. Len(widths)
            /\ 1 .. c \subseteq 1 .. columns
        BY <1>1
      <4>2. QED
        BY <1>2, <4>1
    <3>3. QED
      BY <3>1, <3>2
  <2>2. IsFiniteSet(1 .. r - 1) /\ Cardinality(1 .. r - 1) = r - 1
    <3>1. PICK a \in Nat : a = r - 1
      BY <1>1
    <3>2. IsFiniteSet(1 .. a) /\ Cardinality(1 .. a) = a
      BY SizeOfInterval
    <3>3. QED
      BY <3>1, <3>2
  <2>3. IsFiniteSet(1 .. c) /\ Cardinality(1 .. c) = c
    <3>1. PICK b \in Nat : b = c
      BY <1>1
    <3>2. IsFiniteSet(1 .. b) /\ Cardinality(1 .. b) = b
      BY SizeOfInterval
    <3>3. QED
      BY <3>1, <3>2
  <2>4. IsFiniteSet(Before) /\ Cardinality(Before) = (r - 1) * columns
    <3>1. /\ IsFiniteSet(Before)
          /\ Cardinality(Before) = Cardinality(1 .. r - 1) * Cardinality(1 .. columns)
      <4>1. IsFiniteSet(1 .. r - 1) /\ IsFiniteSet(1 .. columns)
        BY <1>3, <2>2
      <4>2. QED
        BY <4>1, FS_Product, Zenon
    <3>2. QED
      BY <1>3, <2>2, <3>1
  <2>5. IsFiniteSet({r}) /\ Cardinality({r}) = 1
    BY FS_Singleton
  <2>6. IsFiniteSet(Row) /\ Cardinality(Row) = 1 * c
    BY <2>3, <2>5, FS_Product
  <2>7. Before \cap Row = {}
    <3>1. r \notin 1 .. r - 1
      BY <1>1
    <3>2. QED
      BY <3>1
  <2>8. Cardinality(Before \cup Row) = Cardinality(Before) + Cardinality(Row) - 0
    <3>1. Cardinality(Before \cap Row) = 0
      BY <2>7, FS_EmptySet
    <3>2. Cardinality(Before \cup Row) =
            Cardinality(Before) + Cardinality(Row) - Cardinality(Before \cap Row)
      BY <2>4, <2>6, FS_Union
    <3>3. QED
      BY <3>1, <3>2
  <2>9. Cardinality(Before \cup Row) = (r - 1) * columns + c
    BY <1>1, <2>4, <2>6, <2>8
  <2>10. QED
    BY <2>1, <2>9 DEF Place
<1>6. QED
  BY <1>4, <1>5

\* For batches of any size: when the scan of a batch is through, each value has
\* a placeholder, and the one in row r and column c has the number of the
\* argument that is value c of row r.
THEOREM BatchesAreBound == Spec => []BatchBindsItsValues
<1>1. BatchInv /\ ScanInv /\ PlaceInv => BatchBindsItsValues
  <2> SUFFICES ASSUME BatchInv, ScanInv, PlaceInv, Converted, widths # <<>>
               PROVE  /\ counter = Cardinality(Values)
                      /\ \A r \in 1 .. Len(widths), c \in 1 .. columns :
                           result[(r - 1) * (columns + 2) + 1 + c] = Numbered(Place(<<r, c>>))
    BY DEF BatchBindsItsValues
  <2>1. /\ columns \in Nat /\ Len(widths) \in Nat /\ RowLength \in Nat /\ RowResult \in Nat
    BY DEF BatchInv, RowLength, RowResult
  <2>2. /\ RowsFit /\ query = Built /\ Placed
        /\ \/ \E row \in 0 .. Len(widths) : AtRow(row)
           \/ \E row \in 0 .. Len(widths) - 1, c \in 0 .. columns : InRow(row, c)
    BY DEF PlaceInv, Converted
  <2>3. i = Len(widths) * RowLength
    BY <2>2, BuiltCharacters DEF Converted
  <2>4. ~ \E row \in 0 .. Len(widths) - 1, c \in 0 .. columns : InRow(row, c)
    <3> SUFFICES ASSUME NEW row \in 0 .. Len(widths) - 1, NEW c \in 0 .. columns, InRow(row, c)
                 PROVE  FALSE
      OBVIOUS
    <3>1. i = row * RowLength + (1 + 2 * c)
      BY DEF InRow
    <3>2. 1 + 2 * c \in 0 .. RowLength - 1 /\ 0 \in 0 .. RowLength - 1 /\ row \in Nat
      BY <2>1 DEF RowLength
    <3>3. row * RowLength + (1 + 2 * c) = Len(widths) * RowLength + 0
      BY <2>1, <2>3, <3>1
    <3>4. 1 + 2 * c = 0
      BY <2>1, <3>2, <3>3, Quotient
    <3>5. QED
      BY <2>1, <3>4
  <2>5. PICK row \in 0 .. Len(widths) : AtRow(row)
    BY <2>2, <2>4
  <2>6. row = Len(widths)
    <3>1. row * RowLength + 0 = Len(widths) * RowLength + 0
      BY <2>1, <2>3, <2>5 DEF AtRow
    <3>2. 0 \in 0 .. RowLength - 1
      BY <2>1 DEF RowLength
    <3>3. QED
      BY <2>1, <3>1, <3>2, Quotient
  <2>7. counter = Len(widths) * columns /\ Len(result) = Len(widths) * RowResult
    BY <2>5, <2>6 DEF AtRow
  <2>8. /\ Cardinality(Values) = Len(widths) * columns
        /\ \A r \in 1 .. Len(widths), c \in 1 .. columns : Place(<<r, c>>) = (r - 1) * columns + c
    BY <2>2, PlacesOfValues
  <2>9. ASSUME NEW r \in 1 .. Len(widths), NEW c \in 1 .. columns
        PROVE  result[(r - 1) * (columns + 2) + 1 + c] = Numbered(Place(<<r, c>>))
    <3>1. (r - 1) * RowResult \in Nat /\ (r - 1) * RowResult + RowResult <= Len(widths) * RowResult
      BY <2>1, RowsBefore
    <3>2. (r - 1) * RowResult + (1 + c) <= Len(result)
      BY <2>1, <2>7, <3>1 DEF RowResult
    <3>3. result[(r - 1) * RowResult + (1 + c)] = Numbered((r - 1) * columns + c)
      BY <2>2, <3>2 DEF Placed
    <3>4. (r - 1) * RowResult + (1 + c) = (r - 1) * (columns + 2) + 1 + c
      BY <2>1, <3>1 DEF RowResult
    <3>5. QED
      BY <2>8, <3>3, <3>4
  <2>10. QED
    BY <2>7, <2>8, <2>9
<1>2. BatchInv /\ ScanInv /\ [Next]_vars => ScanInv'
  BY ScanStep DEF BatchInv
<1>3. QED
  BY BatchInit, BatchStep, ScanInit, <1>2, PlaceInit, PlaceStep, <1>1, PTL DEF Spec
=============================================================================
