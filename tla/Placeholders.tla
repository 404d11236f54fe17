---------------------------- MODULE Placeholders ----------------------------
(***************************************************************************)
(* The text of a statement on its way to PostgreSQL: insert_batch builds   *)
(* one multi-row INSERT, and _to_positional turns its %s into $1, $2, ...  *)
(* in one pass (src/src/db/database.py).  Both are compared with what they *)
(* are to compute.                                                         *)
(***************************************************************************)
EXTENDS Integers, Sequences, FiniteSets

CONSTANTS
    MaxLength,   \* length of the longest query
    MaxColumns,  \* most columns of a batch, and one less than its widest row
    MaxRows      \* most rows of a batch

ASSUME BoundsAssumption ==
    MaxLength \in Nat /\ MaxColumns \in Nat /\ MaxRows \in Nat

\* "x" is any character but the two that matter.
Chars == {"%", "s", "x"}

VARIABLES
    pc,
    columns,  \* insert_batch: how many columns are named
    widths,   \* insert_batch: how many values each row has
    query,    \* the text with %s
    i,        \* characters of it that were read
    counter,  \* placeholders found
    result    \* the text with $1, $2, ...

batch == <<columns, widths>>
vars == <<pc, batch, query, i, counter, result>>

Texts == UNION {[1 .. n -> Chars] : n \in 0 .. MaxLength}
Widths == UNION {[1 .. n -> 0 .. MaxColumns + 1] : n \in 0 .. MaxRows}

Literal(c) == [text |-> c, number |-> 0]
Numbered(n) == [text |-> "$", number |-> n]

\* A query of the user, or a call of insert_batch.
Init ==
    /\ \/ pc = "convert" /\ query \in Texts /\ columns = 0 /\ widths = <<>>
       \/ pc = "batch" /\ query = <<>> /\ columns \in 0 .. MaxColumns /\ widths \in Widths
    /\ i = 0
    /\ counter = 0
    /\ result = <<>>

-----------------------------------------------------------------------------
(***************************************************************************)
(* insert_batch                                                            *)
(***************************************************************************)

\* The text of one row: a pair of brackets around %s, %s, ...
RowText ==
    [p \in 1 .. 2 * columns + 2 |->
        IF p \in {1, 2 * columns + 2} THEN "x" ELSE IF p % 2 = 0 THEN "%" ELSE "s"]

\* The values of the rows: value c of row r is <<r, c>>.
Values == UNION {{<<r, c>> : c \in 1 .. widths[r]} : r \in 1 .. Len(widths)}

\* flat_args lists them row by row: the place of v among the arguments.
Place(v) == Cardinality({w \in Values : w[1] < v[1] \/ (w[1] = v[1] /\ w[2] <= v[2])})

\* Mutant of RowsFit: only the number of values is compared.
RowsFitInTotal == Cardinality(Values) = columns * Len(widths)

RowsFit == \A r \in 1 .. Len(widths) : widths[r] = columns

NoRows ==
    /\ pc = "batch"
    /\ widths = <<>>
    /\ pc' = "nothing"
    /\ UNCHANGED <<batch, query, i, counter, result>>

\* ValueError: a row has more or fewer values than there are columns.
RowsRejected ==
    /\ pc = "batch"
    /\ ~RowsFit
    /\ pc' = "rejected"
    /\ UNCHANGED <<batch, query, i, counter, result>>

Build ==
    /\ pc = "batch"
    /\ widths # <<>>
    /\ RowsFit
    /\ query' = [p \in 1 .. Len(widths) * Len(RowText) |-> RowText[((p - 1) % Len(RowText)) + 1]]
    /\ pc' = "convert"
    /\ UNCHANGED <<batch, i, counter, result>>

-----------------------------------------------------------------------------
(***************************************************************************)
(* _to_positional                                                          *)
(***************************************************************************)

\* The next two characters are a percent sign and c.
Reads(c) == i + 1 < Len(query) /\ query[i + 1] = "%" /\ query[i + 2] = c

Placeholder ==
    /\ pc = "convert"
    /\ Reads("s")
    /\ counter' = counter + 1
    /\ result' = Append(result, Numbered(counter + 1))
    /\ i' = i + 2
    /\ UNCHANGED <<pc, batch, query>>

\* Mutant of Percent: the second percent sign is read again.
PercentReadAgain ==
    /\ pc = "convert"
    /\ Reads("%")
    /\ result' = Append(result, Literal("%"))
    /\ i' = i + 1
    /\ UNCHANGED <<pc, batch, query, counter>>

Percent ==
    /\ pc = "convert"
    /\ Reads("%")
    /\ result' = Append(result, Literal("%"))
    /\ i' = i + 2
    /\ UNCHANGED <<pc, batch, query, counter>>

Copy ==
    /\ pc = "convert"
    /\ i < Len(query)
    /\ ~Reads("s")
    /\ ~Reads("%")
    /\ result' = Append(result, Literal(query[i + 1]))
    /\ i' = i + 1
    /\ UNCHANGED <<pc, batch, query, counter>>

Next == NoRows \/ RowsRejected \/ Build \/ Placeholder \/ Percent \/ Copy

Spec == Init /\ [][Next]_vars

Converted == pc = "convert" /\ i = Len(query)

-----------------------------------------------------------------------------
(***************************************************************************)
(* What the query means, without reading it from left to right: of a run   *)
(* of percent signs every second one is escaped by the one before it, and  *)
(* so is the s behind a run of odd length.                                 *)
(***************************************************************************)

\* How many percent signs stand immediately before position j.
Run(j) ==
    CHOOSE n \in 0 .. j - 1 :
        /\ \A k \in j - n .. j - 1 : query[k] = "%"
        /\ n < j - 1 => query[j - n - 1] # "%"

Escaped(j) == query[j] \in {"%", "s"} /\ Run(j) % 2 = 1

\* The first n characters leave one in the result each, except those that escape
\* another of them.
Kept(n) == {j \in 1 .. n : ~(j < n /\ Escaped(j + 1))}

\* Where in the result of the first n characters the one at j is.
Rank(n, j) == Cardinality({k \in Kept(n) : k <= j})

Numbers(j) == {k \in 1 .. j : query[k] = "s" /\ Escaped(k)}

Meaning(j) ==
    IF query[j] = "s" /\ Escaped(j) THEN Numbered(Cardinality(Numbers(j))) ELSE Literal(query[j])

-----------------------------------------------------------------------------
(***************************************************************************)
(* Properties                                                              *)
(***************************************************************************)

\* After each step of the scan the result is what the part read so far means:
\* %% is a percent sign, %s a placeholder with the next number, and everything
\* else stays, also in %%s, %%%s and a percent sign at the end.
ScanIsRight ==
    pc = "convert" =>
        /\ Len(result) = Cardinality(Kept(i))
        /\ \A j \in Kept(i) : result[Rank(i, j)] = Meaning(j)

\* In a batch, the placeholder that stands in row r and column c has the number
\* of the argument that is value c of row r, and every value has a placeholder:
\* no ragged batch shifts the values of a row into the next one.
BatchBindsItsValues ==
    Converted /\ widths # <<>> =>
        /\ counter = Cardinality(Values)
        /\ \A r \in 1 .. Len(widths), c \in 1 .. columns :
             result[(r - 1) * (columns + 2) + 1 + c] = Numbered(Place(<<r, c>>))
=============================================================================
