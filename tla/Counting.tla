------------------------------ MODULE Counting ------------------------------
(***************************************************************************)
(* How the size of a finite set may change in one step.  The proofs that   *)
(* bound what faults can do count sets: a step adds no element, one, one   *)
(* in exchange for another, or one for each element of a fixed set.        *)
(***************************************************************************)
EXTENDS FiniteSets, Integers, FiniteSetTheorems, TLAPS

\* A set that lost elements, or none, is no larger.
LEMMA NoneMore ==
    ASSUME NEW S, NEW T, IsFiniteSet(S), T \subseteq S
    PROVE  /\ IsFiniteSet(T)
           /\ Cardinality(T) \in Nat /\ Cardinality(S) \in Nat
           /\ Cardinality(T) <= Cardinality(S)
<1>1. T \in SUBSET S
  OBVIOUS
<1>2. QED
  BY <1>1, FS_Subset, FS_CardinalityType

\* A set that gained at most one element is at most one larger.
LEMMA OneMore ==
    ASSUME NEW S, NEW T, NEW x, IsFiniteSet(S), T \subseteq S \cup {x}
    PROVE  /\ IsFiniteSet(T)
           /\ Cardinality(T) \in Nat /\ Cardinality(S) \in Nat
           /\ Cardinality(T) <= Cardinality(S) + 1
<1>1. /\ IsFiniteSet(S \cup {x})
      /\ Cardinality(S) \in Nat
      /\ Cardinality(S \cup {x}) = Cardinality(S) \/ Cardinality(S \cup {x}) = Cardinality(S) + 1
  BY FS_AddElement, FS_CardinalityType
<1>2. /\ IsFiniteSet(T)
      /\ Cardinality(T) \in Nat
      /\ Cardinality(T) <= Cardinality(S \cup {x})
  BY <1>1, NoneMore
<1>3. QED
  BY <1>1, <1>2

\* A set that lost an element is at least one smaller.
LEMMA OneLess ==
    ASSUME NEW S, NEW T, NEW a \in S, IsFiniteSet(S), T \subseteq S \ {a}
    PROVE  /\ IsFiniteSet(T)
           /\ Cardinality(T) \in Nat /\ Cardinality(S) \in Nat
           /\ Cardinality(T) <= Cardinality(S) - 1
<1>1. /\ IsFiniteSet(S \ {a})
      /\ Cardinality(S) \in Nat
      /\ Cardinality(S \ {a}) = Cardinality(S) - 1
  BY FS_RemoveElement, FS_CardinalityType
<1>2. QED
  BY <1>1, NoneMore

\* A set that gained one element for some elements of D is at most as much
\* larger as D is large.
LEMMA OneForEach ==
    ASSUME NEW S, NEW T, NEW D, NEW f, IsFiniteSet(S), IsFiniteSet(D),
           T \subseteq S \cup {f[d] : d \in D}
    PROVE  /\ IsFiniteSet(T)
           /\ Cardinality(T) \in Nat /\ Cardinality(S) \in Nat /\ Cardinality(D) \in Nat
           /\ Cardinality(T) <= Cardinality(S) + Cardinality(D)
<1> DEFINE F == {f[d] : d \in D}
           g == [d \in D |-> f[d]]
<1>1. g \in Surjection(D, F)
  BY DEF Surjection
<1>2. /\ IsFiniteSet(F)
      /\ Cardinality(F) <= Cardinality(D)
  BY <1>1, FS_Surjection
<1>3. /\ IsFiniteSet(S \cup F)
      /\ Cardinality(S \cup F) = Cardinality(S) + Cardinality(F) - Cardinality(S \cap F)
  BY <1>2, FS_Union
<1>4. IsFiniteSet(S \cap F)
  BY FS_Intersection
<1>5. /\ Cardinality(S) \in Nat /\ Cardinality(D) \in Nat /\ Cardinality(F) \in Nat
      /\ Cardinality(S \cap F) \in Nat
  BY <1>2, <1>4, FS_CardinalityType
<1>6. /\ IsFiniteSet(T)
      /\ Cardinality(T) \in Nat
      /\ Cardinality(T) <= Cardinality(S \cup F)
  BY <1>3, NoneMore
<1>7. QED
  BY <1>2, <1>3, <1>5, <1>6
=============================================================================
