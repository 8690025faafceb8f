------------------------------ MODULE Recursion ------------------------------
(***************************************************************************)
(* When a function defined by recursion is what its definition says.  TLA+ *)
(* takes f[s \in S] == Body(f, s) for some function that satisfies the     *)
(* equation, if there is one; there is, if Body(f, s) asks f only of       *)
(* elements that rank below s.  The parameters are constants of the module *)
(* and not of the theorem, so that an instance can be cited where a        *)
(* theorem about an operator could not be.                                 *)
(***************************************************************************)
EXTENDS Integers, TLAPS, WellFoundedInduction

CONSTANTS S, Rank(_), Body(_, _)

Ranked == \A s \in S : Rank(s) \in Nat

(* The value at s depends on the values below it and on no others.         *)
FromBelow ==
    \A s \in S : \A g, h :
        (\A r \in S : Rank(r) < Rank(s) => g[r] = h[r]) => Body(g, s) = Body(h, s)

SatisfiesTo(g, n) == \A s \in S : Rank(s) < n => g[s] = Body(g, s)

-----------------------------------------------------------------------------
(* A set of numbers that is not empty has a least.                         *)
LEMMA LeastNatural ==
    ASSUME NEW T, T \subseteq Nat, T # {}
    PROVE  \E n \in T : \A m \in T : n <= m
<1> DEFINE R == {p \in Nat \X Nat : p[1] < p[2]}
<1>1. IsWellFoundedOn(R, Nat)
    BY NatLessThanWellFounded DEF OpToRel
<1>2. ASSUME NEW m \in T, NEW n \in T, <<m, n>> \notin R
      PROVE  n <= m
    BY <1>2
<1> HIDE DEF R
<1>3. PICK n \in T : \A m \in T : <<m, n>> \notin R
    BY <1>1, WFMin
<1>. QED  BY <1>2, <1>3

(* Induction, as a statement about a set.                                  *)
LEMMA Induction ==
    ASSUME NEW T, 0 \in T, \A n \in Nat : n \in T => n + 1 \in T
    PROVE  Nat \subseteq T
<1>. SUFFICES ASSUME Nat \ T # {} PROVE FALSE
    OBVIOUS
<1>1. PICK n \in Nat \ T : \A m \in Nat \ T : n <= m
    BY LeastNatural
<1>. QED  BY <1>1

(* Two functions that satisfy the equation up to a rank agree up to it.    *)
LEMMA Agree ==
    ASSUME Ranked, FromBelow, NEW g, NEW h, NEW n \in Nat,
           SatisfiesTo(g, n), SatisfiesTo(h, n)
    PROVE  \A s \in S : Rank(s) < n => g[s] = h[s]
<1> DEFINE T == {Rank(s) : s \in {r \in S : Rank(r) < n /\ g[r] # h[r]}}
<1>. SUFFICES ASSUME T # {} PROVE FALSE
    OBVIOUS
<1>1. T \subseteq Nat
    BY DEF Ranked
<1>2. PICK m \in T : \A k \in T : m <= k
    BY <1>1, LeastNatural
<1>3. PICK s \in S : Rank(s) = m /\ Rank(s) < n /\ g[s] # h[s]
    BY <1>2
<1>4. \A r \in S : Rank(r) < Rank(s) => g[r] = h[r]
    BY <1>2, <1>3 DEF Ranked
<1>5. Body(g, s) = Body(h, s)
    BY <1>4 DEF FromBelow
<1>. QED  BY <1>3, <1>5 DEF SatisfiesTo

(* Up to every rank there is a function that satisfies the equation.       *)
LEMMA Approximated ==
    ASSUME Ranked, FromBelow
    PROVE  \A n \in Nat : \E g : SatisfiesTo(g, n)
<1> DEFINE T == {n \in Nat : \E g : SatisfiesTo(g, n)}
<1>1. 0 \in T
    BY DEF SatisfiesTo, Ranked
<1>2. ASSUME NEW n \in Nat, n \in T
      PROVE  n + 1 \in T
    <2>1. PICK g : SatisfiesTo(g, n)
        BY <1>2
    <2> DEFINE h == [s \in S |-> IF Rank(s) < n THEN g[s] ELSE Body(g, s)]
    <2>2. ASSUME NEW s \in S, Rank(s) < n + 1
          PROVE  h[s] = Body(h, s)
        <3>1. \A r \in S : Rank(r) < Rank(s) => g[r] = h[r]
            BY <2>2 DEF Ranked
        <3>2. Body(g, s) = Body(h, s)
            BY <3>1 DEF FromBelow
        <3>3. h[s] = Body(g, s)
            BY <2>1 DEF SatisfiesTo
        <3>. QED  BY <3>2, <3>3
    <2>. HIDE DEF h
    <2>3. SatisfiesTo(h, n + 1)
        BY <2>2 DEF SatisfiesTo
    <2>. QED  BY <2>3
<1>. HIDE DEF T
<1>3. Nat \subseteq T
    BY <1>1, <1>2, Induction
<1>. QED  BY <1>3 DEF T

(* There is a function that satisfies the equation everywhere: at each     *)
(* element it has the value of one that satisfies it up to there.          *)
THEOREM Defined ==
    Ranked /\ FromBelow => \E f : f = [s \in S |-> Body(f, s)]
<1>. SUFFICES ASSUME Ranked, FromBelow
              PROVE  \E f : f = [s \in S |-> Body(f, s)]
    OBVIOUS
<1> DEFINE G(n) == CHOOSE g : SatisfiesTo(g, n)
<1>1. \A n \in Nat : SatisfiesTo(G(n), n)
    BY Approximated
<1>. HIDE DEF G
<1> DEFINE f == [s \in S |-> G(Rank(s) + 1)[s]]
<1>2. ASSUME NEW s \in S
      PROVE  f[s] = Body(f, s)
    <2>1. /\ Rank(s) \in Nat
          /\ SatisfiesTo(G(Rank(s) + 1), Rank(s) + 1)
        BY <1>1 DEF Ranked
    <2>2. G(Rank(s) + 1)[s] = Body(G(Rank(s) + 1), s)
        BY <2>1 DEF SatisfiesTo
    <2>3. ASSUME NEW r \in S, Rank(r) < Rank(s)
          PROVE  G(Rank(s) + 1)[r] = f[r]
        <3>1. Rank(r) \in Nat /\ SatisfiesTo(G(Rank(r) + 1), Rank(r) + 1)
            BY <1>1 DEF Ranked
        <3>2. SatisfiesTo(G(Rank(s) + 1), Rank(r) + 1)
            BY <2>1, <2>3, <3>1 DEF SatisfiesTo, Ranked
        <3>3. G(Rank(s) + 1)[r] = G(Rank(r) + 1)[r]
            BY <3>1, <3>2, Agree
        <3>. QED  BY <3>3
    <2>4. Body(G(Rank(s) + 1), s) = Body(f, s)
        <3>. HIDE DEF f
        <3>. QED  BY <2>3 DEF FromBelow
    <2>. QED  BY <2>2, <2>4
<1>3. f = [s \in S |-> f[s]]
    OBVIOUS
<1>. HIDE DEF f
<1>4. f = [s \in S |-> Body(f, s)]
    BY <1>2, <1>3
<1>. QED  BY <1>4
=============================================================================
