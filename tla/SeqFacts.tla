------------------------------ MODULE SeqFacts -------------------------------
(***************************************************************************)
(* Facts about sequences that the proofs of several components rest on:    *)
(* concatenation element by element, and FlattenSeq, which the community   *)
(* modules define by a recursive function.  That such a function exists is *)
(* proved with NatSetInduction: induction over the elements of a set of    *)
(* numbers, from the least number outside it.                              *)
(***************************************************************************)
EXTENDS Naturals, Sequences, SequencesExt, SequenceTheorems, WellFoundedInduction, TLAPS

(* A set of numbers that is not empty has a least element. *)
LEMMA Least ==
  ASSUME NEW T \in SUBSET Nat, T # {}
  PROVE  \E x \in T : \A y \in T : x <= y
<1> DEFINE R == OpToRel(<, Nat)
<1>1. IsWellFoundedOn(R, Nat)
  BY NatLessThanWellFounded, Zenon
<1>2. \A x, y \in Nat : y < x => <<y, x>> \in R
  BY DEF OpToRel
<1> HIDE DEF R
<1>3. PICK x \in T : \A y \in T : ~ (<<y, x>> \in R)
  BY <1>1, WFMin
<1>4. \A y \in T : ~ (y < x)
  BY <1>2, <1>3
<1>5. \A y \in T : x <= y
  <2> SUFFICES ASSUME NEW y \in T PROVE x <= y
    OBVIOUS
  <2>1. x \in Nat /\ y \in Nat /\ ~ (y < x)
    BY <1>4
  <2>2. QED
    BY <2>1
<1>6. QED
  BY <1>5

(* A set that holds 0, and n + 1 whenever it holds n, holds every number. *)
LEMMA NatSetInduction ==
  ASSUME NEW T, 0 \in T, \A n \in Nat : n \in T => n + 1 \in T
  PROVE  \A n \in Nat : n \in T
<1> SUFFICES ASSUME Nat \ T # {} PROVE FALSE
  OBVIOUS
<1>1. PICK x \in Nat \ T : \A y \in Nat \ T : x <= y
  <2>1. Nat \ T \in SUBSET Nat
    OBVIOUS
  <2>2. QED
    BY <2>1, Least
<1>2. x # 0 /\ x - 1 \in Nat
  BY <1>1
<1>3. x - 1 \in T
  BY <1>1, <1>2
<1>4. (x - 1) + 1 \in T
  BY <1>2, <1>3
<1>5. QED
  BY <1>1, <1>4

(* Two sequences of one element. *)
LEMMA TwoElements ==
  ASSUME NEW S, NEW a \in S, NEW b \in S
  PROVE  <<a>> \o <<b>> = <<a, b>>
<1>1. <<a>> \o <<b>> \in Seq(S) /\ Len(<<a>> \o <<b>>) = 2
  OBVIOUS
<1>2. <<a, b>> \in Seq(S) /\ Len(<<a, b>>) = 2
  OBVIOUS
<1>3. \A i \in 1 .. 2 : (<<a>> \o <<b>>)[i] = <<a, b>>[i]
  OBVIOUS
<1>4. QED
  BY <1>1, <1>2, <1>3, SeqEqual

(* u is x and then t; u is s and then x.                                    *)
Begins(u, x, t) == Len(u) = Len(t) + 1 /\ u[1] = x /\ \A k \in 1 .. Len(t) : u[k + 1] = t[k]
Ends(u, s, x) == Len(u) = Len(s) + 1 /\ u[Len(s) + 1] = x /\ \A k \in 1 .. Len(s) : u[k] = s[k]

(* An element before a sequence. *)
LEMMA ConsElements ==
  ASSUME NEW S, NEW x \in S, NEW t \in Seq(S)
  PROVE  <<x>> \o t \in Seq(S) /\ Begins(<<x>> \o t, x, t)
<1>1. <<x>> \o t \in Seq(S) /\ Len(<<x>> \o t) = Len(t) + 1
  OBVIOUS
<1>2. (<<x>> \o t)[1] = x
  OBVIOUS
<1>3. \A k \in 1 .. Len(t) : (<<x>> \o t)[k + 1] = t[k]
  OBVIOUS
<1>4. QED
  BY <1>1, <1>2, <1>3, Zenon DEF Begins

(* An element after a sequence. *)
LEMMA LastElement ==
  ASSUME NEW S, NEW s \in Seq(S), NEW x \in S
  PROVE  s \o <<x>> \in Seq(S) /\ Ends(s \o <<x>>, s, x)
<1>1. s \o <<x>> \in Seq(S) /\ Len(s \o <<x>>) = Len(s) + 1
  OBVIOUS
<1>2. (s \o <<x>>)[Len(s) + 1] = x
  OBVIOUS
<1>3. \A k \in 1 .. Len(s) : (s \o <<x>>)[k] = s[k]
  OBVIOUS
<1>4. QED
  BY <1>1, <1>2, <1>3, Zenon DEF Ends

(* An element appended to a sequence. *)
LEMMA AppendElement ==
  ASSUME NEW S, NEW s \in Seq(S), NEW x \in S
  PROVE  Append(s, x) \in Seq(S) /\ Ends(Append(s, x), s, x)
  BY AppendProperties DEF Ends

(* f is what FlattenSeq builds from seqs, prefix by prefix.                 *)
Flattening(f, seqs) ==
  f = [i \in 1 .. Len(seqs) |-> IF i = 1 THEN seqs[i] ELSE f[i - 1] \o seqs[i]]

(* What a flattening is, one step after the other. *)
LEMMA FlatteningSteps ==
  ASSUME NEW f, NEW S, NEW seqs \in Seq(Seq(S)), Len(seqs) > 0, Flattening(f, seqs)
  PROVE  /\ f[1] = seqs[1]
         /\ \A i \in 1 .. Len(seqs) - 1 : f[i + 1] = f[i] \o seqs[i + 1]
         /\ \A i \in 1 .. Len(seqs) : f[i] \in Seq(S)
<1>0. \A i \in 1 .. Len(seqs) : seqs[i] \in Seq(S)
  OBVIOUS
<1>1. f[1] = seqs[1]
  BY DEF Flattening
<1>2. \A i \in 1 .. Len(seqs) - 1 : f[i + 1] = f[i] \o seqs[i + 1]
  <2> SUFFICES ASSUME NEW i \in 1 .. Len(seqs) - 1
               PROVE  f[i + 1] = f[i] \o seqs[i + 1]
    OBVIOUS
  <2>1. i + 1 \in 1 .. Len(seqs) /\ i + 1 # 1 /\ (i + 1) - 1 = i
    OBVIOUS
  <2>2. f[i + 1] = IF i + 1 = 1 THEN seqs[i + 1] ELSE f[(i + 1) - 1] \o seqs[i + 1]
    BY <2>1 DEF Flattening
  <2>3. QED
    BY <2>1, <2>2
<1>3. \A n \in Nat : n + 1 <= Len(seqs) => f[n + 1] \in Seq(S)
  <2> DEFINE T == {n \in Nat : n + 1 <= Len(seqs) => f[n + 1] \in Seq(S)}
  <2>1. 0 \in T
    BY <1>0, <1>1
  <2>2. ASSUME NEW n \in Nat, n \in T PROVE n + 1 \in T
    <3> SUFFICES ASSUME (n + 1) + 1 <= Len(seqs) PROVE f[(n + 1) + 1] \in Seq(S)
      OBVIOUS
    <3>1. f[n + 1] \in Seq(S)
      BY <2>2
    <3>2. n + 1 \in 1 .. Len(seqs) - 1 /\ (n + 1) + 1 \in 1 .. Len(seqs)
      OBVIOUS
    <3>3. f[(n + 1) + 1] = f[n + 1] \o seqs[(n + 1) + 1]
      BY <1>2, <3>2
    <3>4. QED
      BY <1>0, <3>1, <3>2, <3>3
  <2>3. \A n \in Nat : n \in T
    <3> HIDE DEF T
    <3>1. QED
      BY <2>1, <2>2, NatSetInduction
  <2>4. QED
    BY <2>3
<1>4. ASSUME NEW i \in 1 .. Len(seqs) PROVE f[i] \in Seq(S)
  <2>1. i - 1 \in Nat /\ (i - 1) + 1 = i /\ (i - 1) + 1 <= Len(seqs)
    OBVIOUS
  <2>2. f[(i - 1) + 1] \in Seq(S)
    BY <1>3, <2>1
  <2>3. QED
    BY <2>1, <2>2
<1>5. QED
  BY <1>1, <1>2, <1>4

(* Every sequence of sequences has a flattening. *)
LEMMA FlatteningExists ==
  ASSUME NEW S, NEW seqs \in Seq(Seq(S))
  PROVE  \E f : Flattening(f, seqs)
<1> DEFINE Good(m, f) == /\ f = [i \in 1 .. m |-> f[i]]
                         /\ m > 0 => f[1] = seqs[1]
                         /\ \A i \in 1 .. m : i # 1 => f[i] = f[i - 1] \o seqs[i]
           T == {m \in Nat : \E f : Good(m, f)}
<1>a. \A m \in Nat : m \in T <=> \E f : Good(m, f)
  <2> HIDE DEF Good
  <2>1. QED
    OBVIOUS
<1>1. 0 \in T
  <2>1. Good(0, [i \in 1 .. 0 |-> <<>>])
    OBVIOUS
  <2>2. QED
    BY <1>a, <2>1
<1>2. ASSUME NEW m \in Nat, m \in T
      PROVE  m + 1 \in T
  <2>1. PICK f : Good(m, f)
    BY <1>2, <1>a
  <2> DEFINE new == IF m = 0 THEN seqs[1] ELSE f[m] \o seqs[m + 1]
             g == [i \in 1 .. m + 1 |-> IF i <= m THEN f[i] ELSE new]
  <2> HIDE DEF new
  <2>2. \A i \in 1 .. m : g[i] = f[i]
    OBVIOUS
  <2>3. g[m + 1] = new
    OBVIOUS
  <2>4. g = [i \in 1 .. m + 1 |-> g[i]]
    OBVIOUS
  <2> HIDE DEF g
  <2>5. g[1] = seqs[1]
    <3>1. CASE m = 0
      BY <2>3, <3>1 DEF new
    <3>2. CASE m > 0
      <4>1. 1 \in 1 .. m /\ f[1] = seqs[1]
        BY <2>1, <3>2
      <4>2. QED
        BY <2>2, <4>1
    <3>3. QED
      BY <3>1, <3>2
  <2>6. ASSUME NEW i \in 1 .. m + 1, i # 1
        PROVE  g[i] = g[i - 1] \o seqs[i]
    <3>0. i - 1 \in 1 .. m /\ (i <= m \/ i = m + 1)
      BY <2>6
    <3>1. CASE i <= m
      <4>1. i \in 1 .. m
        BY <3>1
      <4>2. f[i] = f[i - 1] \o seqs[i]
        BY <2>1, <2>6, <4>1
      <4>3. g[i] = f[i] /\ g[i - 1] = f[i - 1]
        BY <2>2, <3>0, <4>1
      <4>4. QED
        BY <4>2, <4>3
    <3>2. CASE i = m + 1
      <4>1. i - 1 = m /\ m # 0
        BY <2>6, <3>2
      <4>2. g[i] = f[m] \o seqs[i]
        BY <2>3, <3>2, <4>1 DEF new
      <4>3. g[i - 1] = f[m]
        BY <2>2, <3>0, <4>1
      <4>4. QED
        BY <4>2, <4>3
    <3>3. QED
      BY <3>0, <3>1, <3>2, Zenon
  <2>7. Good(m + 1, g)
    BY <2>4, <2>5, <2>6
  <2> HIDE DEF Good
  <2>8. QED
    BY <1>a, <2>7
<1>3. Len(seqs) \in T
  <2> HIDE DEF T
  <2>1. \A n \in Nat : n \in T
    BY <1>1, <1>2, NatSetInduction, Zenon
  <2>2. Len(seqs) \in Nat
    OBVIOUS
  <2>3. QED
    BY <2>1, <2>2
<1>4. PICK f : Good(Len(seqs), f)
  BY <1>a, <1>3
<1>5. ASSUME NEW i \in 1 .. Len(seqs)
      PROVE  f[i] = IF i = 1 THEN seqs[i] ELSE f[i - 1] \o seqs[i]
  <2>1. f[1] = seqs[1]
    <3>1. Len(seqs) > 0
      OBVIOUS
    <3>2. QED
      BY <1>4, <3>1, Zenon
  <2>2. i # 1 => f[i] = f[i - 1] \o seqs[i]
    BY <1>4, Zenon
  <2>3. QED
    BY <2>1, <2>2, Zenon
<1>6. Flattening(f, seqs)
  BY <1>4, <1>5 DEF Flattening
<1>7. QED
  BY <1>6

(* FlattenSeq is the last element of a flattening. *)
LEMMA FlattenRec ==
  ASSUME NEW S, NEW seqs \in Seq(Seq(S)), Len(seqs) > 0
  PROVE  \E f : Flattening(f, seqs) /\ FlattenSeq(seqs) = f[Len(seqs)]
<1> DEFINE F == CHOOSE f : Flattening(f, seqs)
<1>1. Flattening(F, seqs)
  BY FlatteningExists
<1>2. FlattenSeq(seqs) = F[Len(seqs)]
  BY DEF FlattenSeq, Flattening
<1>3. QED
  BY <1>1, <1>2

(* Flattening sequences over S gives a sequence over S. *)
LEMMA FlattenType ==
  ASSUME NEW S, NEW seqs \in Seq(Seq(S))
  PROVE  FlattenSeq(seqs) \in Seq(S)
<1>1. CASE Len(seqs) = 0
  BY <1>1 DEF FlattenSeq
<1>2. CASE Len(seqs) > 0
  <2>1. PICK f : Flattening(f, seqs) /\ FlattenSeq(seqs) = f[Len(seqs)]
    BY <1>2, FlattenRec
  <2>2. \A i \in 1 .. Len(seqs) : f[i] \in Seq(S)
    BY <1>2, <2>1, FlatteningSteps
  <2>3. QED
    BY <1>2, <2>1, <2>2
<1>3. QED
  BY <1>1, <1>2

(* Nothing flattened is nothing. *)
LEMMA FlattenEmpty == FlattenSeq(<<>>) = <<>>
  BY DEF FlattenSeq

(* Sequences f and g agree in their first n elements. *)
Agree(f, g, n) == \A i \in 1 .. n : f[i] = g[i]

(* Flattenings of sequences that begin alike begin alike. *)
LEMMA FlatteningAgree ==
  ASSUME NEW S, NEW s \in Seq(Seq(S)), NEW t \in Seq(Seq(S)), NEW f, NEW g,
         Flattening(f, s), Flattening(g, t),
         Len(s) > 0, Len(s) <= Len(t), Agree(s, t, Len(s))
  PROVE  Agree(f, g, Len(s))
<1> USE DEF Agree
<1> DEFINE T == {n \in Nat : n + 1 <= Len(s) => f[n + 1] = g[n + 1]}
<1>1. /\ f[1] = s[1]
      /\ \A i \in 1 .. Len(s) - 1 : f[i + 1] = f[i] \o s[i + 1]
  BY FlatteningSteps, ZenonT(60)
<1>2. Len(t) > 0
  OBVIOUS
<1>3. /\ g[1] = t[1]
      /\ \A i \in 1 .. Len(t) - 1 : g[i + 1] = g[i] \o t[i + 1]
  BY <1>2, FlatteningSteps, ZenonT(60)
<1>4. 0 \in T
  BY <1>1, <1>3
<1>5. ASSUME NEW n \in Nat, n \in T PROVE n + 1 \in T
  <2> SUFFICES ASSUME (n + 1) + 1 <= Len(s) PROVE f[(n + 1) + 1] = g[(n + 1) + 1]
    OBVIOUS
  <2>1. n + 1 \in 1 .. Len(s) - 1 /\ n + 1 \in 1 .. Len(t) - 1 /\ (n + 1) + 1 \in 1 .. Len(s)
    OBVIOUS
  <2>2. f[n + 1] = g[n + 1]
    BY <1>5
  <2>3. f[(n + 1) + 1] = f[n + 1] \o s[(n + 1) + 1]
    BY <1>1, <2>1, Zenon
  <2>4. g[(n + 1) + 1] = g[n + 1] \o t[(n + 1) + 1]
    BY <1>3, <2>1, Zenon
  <2>5. s[(n + 1) + 1] = t[(n + 1) + 1]
    BY <2>1, Zenon
  <2>6. QED
    BY <2>2, <2>3, <2>4, <2>5, Zenon
<1>6. \A n \in Nat : n \in T
  <2> HIDE DEF T
  <2>1. QED
    BY <1>4, <1>5, NatSetInduction
<1>7. ASSUME NEW i \in 1 .. Len(s) PROVE f[i] = g[i]
  <2>1. i - 1 \in Nat /\ (i - 1) + 1 = i /\ (i - 1) + 1 <= Len(s)
    OBVIOUS
  <2>2. f[(i - 1) + 1] = g[(i - 1) + 1]
    BY <1>6, <2>1
  <2>3. QED
    BY <2>1, <2>2
<1>8. QED
  BY <1>7

(* A sequence more at the end is joined on at the end. *)
LEMMA FlattenAppend ==
  ASSUME NEW S, NEW seqs \in Seq(Seq(S)), NEW x \in Seq(S)
  PROVE  FlattenSeq(Append(seqs, x)) = FlattenSeq(seqs) \o x
<1> DEFINE n == Len(seqs)
           all == Append(seqs, x)
<1>1. n \in Nat /\ all \in Seq(Seq(S)) /\ Len(all) = n + 1 /\ Len(all) > 0
  OBVIOUS
<1>2. \A i \in 1 .. n : seqs[i] = all[i]
  OBVIOUS
<1>3. all[n + 1] = x
  OBVIOUS
<1> HIDE DEF all
<1>4. PICK f : Flattening(f, all) /\ FlattenSeq(all) = f[Len(all)]
  BY <1>1, FlattenRec, Zenon
<1>5. /\ f[1] = all[1]
      /\ \A i \in 1 .. Len(all) - 1 : f[i + 1] = f[i] \o all[i + 1]
  BY <1>1, <1>4, FlatteningSteps
<1>6. CASE n = 0
  <2>1. FlattenSeq(all) = x
    BY <1>1, <1>3, <1>4, <1>5, <1>6
  <2>2. FlattenSeq(seqs) = <<>>
    BY <1>6 DEF FlattenSeq
  <2>3. QED
    BY <2>1, <2>2 DEF all
<1>7. CASE n > 0
  <2>1. PICK g : Flattening(g, seqs) /\ FlattenSeq(seqs) = g[n]
    BY <1>7, FlattenRec
  <2>2. \A i \in 1 .. n : g[i] = f[i]
    <3>1. Len(seqs) <= Len(all) /\ Flattening(f, all)
      BY <1>1, <1>4
    <3>2. Len(seqs) > 0 /\ Agree(seqs, all, Len(seqs))
      BY <1>2, <1>7 DEF Agree
    <3>3. Agree(g, f, Len(seqs))
      BY <1>1, <2>1, <3>1, <3>2, FlatteningAgree, Zenon
    <3>4. QED
      BY <3>3 DEF Agree
  <2>3. n \in 1 .. Len(all) - 1 /\ n \in 1 .. n
    BY <1>1, <1>7
  <2>4. f[n + 1] = f[n] \o all[n + 1]
    BY <1>5, <2>3, Zenon
  <2>5. QED
    BY <1>1, <1>3, <1>4, <2>1, <2>2, <2>3, <2>4, Zenon DEF all
<1>8. QED
  BY <1>1, <1>6, <1>7 DEF all

(* Joining a, b and c either way gives the same. *)
Assoc(a, b, c) == (a \o b) \o c = a \o (b \o c)

(* It does not matter which of three sequences are joined first. *)
LEMMA ConcatAssoc ==
  ASSUME NEW S, NEW a \in Seq(S), NEW b \in Seq(S), NEW c \in Seq(S)
  PROVE  Assoc(a, b, c)
<1>1. (a \o b) \o c = a \o (b \o c)
  BY ConcatAssociative, Z3
<1>2. QED
  BY <1>1 DEF Assoc

(* An element before a sequence makes it one longer. *)
LEMMA ConsType ==
  ASSUME NEW S, NEW x \in S, NEW t \in Seq(S)
  PROVE  <<x>> \o t \in Seq(S) /\ Len(<<x>> \o t) = Len(t) + 1
  OBVIOUS

(* A sequence more at the front is joined on at the front. *)
LEMMA FlattenCons ==
  ASSUME NEW S, NEW seqs \in Seq(Seq(S)), NEW x \in Seq(S)
  PROVE  FlattenSeq(<<x>> \o seqs) = x \o FlattenSeq(seqs)
<1> DEFINE n == Len(seqs)
           all == <<x>> \o seqs
<1>1. n \in Nat /\ all \in Seq(Seq(S)) /\ Len(all) = n + 1 /\ Len(all) > 0
  OBVIOUS
<1>2. \A i \in 1 .. n : all[i + 1] = seqs[i]
  OBVIOUS
<1>3. all[1] = x
  OBVIOUS
<1> HIDE DEF all
<1>4. PICK f : Flattening(f, all) /\ FlattenSeq(all) = f[Len(all)]
  BY <1>1, FlattenRec, Zenon
<1>5. /\ f[1] = all[1]
      /\ \A i \in 1 .. Len(all) - 1 : f[i + 1] = f[i] \o all[i + 1]
  BY <1>1, <1>4, FlatteningSteps
<1>6. CASE n = 0
  <2>1. FlattenSeq(all) = x
    BY <1>1, <1>3, <1>4, <1>5, <1>6
  <2>2. FlattenSeq(seqs) = <<>>
    BY <1>6 DEF FlattenSeq
  <2>3. QED
    BY <2>1, <2>2 DEF all
<1>7. CASE n > 0
  <2>1. PICK g : Flattening(g, seqs) /\ FlattenSeq(seqs) = g[n]
    BY <1>7, FlattenRec
  <2>2. /\ g[1] = seqs[1]
        /\ \A i \in 1 .. n - 1 : g[i + 1] = g[i] \o seqs[i + 1]
        /\ \A i \in 1 .. n : g[i] \in Seq(S)
    BY <1>7, <2>1, FlatteningSteps
  <2> DEFINE T == {k \in Nat : k + 1 <= n => f[(k + 1) + 1] = x \o g[k + 1]}
  <2>3. 0 \in T
    <3>1. f[1 + 1] = f[1] \o all[1 + 1]
      <4>1. 1 \in 1 .. Len(all) - 1
        BY <1>1, <1>7
      <4>2. QED
        BY <1>5, <4>1, Zenon
    <3>2. all[1 + 1] = seqs[1]
      BY <1>2, <1>7
    <3>3. f[1 + 1] = x \o g[1]
      BY <1>3, <1>5, <2>2, <3>1, <3>2, Zenon
    <3>4. 0 + 1 = 1
      OBVIOUS
    <3>5. QED
      BY <3>3, <3>4, Zenon
  <2>4. ASSUME NEW k \in Nat, k \in T PROVE k + 1 \in T
    <3> SUFFICES ASSUME (k + 1) + 1 <= n
                 PROVE  f[((k + 1) + 1) + 1] = x \o g[(k + 1) + 1]
      OBVIOUS
    <3>1. /\ (k + 1) + 1 \in 1 .. Len(all) - 1 /\ (k + 1) + 1 \in 1 .. n
          /\ k + 1 \in 1 .. n - 1 /\ k + 1 \in 1 .. n
      BY <1>1
    <3>2. f[(k + 1) + 1] = x \o g[k + 1]
      BY <2>4
    <3>3. f[((k + 1) + 1) + 1] = f[(k + 1) + 1] \o all[((k + 1) + 1) + 1]
      BY <1>5, <3>1, Zenon
    <3>4. all[((k + 1) + 1) + 1] = seqs[(k + 1) + 1]
      BY <1>2, <3>1, Zenon
    <3>5. g[(k + 1) + 1] = g[k + 1] \o seqs[(k + 1) + 1]
      BY <2>2, <3>1, Zenon
    <3>6. x \in Seq(S) /\ g[k + 1] \in Seq(S) /\ seqs[(k + 1) + 1] \in Seq(S)
      BY <2>2, <3>1
    <3>8. (x \o g[k + 1]) \o seqs[(k + 1) + 1] = x \o (g[k + 1] \o seqs[(k + 1) + 1])
      <4>1. Assoc(x, g[k + 1], seqs[(k + 1) + 1])
        BY <3>6, ConcatAssoc, Zenon
      <4>2. QED
        BY <4>1, Zenon DEF Assoc
    <3>9. QED
      BY <3>2, <3>3, <3>4, <3>5, <3>8, Zenon
  <2>5. \A k \in Nat : k \in T
    <3> HIDE DEF T
    <3>1. QED
      BY <2>3, <2>4, NatSetInduction
  <2>6. n - 1 \in Nat /\ (n - 1) + 1 = n /\ (n - 1) + 1 <= n
    BY <1>1, <1>7
  <2>7. f[((n - 1) + 1) + 1] = x \o g[(n - 1) + 1]
    BY <2>5, <2>6
  <2>8. f[n + 1] = x \o g[n]
    BY <2>6, <2>7, Zenon
  <2>9. QED
    BY <1>1, <1>4, <2>1, <2>8, Zenon DEF all
<1>8. n = 0 \/ n > 0
  BY <1>1
<1>9. QED
  BY <1>6, <1>7, <1>8, Zenon
Pairs(s, seqs, m) ==
  /\ Len(s) = 2 * m
  /\ \A i \in 1 .. m : s[2 * i - 1] = seqs[i][1] /\ s[2 * i] = seqs[i][2]

(* A pair more at the end of a sequence of pairs. *)
LEMMA PairMore ==
  ASSUME NEW S, NEW s \in Seq(S), NEW seqs, NEW m \in Nat, Pairs(s, seqs, m),
         NEW x \in Seq(S), Len(x) = 2, x = seqs[m + 1]
  PROVE  Pairs(s \o x, seqs, m + 1)
<1> DEFINE t == s \o x
<1>0. Len(s) = 2 * m
  BY DEF Pairs
<1>1. Len(s) = 2 * m /\ Len(t) = 2 * m + 2
  <2>1. Len(t) = Len(s) + Len(x)
    BY ConcatProperties, Zenon
  <2>2. QED
    BY <1>0, <2>1
<1>2. \A i \in 1 .. 2 * m : t[i] = s[i]
  BY <1>1
<1>3. t[2 * m + 1] = x[1] /\ t[2 * m + 2] = x[2]
  BY <1>1
<1> HIDE DEF t
<1>4. ASSUME NEW i \in 1 .. m + 1
      PROVE  t[2 * i - 1] = seqs[i][1] /\ t[2 * i] = seqs[i][2]
  <2>1. CASE i = m + 1
    <3>1. 2 * i - 1 = 2 * m + 1 /\ 2 * i = 2 * m + 2
      BY <2>1
    <3>2. QED
      BY <1>3, <2>1, <3>1
  <2>2. CASE i # m + 1
    <3>1. i \in 1 .. m /\ 2 * i - 1 \in 1 .. 2 * m /\ 2 * i \in 1 .. 2 * m
      BY <2>2
    <3>2. s[2 * i - 1] = seqs[i][1] /\ s[2 * i] = seqs[i][2]
      BY <3>1 DEF Pairs
    <3>3. t[2 * i - 1] = s[2 * i - 1] /\ t[2 * i] = s[2 * i]
      BY <1>2, <3>1
    <3>4. QED
      BY <3>2, <3>3
  <2>3. QED
    BY <2>1, <2>2
<1>5. Len(t) = 2 * (m + 1)
  BY <1>1
<1>6. Pairs(t, seqs, m + 1)
  BY <1>4, <1>5 DEF Pairs
<1>7. QED
  BY <1>6 DEF t

(* Of pairs, the flattened sequence has the first ones at the odd places,   *)
(* the second ones at the even ones.                                        *)
LEMMA FlattenPairs ==
  ASSUME NEW S, NEW seqs \in Seq(Seq(S)),
         \A i \in 1 .. Len(seqs) : Len(seqs[i]) = 2
  PROVE  Pairs(FlattenSeq(seqs), seqs, Len(seqs))
<1>1. CASE Len(seqs) = 0
  <2>1. FlattenSeq(seqs) = <<>>
    BY <1>1 DEF FlattenSeq
  <2>2. QED
    BY <1>1, <2>1 DEF Pairs
<1>2. CASE Len(seqs) > 0
  <2>1. PICK f : Flattening(f, seqs) /\ FlattenSeq(seqs) = f[Len(seqs)]
    BY <1>2, FlattenRec
  <2>2. /\ f[1] = seqs[1]
        /\ \A i \in 1 .. Len(seqs) - 1 : f[i + 1] = f[i] \o seqs[i + 1]
        /\ \A i \in 1 .. Len(seqs) : f[i] \in Seq(S)
    BY <1>2, <2>1, FlatteningSteps
  <2> DEFINE T == {n \in Nat : n + 1 <= Len(seqs) => Pairs(f[n + 1], seqs, n + 1)}
  <2>3. 0 \in T
    <3>1. Pairs(f[1], seqs, 1)
      BY <1>2, <2>2 DEF Pairs
    <3>2. 0 + 1 = 1
      OBVIOUS
    <3>3. QED
      BY <3>1, <3>2, Zenon
  <2>4. ASSUME NEW n \in Nat, n \in T PROVE n + 1 \in T
    <3> SUFFICES ASSUME (n + 1) + 1 <= Len(seqs) PROVE Pairs(f[(n + 1) + 1], seqs, (n + 1) + 1)
      OBVIOUS
    <3>1. n + 1 \in 1 .. Len(seqs) - 1 /\ n + 1 \in 1 .. Len(seqs) /\ (n + 1) + 1 \in 1 .. Len(seqs)
          /\ n + 1 \in Nat
      OBVIOUS
    <3>2. Pairs(f[n + 1], seqs, n + 1)
      BY <2>4
    <3>3. f[(n + 1) + 1] = f[n + 1] \o seqs[(n + 1) + 1]
      BY <2>2, <3>1, Zenon
    <3>4. f[n + 1] \in Seq(S) /\ seqs[(n + 1) + 1] \in Seq(S) /\ Len(seqs[(n + 1) + 1]) = 2
      BY <2>2, <3>1
    <3>5. Pairs(f[n + 1] \o seqs[(n + 1) + 1], seqs, (n + 1) + 1)
      BY <3>1, <3>2, <3>4, PairMore, Zenon
    <3>6. QED
      BY <3>3, <3>5, Zenon
  <2>5. \A n \in Nat : n \in T
    <3> HIDE DEF T
    <3>1. QED
      BY <2>3, <2>4, NatSetInduction
  <2>6. Len(seqs) - 1 \in Nat /\ (Len(seqs) - 1) + 1 = Len(seqs)
    BY <1>2
  <2>7. Pairs(f[(Len(seqs) - 1) + 1], seqs, (Len(seqs) - 1) + 1)
    <3>1. \A n \in Nat : n + 1 <= Len(seqs) => Pairs(f[n + 1], seqs, n + 1)
      BY <2>5, Zenon
    <3>2. (Len(seqs) - 1) + 1 <= Len(seqs)
      BY <1>2
    <3>3. QED
      BY <2>6, <3>1, <3>2, Zenon
  <2>8. QED
    BY <2>1, <2>6, <2>7, Zenon
<1>3. QED
  BY <1>1, <1>2
=============================================================================
