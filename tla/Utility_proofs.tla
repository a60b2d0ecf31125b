---------------------------- MODULE Utility_proofs ----------------------------
(***************************************************************************)
(* What is proved of src/http/utility.hpp, and of the match condition that *)
(* looks for the end of a head: of the parsers, for any texts, and of      *)
(* ScopeRunner, for any number of threads.                                 *)
(***************************************************************************)
EXTENDS HttpParsing, ScopeRunner,
        SequenceTheorems, FiniteSetTheorems, WellFoundedInduction, TLAPS

-----------------------------------------------------------------------------
(* Recursive functions.  There is no induction over an operator here; over *)
(* a set of numbers there is, for finite sets of them are well-founded.    *)

\* Among numbers there is a least one.
LEMMA LeastElement ==
    ASSUME NEW T, T \subseteq Nat, T # {}
    PROVE  \E n \in T : \A m \in T : n <= m
<1> DEFINE Below(n) == 0..n
           Cuts == {Below(n) : n \in T}
<1>1. Cuts # {}
    OBVIOUS
<1>2. Cuts \subseteq FiniteSubsetsOf(Nat)
    <2>1. SUFFICES ASSUME NEW n \in T PROVE Below(n) \in FiniteSubsetsOf(Nat)
        OBVIOUS
    <2>2. n \in Nat
        OBVIOUS
    <2>3. IsFiniteSet(0..n)
        BY <2>2, FS_Interval
    <2>4. 0..n \in SUBSET Nat
        BY <2>2
    <2>. QED BY <2>3, <2>4 DEF FiniteSubsetsOf
<1>3. PICK x \in Cuts : \A y \in Cuts : ~ (<<y, x>> \in StrictSubsetOrdering(Nat))
    <2>. HIDE DEF Cuts
    <2>. QED BY <1>1, <1>2, FS_StrictSubsetOrderingWellFounded, WFMin
<1>4. PICK n \in T : x = Below(n)
    OBVIOUS
<1>5. \A m \in T : n <= m
    <2>1. SUFFICES ASSUME NEW m \in T, m < n PROVE FALSE
        OBVIOUS
    <2>2. m \in Nat /\ n \in Nat
        OBVIOUS
    <2>3. 0..m \subseteq 0..n /\ 0..m # 0..n
        BY <2>1, <2>2
    <2>4. <<0..m, 0..n>> \in (SUBSET Nat) \X (SUBSET Nat)
        BY <2>2
    <2>5. <<0..m, 0..n>> \in StrictSubsetOrdering(Nat)
        BY <2>3, <2>4 DEF StrictSubsetOrdering
    <2>. QED BY <2>5, <1>3, <1>4
<1>. QED BY <1>5

\* Among numbers up to m there is a greatest one.
LEMMA GreatestElement ==
    ASSUME NEW m \in Int, NEW T, T \subseteq Nat, \A n \in T : n <= m, T # {}
    PROVE  \E n \in T : \A k \in T : k <= n
<1> DEFINE Gaps == {m - n : n \in T}
<1>1. Gaps \subseteq Nat /\ Gaps # {}
    <2>1. \A n \in T : m - n \in Nat
        <3>1. \A n \in T : n \in Nat /\ n <= m
            OBVIOUS
        <3>. QED BY <3>1
    <2>. QED BY <2>1
<1>2. PICK d \in Gaps : \A e \in Gaps : d <= e
    <2>. HIDE DEF Gaps
    <2>. QED BY <1>1, LeastElement
<1>3. PICK n \in T : d = m - n
    OBVIOUS
<1>4. \A k \in T : m - n <= m - k
    BY <1>2, <1>3
<1>5. \A k \in T : k <= n
    BY <1>4
<1>. QED BY <1>5

\* A set of numbers that holds 0, and with a number the next, holds all.
LEMMA Induction ==
    ASSUME NEW T, 0 \in T, \A n \in Nat : n \in T => n + 1 \in T
    PROVE  \A n \in Nat : n \in T
<1>1. SUFFICES ASSUME Nat \ T # {} PROVE FALSE
    OBVIOUS
<1>2. PICK n \in Nat \ T : \A m \in Nat \ T : n <= m
    BY <1>1, LeastElement
<1>3. n # 0 /\ n \in Nat
    OBVIOUS
<1>4. n - 1 \in Nat
    BY <1>3
<1>5. n - 1 \in T
    <2>1. ~ (n <= n - 1)
        BY <1>3
    <2>. QED BY <1>2, <1>4, <2>1
<1>6. n - 1 + 1 = n
    BY <1>3
<1>. QED BY <1>4, <1>5, <1>6

-----------------------------------------------------------------------------
(* FlattenSeq, of the community modules.                                   *)

\* The equation of its recursive function, which joins ever more of s.
Step(f, s) == [i \in 1..Len(s) |-> IF i = 1 THEN s[i] ELSE f[i-1] \o s[i]]

Sums(s) == CHOOSE f : f = Step(f, s)

\* There is such a function.
LEMMA SumsExist ==
    ASSUME NEW S, NEW s \in Seq(S)
    PROVE  Sums(s) = Step(Sums(s), s)
<1> DEFINE Joins(n, f) == [i \in 1..n |-> IF i = 1 THEN s[i] ELSE f[i-1] \o s[i]]
           Good == {n \in Nat : \E f : f = Joins(n, f)}
<1>1. 0 \in Good
    <2>. DEFINE e == [i \in {} |-> 0]
    <2>1. 1..0 = {}
        OBVIOUS
    <2>2. e = [i \in {} |-> IF i = 1 THEN s[i] ELSE e[i-1] \o s[i]]
        OBVIOUS
    <2>3. e = Joins(0, e)
        BY <2>1, <2>2
    <2>. QED BY <2>3
<1>2. ASSUME NEW n \in Nat, n \in Good PROVE n + 1 \in Good
    <2>1. PICK f : f = Joins(n, f)
        BY <1>2
    <2> DEFINE g == Joins(n + 1, f)
               h == Joins(n + 1, g)
    <2>2. \A i \in 1..n : Joins(n, f)[i] = IF i = 1 THEN s[i] ELSE f[i-1] \o s[i]
        OBVIOUS
    <2>3. \A i \in 1..(n + 1) : g[i] = IF i = 1 THEN s[i] ELSE f[i-1] \o s[i]
        OBVIOUS
    <2>4. \A i \in 1..(n + 1) : h[i] = IF i = 1 THEN s[i] ELSE g[i-1] \o s[i]
        OBVIOUS
    <2>5. /\ g = [i \in 1..(n + 1) |-> g[i]]
          /\ h = [i \in 1..(n + 1) |-> h[i]]
        OBVIOUS
    <2>. HIDE DEF Joins
    <2>6. \A i \in 1..n : f[i] = g[i]
        <3>1. \A i \in 1..n : i \in 1..(n + 1)
            OBVIOUS
        <3>. HIDE DEF g
        <3>. QED BY <2>1, <2>2, <2>3, <3>1
    <2>. HIDE DEF g, h
    <2>7. \A i \in 1..(n + 1) : g[i] = h[i]
        <3>1. \A i \in 1..(n + 1) : i # 1 => i - 1 \in 1..n
            OBVIOUS
        <3>. QED BY <2>3, <2>4, <2>6, <3>1
    <2>8. g = h
        BY <2>5, <2>7
    <2>. QED BY <2>8 DEF h
<1>3. Len(s) \in Good
    <2>. HIDE DEF Good
    <2>. QED BY <1>1, <1>2, Induction
<1>4. \E f : f = Step(f, s)
    BY <1>3 DEF Step
<1>. QED BY <1>4 DEF Sums

\* FlattenSeq is its last value,
LEMMA FlattenSums ==
    ASSUME NEW S, NEW s \in Seq(S), s # <<>>
    PROVE  FlattenSeq(s) = Sums(s)[Len(s)]
BY DEF FlattenSeq, Step, Sums

\* and each value comes from the one before.
LEMMA SumsAt ==
    ASSUME NEW S, NEW s \in Seq(S), NEW i \in 1..Len(s)
    PROVE  Sums(s)[i] = IF i = 1 THEN s[i] ELSE Sums(s)[i-1] \o s[i]
BY SumsExist DEF Step

\* Nothing makes up nothing,
LEMMA FlattenEmpty == FlattenSeq(<<>>) = <<>>
BY DEF FlattenSeq

\* one part makes up itself,
LEMMA FlattenOne ==
    ASSUME NEW S, NEW x \in S
    PROVE  FlattenSeq(<<x>>) = x
<1> DEFINE s == <<x>>
<1>1. s \in Seq(S) /\ s # <<>> /\ Len(s) = 1 /\ s[1] = x
    OBVIOUS
<1>. HIDE DEF s
<1>2. FlattenSeq(s) = Sums(s)[Len(s)]
    BY <1>1, FlattenSums
<1>3. \A i \in 1..Len(s) : Sums(s)[i] = IF i = 1 THEN s[i] ELSE Sums(s)[i-1] \o s[i]
    BY <1>1, SumsAt
<1>4. FlattenSeq(s) = x
    BY <1>1, <1>2, <1>3
<1>. QED BY <1>4 DEF s

\* another part comes at the end,
LEMMA FlattenAppend ==
    ASSUME NEW S, NEW s \in Seq(Seq(S)), NEW x \in Seq(S)
    PROVE  FlattenSeq(Append(s, x)) = FlattenSeq(s) \o x
<1>1. CASE s = <<>>
    <2>1. Append(s, x) = <<x>> /\ <<>> \o x = x
        BY <1>1
    <2>. QED BY <1>1, <2>1, FlattenOne, FlattenEmpty
<1>2. CASE s # <<>>
    <2> DEFINE t == Append(s, x)
    <2>1. /\ t \in Seq(Seq(S)) /\ t # <<>> /\ Len(t) = Len(s) + 1
          /\ t[Len(s) + 1] = x
          /\ \A i \in 1..Len(s) : t[i] = s[i]
        BY AppendProperties
    <2>2. Len(s) \in Nat \ {0}
        BY <1>2
    <2>. HIDE DEF t
    <2> DEFINE Same == {n \in Nat : n \in 1..Len(s) => Sums(t)[n] = Sums(s)[n]}
    <2>3. 0 \in Same
        OBVIOUS
    <2>4. ASSUME NEW n \in Nat, n \in Same PROVE n + 1 \in Same
        <3>1. SUFFICES ASSUME n + 1 \in 1..Len(s) PROVE Sums(t)[n + 1] = Sums(s)[n + 1]
            OBVIOUS
        <3>2. n + 1 \in 1..Len(t) /\ t[n + 1] = s[n + 1] /\ n + 1 - 1 = n
            BY <2>1, <2>2, <3>1
        <3>3. Sums(s)[n + 1] = IF n + 1 = 1 THEN s[n + 1] ELSE Sums(s)[n] \o s[n + 1]
            BY <3>1, <3>2, SumsAt
        <3>4. Sums(t)[n + 1] = IF n + 1 = 1 THEN t[n + 1] ELSE Sums(t)[n] \o t[n + 1]
            BY <2>1, <3>2, SumsAt
        <3>5. n + 1 # 1 => n \in 1..Len(s)
            BY <3>1, <2>2
        <3>. QED BY <2>4, <3>2, <3>3, <3>4, <3>5
    <2>5. Len(s) \in Same
        <3>. HIDE DEF Same
        <3>. QED BY <2>2, <2>3, <2>4, Induction
    <2>6. Sums(t)[Len(s)] = Sums(s)[Len(s)]
        BY <2>2, <2>5
    <2>7. Sums(t)[Len(s) + 1] = Sums(t)[Len(s)] \o x
        <3> DEFINE k == Len(s) + 1
        <3>1. k \in 1..Len(t) /\ k # 1 /\ k - 1 = Len(s) /\ t[k] = x
            BY <2>1, <2>2
        <3>. HIDE DEF k
        <3>2. Sums(t)[k] = IF k = 1 THEN t[k] ELSE Sums(t)[k-1] \o t[k]
            BY <2>1, <3>1, SumsAt
        <3>3. Sums(t)[k] = Sums(t)[Len(s)] \o x
            BY <3>1, <3>2
        <3>. QED BY <3>3 DEF k
    <2>8. FlattenSeq(s) = Sums(s)[Len(s)] /\ FlattenSeq(t) = Sums(t)[Len(t)]
        BY <1>2, <2>1, FlattenSums
    <2>. QED BY <2>1, <2>6, <2>7, <2>8 DEF t
<1>. QED BY <1>1, <1>2

\* and parts from a set make up a sequence over it.
LEMMA FlattenType ==
    ASSUME NEW S, NEW s \in Seq(Seq(S))
    PROVE  FlattenSeq(s) \in Seq(S)
<1>1. CASE s = <<>>
    BY <1>1, FlattenEmpty, EmptySeq
<1>2. CASE s # <<>>
    <2>1. Len(s) \in Nat \ {0}
        BY <1>2
    <2> DEFINE Typed == {n \in Nat : n \in 1..Len(s) => Sums(s)[n] \in Seq(S)}
    <2>2. 0 \in Typed
        OBVIOUS
    <2>3. ASSUME NEW n \in Nat, n \in Typed PROVE n + 1 \in Typed
        <3>1. SUFFICES ASSUME n + 1 \in 1..Len(s) PROVE Sums(s)[n + 1] \in Seq(S)
            OBVIOUS
        <3>2. n + 1 - 1 = n /\ s[n + 1] \in Seq(S)
            BY <3>1
        <3>3. Sums(s)[n + 1] = IF n + 1 = 1 THEN s[n + 1] ELSE Sums(s)[n] \o s[n + 1]
            BY <3>1, <3>2, SumsAt
        <3>4. n + 1 # 1 => n \in 1..Len(s)
            BY <3>1, <2>1
        <3>5. n + 1 # 1 => Sums(s)[n] \in Seq(S)
            BY <2>3, <3>4
        <3>. HIDE DEF Typed
        <3>. QED BY <3>2, <3>3, <3>5
    <2>4. Len(s) \in Typed
        <3>. HIDE DEF Typed
        <3>. QED BY <2>1, <2>2, <2>3, Induction
    <2>. QED BY <1>2, <2>1, <2>4, FlattenSums
<1>. QED BY <1>1, <1>2

\* What the first n parts make up.
Upto(s, n) == IF n = 0 THEN <<>> ELSE Sums(s)[n]

\* It is the concatenation of the parts so far: each part is appended to those before.
LEMMA UptoIs ==
    ASSUME NEW S, NEW s \in Seq(Seq(S))
    PROVE  /\ Upto(s, 0) = <<>>
           /\ \A n \in 0..(Len(s) - 1) : Upto(s, n + 1) = Upto(s, n) \o s[n + 1]
           /\ \A n \in 0..Len(s) : Upto(s, n) \in Seq(S)
           /\ FlattenSeq(s) = Upto(s, Len(s))
<1>1. Len(s) \in Nat
    OBVIOUS
<1>2. Upto(s, 0) = <<>>
    BY DEF Upto
<1>3. ASSUME NEW n \in 1..Len(s) PROVE Upto(s, n) = Sums(s)[n]
    BY DEF Upto
<1>4. ASSUME NEW n \in 0..(Len(s) - 1) PROVE Upto(s, n + 1) = Upto(s, n) \o s[n + 1]
    <2> DEFINE k == n + 1
    <2>1. k \in 1..Len(s) /\ k - 1 = n /\ (k = 1 => n = 0) /\ (k # 1 => n \in 1..Len(s))
        BY <1>1
    <2>. HIDE DEF k
    <2>2. Sums(s)[k] = IF k = 1 THEN s[k] ELSE Sums(s)[k - 1] \o s[k]
        BY <2>1, SumsAt
    <2>3. <<>> \o s[k] = s[k]
        <3>1. s[k] \in Seq(S)
            BY <2>1
        <3>. QED BY <3>1, ConcatEmptySeq
    <2>4. Upto(s, k) = Sums(s)[k]
        BY <1>3, <2>1
    <2>5. k = 1 => Upto(s, k) = Upto(s, n) \o s[k]
        BY <1>2, <2>1, <2>2, <2>3, <2>4
    <2>6. k # 1 => Upto(s, k) = Upto(s, n) \o s[k]
        BY <1>3, <2>1, <2>2, <2>4
    <2>7. Upto(s, k) = Upto(s, n) \o s[k]
        BY <2>5, <2>6
    <2>. QED BY <2>7 DEF k
<1>5. \A n \in 0..Len(s) : Upto(s, n) \in Seq(S)
    <2> DEFINE Typed == {n \in Nat : n <= Len(s) => Upto(s, n) \in Seq(S)}
    <2>1. 0 \in Typed
        BY <1>2, EmptySeq
    <2>2. ASSUME NEW n \in Nat, n \in Typed PROVE n + 1 \in Typed
        <3>1. SUFFICES ASSUME n + 1 <= Len(s) PROVE Upto(s, n + 1) \in Seq(S)
            OBVIOUS
        <3>2. n \in 0..(Len(s) - 1) /\ n <= Len(s) /\ n + 1 \in 1..Len(s)
            BY <1>1, <3>1
        <3>3. Upto(s, n) \in Seq(S)
            BY <2>2, <3>2
        <3>4. s[n + 1] \in Seq(S)
            BY <3>2
        <3>5. Upto(s, n) \o s[n + 1] \in Seq(S)
            BY <3>3, <3>4, ConcatProperties
        <3>. QED BY <1>4, <3>2, <3>5
    <2>3. \A n \in Nat : n \in Typed
        <3>. HIDE DEF Typed
        <3>. QED BY <2>1, <2>2, Induction
    <2>. QED BY <2>3
<1>6. FlattenSeq(s) = Upto(s, Len(s))
    <2>1. CASE s = <<>>
        BY <1>2, <2>1, FlattenEmpty
    <2>2. CASE s # <<>>
        <3>1. Len(s) \in 1..Len(s)
            BY <2>2
        <3>. QED BY <1>3, <2>2, <3>1, FlattenSums
    <2>. QED BY <2>1, <2>2
<1>. QED BY <1>2, <1>4, <1>5, <1>6

\* More parts only add to it.
LEMMA UptoGrows ==
    ASSUME NEW S, NEW s \in Seq(Seq(S)), NEW n \in 0..Len(s)
    PROVE  \A m \in n..Len(s) :
              /\ Len(Upto(s, n)) <= Len(Upto(s, m))
              /\ \A j \in 1..Len(Upto(s, n)) : Upto(s, m)[j] = Upto(s, n)[j]
<1>1. Len(s) \in Nat /\ n \in Nat
    OBVIOUS
<1> DEFINE a == Upto(s, n)
           Extends(m) == Len(a) <= Len(Upto(s, m)) /\ \A j \in 1..Len(a) : Upto(s, m)[j] = a[j]
           Good == {d \in Nat : n + d <= Len(s) => Extends(n + d)}
<1>2. a \in Seq(S) /\ Len(a) \in Nat
    BY UptoIs
<1>. HIDE DEF a
<1>3. 0 \in Good
    <2>1. n + 0 = n
        BY <1>1
    <2>2. Extends(n)
        BY <1>2 DEF a
    <2>. QED BY <2>1, <2>2
<1>4. ASSUME NEW d \in Nat, d \in Good PROVE d + 1 \in Good
    <2> DEFINE m == n + d
    <2>1. SUFFICES ASSUME n + (d + 1) <= Len(s) PROVE Extends(n + (d + 1))
        OBVIOUS
    <2>2. m \in 0..(Len(s) - 1) /\ n + (d + 1) = m + 1 /\ m <= Len(s) /\ m \in 0..Len(s)
          /\ m + 1 \in 1..Len(s) /\ n + d <= Len(s)
        BY <1>1, <2>1
    <2>3. Extends(m)
        BY <1>4, <2>2
    <2>. HIDE DEF m
    <2> DEFINE u == Upto(s, m)
               p == s[m + 1]
    <2>4. Upto(s, m + 1) = u \o p /\ u \in Seq(S) /\ p \in Seq(S)
        BY <2>2, UptoIs
    <2>5. Len(a) <= Len(u) /\ \A j \in 1..Len(a) : u[j] = a[j]
        BY <2>3
    <2>. HIDE DEF u, p
    <2>6. /\ Len(u \o p) = Len(u) + Len(p)
          /\ \A j \in 1..(Len(u) + Len(p)) :
                (u \o p)[j] = IF j <= Len(u) THEN u[j] ELSE p[j - Len(u)]
          /\ Len(u) \in Nat /\ Len(p) \in Nat
        BY <2>4, ConcatProperties
    <2>7. Len(a) <= Len(u \o p)
        BY <1>2, <2>5, <2>6
    <2>8. \A j \in 1..Len(a) : j \in 1..(Len(u) + Len(p)) /\ j <= Len(u)
        BY <1>2, <2>5, <2>6
    <2>9. \A j \in 1..Len(a) : (u \o p)[j] = a[j]
        BY <2>5, <2>6, <2>8
    <2>10. Extends(m + 1)
        BY <2>4, <2>7, <2>9
    <2>. QED BY <2>2, <2>10
<1>5. \A d \in Nat : d \in Good
    <2>. HIDE DEF Good
    <2>. QED BY <1>3, <1>4, Induction
<1>6. ASSUME NEW m \in n..Len(s) PROVE Extends(m)
    <2> DEFINE d == m - n
    <2>1. d \in Nat /\ n + d = m /\ n + d <= Len(s)
        BY <1>1
    <2>. HIDE DEF d
    <2>. QED BY <1>5, <2>1
<1>. QED BY <1>6 DEF a

\* Where a part is in what all of them make up.
LEMMA UptoPiece ==
    ASSUME NEW S, NEW s \in Seq(Seq(S)), NEW k \in 0..(Len(s) - 1)
    PROVE  /\ Len(Upto(s, k)) \in Nat /\ Len(s[k + 1]) \in Nat
           /\ Len(Upto(s, k + 1)) = Len(Upto(s, k)) + Len(s[k + 1])
           /\ Len(Upto(s, k + 1)) <= Len(FlattenSeq(s))
           /\ \A j \in 1..Len(s[k + 1]) : FlattenSeq(s)[Len(Upto(s, k)) + j] = s[k + 1][j]
<1> DEFINE u == Upto(s, k)
           p == s[k + 1]
           w == Upto(s, k + 1)
           t == FlattenSeq(s)
<1>1. Len(s) \in Nat /\ k \in 0..Len(s) /\ k + 1 \in 0..Len(s) /\ Len(s) \in (k + 1)..Len(s)
      /\ k + 1 \in 1..Len(s)
    OBVIOUS
<1>2. u \in Seq(S) /\ p \in Seq(S) /\ w = u \o p /\ t = Upto(s, Len(s))
    BY <1>1, UptoIs
<1>3. Len(w) <= Len(t) /\ \A j \in 1..Len(w) : t[j] = w[j]
    BY <1>1, <1>2, UptoGrows
<1>. HIDE DEF u, p, w, t
<1>4. /\ Len(u \o p) = Len(u) + Len(p)
      /\ \A j \in 1..(Len(u) + Len(p)) : (u \o p)[j] = IF j <= Len(u) THEN u[j] ELSE p[j - Len(u)]
      /\ Len(u) \in Nat /\ Len(p) \in Nat
    BY <1>2, ConcatProperties
<1>5. Len(w) = Len(u) + Len(p) /\ Len(u) \in Nat /\ Len(p) \in Nat
    BY <1>2, <1>4
<1>6. ASSUME NEW j \in 1..Len(p) PROVE t[Len(u) + j] = p[j]
    <2>1. Len(u) + j \in 1..(Len(u) + Len(p)) /\ ~(Len(u) + j <= Len(u)) /\ Len(u) + j - Len(u) = j
        BY <1>5
    <2> DEFINE i == Len(u) + j
    <2>2. i \in 1..(Len(u) + Len(p)) /\ ~(i <= Len(u)) /\ i - Len(u) = j
        BY <2>1
    <2>. HIDE DEF i
    <2>3. (u \o p)[i] = p[j]
        BY <1>4, <2>2
    <2>4. t[i] = p[j]
        BY <1>2, <1>3, <1>5, <2>2, <2>3
    <2>. QED BY <2>4 DEF i
<1>. QED BY <1>3, <1>5, <1>6 DEF u, p, w, t

\* A loop of n steps from start, of which step i makes F[<<a, i>>] of a.
HasLoop(n, A, start, F) ==
    \E f \in [0..n -> A] : f[0] = start /\ \A i \in 1..n : f[i] = F[<<f[i-1], i>>]

\* A loop over n characters, whose step stays in A, has its function.
LEMMA LoopExists ==
    ASSUME NEW n \in Nat, NEW A, NEW start \in A,
           NEW F \in [A \X (1..n) -> A]
    PROVE  HasLoop(n, A, start, F)
<1> DEFINE Turns(m, f) == [i \in 0..m |-> IF i = 0 THEN start ELSE F[<<f[i-1], i>>]]
           Good == {m \in Nat : m <= n => \E f \in [0..m -> A] : f = Turns(m, f)}
<1>1. 0 \in Good
    <2>. DEFINE e == [i \in 0..0 |-> start]
    <2>1. \A i \in 0..0 : i = 0
        OBVIOUS
    <2>2. e = [i \in 0..0 |-> IF i = 0 THEN start ELSE F[<<e[i-1], i>>]]
        BY <2>1
    <2>3. e \in [0..0 -> A] /\ e = Turns(0, e)
        BY <2>2
    <2>. QED BY <2>3
<1>2. ASSUME NEW m \in Nat, m \in Good PROVE m + 1 \in Good
    <2>1. SUFFICES ASSUME m + 1 <= n
                   PROVE  \E f \in [0..(m + 1) -> A] : f = Turns(m + 1, f)
        OBVIOUS
    <2>2. PICK f \in [0..m -> A] : f = Turns(m, f)
        BY <1>2, <2>1
    <2> DEFINE g == Turns(m + 1, f)
               h == Turns(m + 1, g)
    <2>3. \A i \in 0..m : Turns(m, f)[i] = IF i = 0 THEN start ELSE F[<<f[i-1], i>>]
        OBVIOUS
    <2>4. \A i \in 0..(m + 1) : g[i] = IF i = 0 THEN start ELSE F[<<f[i-1], i>>]
        OBVIOUS
    <2>5. \A i \in 0..(m + 1) : h[i] = IF i = 0 THEN start ELSE F[<<g[i-1], i>>]
        OBVIOUS
    <2>6. /\ g = [i \in 0..(m + 1) |-> g[i]]
          /\ h = [i \in 0..(m + 1) |-> h[i]]
        OBVIOUS
    <2>. HIDE DEF Turns
    <2>7. \A i \in 0..m : f[i] = g[i]
        <3>1. \A i \in 0..m : i \in 0..(m + 1)
            OBVIOUS
        <3>. HIDE DEF g
        <3>. QED BY <2>2, <2>3, <2>4, <3>1
    <2>. HIDE DEF g, h
    <2>8. \A i \in 1..(m + 1) : i - 1 \in 0..m /\ i \in 1..n
        BY <2>1
    <2>9. \A i \in 0..(m + 1) : i = 0 \/ i \in 1..(m + 1)
        OBVIOUS
    <2>10. \A i \in 0..(m + 1) : g[i] = h[i]
        BY <2>4, <2>5, <2>7, <2>8, <2>9
    <2>11. g = h
        BY <2>6, <2>10
    <2>12. \A i \in 0..(m + 1) : g[i] \in A
        <3>1. \A i \in 1..(m + 1) : f[i-1] \in A
            BY <2>8
        <3>2. \A i \in 1..(m + 1) : F[<<f[i-1], i>>] \in A
            BY <2>8, <3>1
        <3>. QED BY <2>4, <2>9, <3>2
    <2>13. g \in [0..(m + 1) -> A]
        BY <2>6, <2>12
    <2>. QED BY <2>11, <2>13 DEF h
<1>3. n \in Good
    <2>. HIDE DEF Good
    <2>. QED BY <1>1, <1>2, Induction
<1>4. PICK f \in [0..n -> A] : f = Turns(n, f)
    BY <1>3
<1>5. \A i \in 0..n : Turns(n, f)[i] = IF i = 0 THEN start ELSE F[<<f[i-1], i>>]
    OBVIOUS
<1>. HIDE DEF Turns
<1>6. \A i \in 0..n : f[i] = IF i = 0 THEN start ELSE F[<<f[i-1], i>>]
    BY <1>4, <1>5
<1>7. 0 \in 0..n /\ \A i \in 1..n : i \in 0..n /\ i # 0
    OBVIOUS
<1>8. f[0] = start
    BY <1>6, <1>7
<1>9. \A i \in 1..n : f[i] = F[<<f[i-1], i>>]
    BY <1>6, <1>7
<1>. QED BY <1>8, <1>9 DEF HasLoop

\* A loop whose steps stay in A, and that begins in A, stays in A.
LEMMA LoopStays ==
    ASSUME NEW n \in Nat, NEW A, NEW g, g[0] \in A,
           \A i \in 1..n : g[i - 1] \in A => g[i] \in A
    PROVE  \A i \in 0..n : g[i] \in A
<1> DEFINE Typed == {i \in Nat : i <= n => g[i] \in A}
<1>1. 0 \in Typed
    OBVIOUS
<1>2. ASSUME NEW i \in Nat, i \in Typed PROVE i + 1 \in Typed
    <2>1. i + 1 <= n => i + 1 \in 1..n /\ i + 1 - 1 = i /\ i <= n
        OBVIOUS
    <2>2. i + 1 <= n => (g[i] \in A => g[i + 1] \in A)
        BY <2>1
    <2>. QED BY <1>2, <2>1, <2>2
<1>3. \A i \in Nat : i \in Typed
    <2>. HIDE DEF Typed
    <2>. QED BY <1>1, <1>2, Induction
<1>. QED BY <1>3

Char == 0..255

Texts == Seq(Char)

\* The empty text is one.
LEMMA NoText == <<>> \in Texts
BY DEF Texts

-----------------------------------------------------------------------------
(* The end of a head.                                                      *)

Counters == [crlf : 0..3, lf : 0..1, found : BOOLEAN, at : Nat]

NoMatch == [crlf |-> 0, lf |-> 0, found |-> FALSE, at |-> 0]

Matches(s) ==
    CHOOSE f : f = [i \in 0..Len(s) |-> IF i = 0 THEN NoMatch ELSE EndStep(f[i - 1], s[i])]

\* The counters keep their ranges.
LEMMA EndStepType ==
    ASSUME NEW m \in Counters, NEW ch
    PROVE  EndStep(m, ch) \in Counters
<1>1. m.crlf \in 0..3 /\ m.lf \in 0..1 /\ m.found \in BOOLEAN /\ m.at \in Nat
    BY DEF Counters
<1>2. CASE m.found
    BY <1>2 DEF EndStep
<1>3. CASE ~m.found /\ ch = LF
    <2>1. EndStep(m, ch) =
            [crlf |-> CASE m.crlf = 1 -> 2 [] m.crlf = 2 -> 0 [] OTHER -> m.crlf,
             lf |-> 1, found |-> m.crlf = 3 \/ m.lf = 1, at |-> m.at + 1]
        BY <1>3 DEF EndStep, LF, CR
    <2>. QED BY <1>1, <2>1 DEF Counters
<1>4. CASE ~m.found /\ ch = CR
    <2>1. EndStep(m, ch) =
            [crlf |-> CASE m.crlf = 0 -> 1 [] m.crlf = 2 -> 3 [] OTHER -> 0,
             lf |-> 0, found |-> FALSE, at |-> m.at + 1]
        BY <1>4 DEF EndStep, LF, CR
    <2>. QED BY <1>1, <2>1 DEF Counters
<1>5. CASE ~m.found /\ ch # LF /\ ch # CR
    <2>1. EndStep(m, ch) = [crlf |-> 0, lf |-> 0, found |-> FALSE, at |-> m.at + 1]
        BY <1>5 DEF EndStep
    <2>. QED BY <1>1, <2>1 DEF Counters
<1>. QED BY <1>2, <1>3, <1>4, <1>5

\* HeadEnd is the last value of its loop, and each comes from the one before.
LEMMA MatchesAre ==
    ASSUME NEW s \in Texts
    PROVE  /\ HeadEnd(s) = Matches(s)[Len(s)]
           /\ Matches(s)[0] = NoMatch
           /\ \A i \in 1..Len(s) : Matches(s)[i] = EndStep(Matches(s)[i - 1], s[i])
           /\ \A i \in 0..Len(s) : Matches(s)[i] \in Counters
<1> DEFINE F == [p \in Counters \X (1..Len(s)) |-> EndStep(p[1], s[p[2]])]
           Loop(f) == [i \in 0..Len(s) |-> IF i = 0 THEN NoMatch ELSE EndStep(f[i - 1], s[i])]
<1>1. Len(s) \in Nat
    BY DEF Texts
<1>2. NoMatch \in Counters
    BY DEF NoMatch, Counters
<1>3. \A m \in Counters, i \in 1..Len(s) : F[<<m, i>>] = EndStep(m, s[i])
    OBVIOUS
<1>4. F \in [Counters \X (1..Len(s)) -> Counters]
    BY EndStepType
<1>. HIDE DEF F
<1>5. PICK f \in [0..Len(s) -> Counters] :
          f[0] = NoMatch /\ \A i \in 1..Len(s) : f[i] = F[<<f[i-1], i>>]
    <2>1. HasLoop(Len(s), Counters, NoMatch, F)
        BY <1>1, <1>2, <1>4, LoopExists
    <2>. QED BY <2>1 DEF HasLoop
<1>6. \A i \in 0..Len(s) : i = 0 \/ (i - 1 \in 0..Len(s) /\ i \in 1..Len(s))
    BY <1>1
<1>7. f = Loop(f)
    <2>1. \A i \in 0..Len(s) : f[i] = IF i = 0 THEN NoMatch ELSE EndStep(f[i - 1], s[i])
        BY <1>3, <1>5, <1>6
    <2>. QED BY <2>1
<1>8. Matches(s) = Loop(Matches(s))
    BY <1>7 DEF Matches
<1>9. HeadEnd(s) = Matches(s)[Len(s)]
    BY DEF HeadEnd, Matches, NoMatch
<1>10. \A i \in 0..Len(s) : Loop(Matches(s))[i]
            = IF i = 0 THEN NoMatch ELSE EndStep(Matches(s)[i - 1], s[i])
    OBVIOUS
<1>. HIDE DEF Loop
<1>11. \A i \in 0..Len(s) : Matches(s)[i]
            = IF i = 0 THEN NoMatch ELSE EndStep(Matches(s)[i - 1], s[i])
    BY <1>8, <1>10
<1>12. 0 \in 0..Len(s) /\ \A i \in 1..Len(s) : i \in 0..Len(s) /\ i # 0
    BY <1>1
<1>13. Matches(s)[0] = NoMatch
    BY <1>11, <1>12
<1>14. \A i \in 1..Len(s) : Matches(s)[i] = EndStep(Matches(s)[i - 1], s[i])
    BY <1>11, <1>12
<1>15. \A i \in 1..Len(s) : Matches(s)[i - 1] \in Counters => Matches(s)[i] \in Counters
    BY <1>14, EndStepType
<1>16. \A i \in 0..Len(s) : Matches(s)[i] \in Counters
    <2> DEFINE g == Matches(s)
               A == Counters
    <2>. HIDE DEF g, A
    <2>1. \A i \in 0..Len(s) : g[i] \in A
        BY <1>1, <1>2, <1>13, <1>15, LoopStays DEF g, A
    <2>. QED BY <2>1 DEF g, A
<1>. QED BY <1>9, <1>13, <1>14, <1>16

\* What a step makes of the counters, character by character.
LEMMA EndStepFields ==
    ASSUME NEW m \in Counters, NEW ch, NEW n, n = EndStep(m, ch)
    PROVE  /\ m.found => n = m
           /\ ~m.found => n.at = m.at + 1
           /\ ~m.found /\ ch = LF => /\ n.lf = 1
                                     /\ n.found <=> m.crlf = 3 \/ m.lf = 1
                                     /\ m.crlf = 0 => n.crlf = 0
                                     /\ m.crlf = 1 => n.crlf = 2
                                     /\ m.crlf = 2 => n.crlf = 0
                                     /\ m.crlf = 3 => n.crlf = 3
           /\ ~m.found /\ ch = CR => /\ n.lf = 0
                                     /\ ~n.found
                                     /\ m.crlf = 0 => n.crlf = 1
                                     /\ m.crlf = 1 => n.crlf = 0
                                     /\ m.crlf = 2 => n.crlf = 3
                                     /\ m.crlf = 3 => n.crlf = 0
           /\ ~m.found /\ ch # LF /\ ch # CR => n.lf = 0 /\ ~n.found /\ n.crlf = 0
<1>1. m.crlf \in 0..3 /\ m.lf \in 0..1 /\ m.found \in BOOLEAN /\ m.at \in Nat
    BY DEF Counters
<1>2. CASE m.found
    BY <1>2 DEF EndStep
<1>3. CASE ~m.found /\ ch = LF
    <2>1. EndStep(m, ch) =
            [crlf |-> CASE m.crlf = 1 -> 2 [] m.crlf = 2 -> 0 [] OTHER -> m.crlf,
             lf |-> 1, found |-> m.crlf = 3 \/ m.lf = 1, at |-> m.at + 1]
        BY <1>3 DEF EndStep, LF, CR
    <2>2. ch # CR
        BY <1>3 DEF LF, CR
    <2>3. n.lf = 1 /\ n.at = m.at + 1 /\ n.found = (m.crlf = 3 \/ m.lf = 1)
        BY <2>1
    <2>4. n.crlf = CASE m.crlf = 1 -> 2 [] m.crlf = 2 -> 0 [] OTHER -> m.crlf
        BY <2>1
    <2>5. /\ m.crlf = 0 => n.crlf = 0
          /\ m.crlf = 1 => n.crlf = 2
          /\ m.crlf = 2 => n.crlf = 0
          /\ m.crlf = 3 => n.crlf = 3
        BY <1>1, <2>4
    <2>6. n.found <=> m.crlf = 3 \/ m.lf = 1
        <3>1. (m.crlf = 3 \/ m.lf = 1) \in BOOLEAN
            OBVIOUS
        <3>. QED BY <2>3, <3>1
    <2>7. n.lf = 1 /\ n.at = m.at + 1
        BY <2>3
    <2>. QED BY <1>3, <2>2, <2>5, <2>6, <2>7
<1>4. CASE ~m.found /\ ch = CR
    <2>1. EndStep(m, ch) =
            [crlf |-> CASE m.crlf = 0 -> 1 [] m.crlf = 2 -> 3 [] OTHER -> 0,
             lf |-> 0, found |-> FALSE, at |-> m.at + 1]
        BY <1>4 DEF EndStep, LF, CR
    <2>2. ch # LF
        BY <1>4 DEF LF, CR
    <2>. QED BY <1>1, <1>4, <2>1, <2>2
<1>5. CASE ~m.found /\ ch # LF /\ ch # CR
    <2>1. EndStep(m, ch) = [crlf |-> 0, lf |-> 0, found |-> FALSE, at |-> m.at + 1]
        BY <1>5 DEF EndStep
    <2>. QED BY <1>1, <1>5, <2>1
<1>. QED BY <1>2, <1>3, <1>4, <1>5

\* A blank line ends with character i of s.
Blank(s, i) ==
    \/ i >= 4 /\ s[i - 3] = CR /\ s[i - 2] = LF /\ s[i - 1] = CR /\ s[i] = LF
    \/ i >= 2 /\ s[i - 1] = LF /\ s[i] = LF

NoDoubleCR(s) == \A i \in 1..Len(s) : i >= 2 => ~(s[i - 1] = CR /\ s[i] = CR)

\* An end was found where a blank line ends.
FoundIsBlank(s, i, m) == m.found => m.at \in 1..i /\ Blank(s, m.at)

\* What the counters count was read.
CountedWasRead(s, i, m) ==
    ~m.found =>
        /\ m.at = i
        /\ m.lf = 1 => i >= 1 /\ s[i] = LF
        /\ m.crlf = 1 => i >= 1 /\ s[i] = CR
        /\ m.crlf = 2 => i >= 2 /\ s[i - 1] = CR /\ s[i] = LF
        /\ m.crlf = 3 => i >= 3 /\ s[i - 2] = CR /\ s[i - 1] = LF /\ s[i] = CR

\* What was read is counted, where no line ends in two carriage returns.
ReadIsCounted(s, i, m) ==
    ~m.found =>
        /\ i >= 1 /\ s[i] = LF => m.lf = 1
        /\ i >= 1 /\ s[i] = CR => m.crlf \in {1, 3}
        /\ i >= 2 /\ s[i - 1] = CR /\ s[i] = LF => m.crlf = 2
        /\ i >= 3 /\ s[i - 2] = CR /\ s[i - 1] = LF /\ s[i] = CR => m.crlf = 3

BlankIsFound(s, i, m) == \A j \in 1..i : Blank(s, j) => m.found /\ m.at <= j

HeadScan(s, i, m) ==
    /\ FoundIsBlank(s, i, m)
    /\ CountedWasRead(s, i, m)
    /\ NoDoubleCR(s) => ReadIsCounted(s, i, m) /\ BlankIsFound(s, i, m)

\* A character keeps what is known of the scan,
LEMMA HeadScanStep ==
    ASSUME NEW s \in Texts, NEW i \in Nat, i + 1 <= Len(s),
           NEW m \in Counters, HeadScan(s, i, m), NEW n \in Counters, n = EndStep(m, s[i + 1])
    PROVE  HeadScan(s, i + 1, n)
<1>1. /\ m.crlf \in 0..3 /\ m.lf \in 0..1 /\ m.found \in BOOLEAN /\ m.at \in Nat
      /\ n.crlf \in 0..3 /\ n.lf \in 0..1 /\ n.found \in BOOLEAN /\ n.at \in Nat
    BY DEF Counters
<1>2. LF # CR /\ i + 1 \in 1..Len(s) /\ i + 1 - 1 = i /\ i + 1 - 2 = i - 1 /\ i + 1 - 3 = i - 2
    BY DEF LF, CR, Texts
<1>3. CASE m.found
    <2>1. n = m
        BY <1>3, EndStepFields
    <2>2. FoundIsBlank(s, i + 1, m) /\ CountedWasRead(s, i + 1, m)
        BY <1>1, <1>3 DEF HeadScan, FoundIsBlank, CountedWasRead
    <2>3. ASSUME NoDoubleCR(s) PROVE ReadIsCounted(s, i + 1, m) /\ BlankIsFound(s, i + 1, m)
        <3>1. ReadIsCounted(s, i + 1, m)
            BY <1>3 DEF ReadIsCounted
        <3>2. m.at <= i + 1
            BY <1>1, <1>3 DEF HeadScan, FoundIsBlank
        <3>3. \A j \in 1..(i + 1) : j \in 1..i \/ j = i + 1
            OBVIOUS
        <3>4. BlankIsFound(s, i + 1, m)
            BY <1>3, <2>3, <3>2, <3>3 DEF HeadScan, BlankIsFound
        <3>. QED BY <3>1, <3>4
    <2>. QED BY <2>1, <2>2, <2>3 DEF HeadScan
<1>4. CASE ~m.found
    <2>1. n.at = i + 1
        BY <1>1, <1>4, EndStepFields DEF HeadScan, CountedWasRead
    <2>2. FoundIsBlank(s, i + 1, n)
        <3>1. SUFFICES ASSUME n.found PROVE Blank(s, i + 1)
            BY <2>1 DEF FoundIsBlank
        <3>2. s[i + 1] = LF /\ (m.crlf = 3 \/ m.lf = 1)
            BY <1>4, <3>1, EndStepFields
        <3>. QED BY <1>2, <1>4, <3>2 DEF HeadScan, CountedWasRead, Blank
    <2>3. CountedWasRead(s, i + 1, n)
        <3>1. CASE s[i + 1] = LF
            BY <1>1, <1>2, <1>4, <2>1, <3>1, EndStepFields DEF HeadScan, CountedWasRead
        <3>2. CASE s[i + 1] = CR
            BY <1>1, <1>2, <1>4, <2>1, <3>2, EndStepFields DEF HeadScan, CountedWasRead
        <3>3. CASE s[i + 1] # LF /\ s[i + 1] # CR
            BY <1>1, <1>2, <1>4, <2>1, <3>3, EndStepFields DEF CountedWasRead
        <3>. QED BY <3>1, <3>2, <3>3
    <2>4. ASSUME NoDoubleCR(s) PROVE ReadIsCounted(s, i + 1, n) /\ BlankIsFound(s, i + 1, n)
        <3>1. i >= 1 => ~(s[i] = CR /\ s[i + 1] = CR)
            BY <1>2, <2>4 DEF NoDoubleCR
        <3>2. ReadIsCounted(s, i, m) /\ BlankIsFound(s, i, m)
            BY <2>4 DEF HeadScan
        <3>3. ReadIsCounted(s, i + 1, n)
            <4>1. CASE s[i + 1] = LF
                BY <1>1, <1>2, <1>4, <3>2, <4>1, EndStepFields DEF ReadIsCounted
            <4>2. CASE s[i + 1] = CR
                <5>1. m.crlf = 0 \/ m.crlf = 2
                    BY <1>1, <1>4, <3>1, <4>2 DEF HeadScan, CountedWasRead
                <5>. QED BY <1>1, <1>2, <1>4, <3>2, <4>2, <5>1, EndStepFields DEF ReadIsCounted
            <4>3. CASE s[i + 1] # LF /\ s[i + 1] # CR
                BY <1>2, <4>3 DEF ReadIsCounted
            <4>. QED BY <4>1, <4>2, <4>3
        <3>4. BlankIsFound(s, i + 1, n)
            <4>1. SUFFICES ASSUME NEW j \in 1..(i + 1), Blank(s, j) PROVE n.found /\ n.at <= j
                BY DEF BlankIsFound
            <4>2. ~ (j \in 1..i)
                BY <1>4, <3>2, <4>1 DEF BlankIsFound
            <4>3. j = i + 1
                BY <4>2
            <4>4. s[i + 1] = LF /\ (m.crlf = 3 \/ m.lf = 1)
                BY <1>2, <1>4, <3>2, <4>1, <4>3 DEF Blank, ReadIsCounted
            <4>5. n.found
                BY <1>4, <4>4, EndStepFields
            <4>. QED BY <2>1, <4>3, <4>5
        <3>. QED BY <3>3, <3>4
    <2>. QED BY <2>2, <2>3, <2>4 DEF HeadScan
<1>. QED BY <1>3, <1>4

\* so it is known of the whole text.
LEMMA HeadScanned ==
    ASSUME NEW s \in Texts
    PROVE  HeadScan(s, Len(s), HeadEnd(s)) /\ HeadEnd(s) \in Counters
<1> DEFINE Scanned == {i \in Nat : i <= Len(s) => HeadScan(s, i, Matches(s)[i])}
<1>1. Len(s) \in Nat /\ 0 \in 0..Len(s) /\ Len(s) \in 0..Len(s)
    BY DEF Texts
<1>2. 0 \in Scanned
    <2>1. Matches(s)[0] = NoMatch
        BY MatchesAre
    <2>2. ~NoMatch.found /\ NoMatch.at = 0 /\ NoMatch.lf = 0 /\ NoMatch.crlf = 0
        BY DEF NoMatch
    <2>3. FoundIsBlank(s, 0, NoMatch) /\ CountedWasRead(s, 0, NoMatch)
        BY <2>2 DEF FoundIsBlank, CountedWasRead
    <2>4. ReadIsCounted(s, 0, NoMatch) /\ BlankIsFound(s, 0, NoMatch)
        BY <2>2 DEF ReadIsCounted, BlankIsFound
    <2>. QED BY <2>1, <2>3, <2>4 DEF HeadScan
<1>3. ASSUME NEW i \in Nat, i \in Scanned PROVE i + 1 \in Scanned
    <2>1. SUFFICES ASSUME i + 1 <= Len(s) PROVE HeadScan(s, i + 1, Matches(s)[i + 1])
        OBVIOUS
    <2>2. i + 1 \in 1..Len(s) /\ i + 1 - 1 = i /\ i <= Len(s)
          /\ i \in 0..Len(s) /\ i + 1 \in 0..Len(s)
        BY <1>1, <2>1
    <2>3. HeadScan(s, i, Matches(s)[i])
        BY <1>3, <2>2
    <2>4. Matches(s)[i] \in Counters /\ Matches(s)[i + 1] \in Counters
        BY <2>2, MatchesAre
    <2>5. Matches(s)[i + 1] = EndStep(Matches(s)[i], s[i + 1])
        BY <2>2, MatchesAre
    <2>. QED BY <2>1, <2>3, <2>4, <2>5, HeadScanStep
<1>4. Len(s) \in Scanned
    <2>. HIDE DEF Scanned
    <2>. QED BY <1>1, <1>2, <1>3, Induction
<1>. QED BY <1>1, <1>4, MatchesAre

\* What it is for a text to end in two characters,
LEMMA EndsInTwo ==
    ASSUME NEW s \in Texts, NEW i \in 1..Len(s), NEW a, NEW b
    PROVE  EndsIn(s, i, <<a, b>>) <=> i >= 2 /\ s[i - 1] = a /\ s[i] = b
<1>1. Len(<<a, b>>) = 2 /\ Len(s) \in Nat
    BY DEF Texts
<1>2. CASE i >= 2
    <2> DEFINE u == SubSeq(s, i - 1, i)
    <2>1. u = <<s[i - 1], s[i]>>
        <3>1. s \in Seq(Char) /\ i - 1 \in 1..Len(s) /\ i \in Nat /\ i <= Len(s)
            BY <1>1, <1>2 DEF Texts
        <3>2. u \in Seq(Char) /\ Len(u) = 2
            BY <3>1
        <3>3. u[1] = s[i - 1] /\ u[2] = s[i]
            BY <3>1, <1>2
        <3>. HIDE DEF u
        <3>. QED BY <3>2, <3>3
    <2>2. i - 2 + 1 = i - 1
        OBVIOUS
    <2>. QED BY <1>1, <1>2, <2>1, <2>2 DEF EndsIn
<1>. QED BY <1>1, <1>2 DEF EndsIn

\* and in four.
LEMMA EndsInFour ==
    ASSUME NEW s \in Texts, NEW i \in 1..Len(s), NEW a, NEW b, NEW c, NEW d
    PROVE  EndsIn(s, i, <<a, b, c, d>>)
             <=> i >= 4 /\ s[i - 3] = a /\ s[i - 2] = b /\ s[i - 1] = c /\ s[i] = d
<1>1. Len(<<a, b, c, d>>) = 4 /\ Len(s) \in Nat
    BY DEF Texts
<1>2. CASE i >= 4
    <2> DEFINE u == SubSeq(s, i - 3, i)
    <2>1. u = <<s[i - 3], s[i - 2], s[i - 1], s[i]>>
        <3>1. s \in Seq(Char) /\ i - 3 \in 1..Len(s) /\ i \in Nat /\ i <= Len(s)
            BY <1>1, <1>2 DEF Texts
        <3>2. u \in Seq(Char) /\ Len(u) = 4
            BY <3>1
        <3>3. u[1] = s[i - 3] /\ u[2] = s[i - 2] /\ u[3] = s[i - 1] /\ u[4] = s[i]
            BY <3>1, <1>2
        <3>. HIDE DEF u
        <3>. QED BY <3>2, <3>3
    <2>2. i - 4 + 1 = i - 3
        OBVIOUS
    <2>. QED BY <1>1, <1>2, <2>1, <2>2 DEF EndsIn
<1>. QED BY <1>1, <1>2 DEF EndsIn

\* HeadEndIsBlankLine, of any text.
LEMMA HeadEndCorrect ==
    ASSUME text \in Texts
    PROVE  HeadEndIsBlankLine
<1> DEFINE e == HeadEnd(text)
           blank(i) == EndsIn(text, i, <<CR, LF, CR, LF>>) \/ EndsIn(text, i, <<LF, LF>>)
<1>1. Len(text) \in Nat
    BY DEF Texts
<1>2. HeadScan(text, Len(text), e) /\ e \in Counters
    BY HeadScanned
<1>3. \A i \in 1..Len(text) : blank(i) <=> Blank(text, i)
    BY EndsInTwo, EndsInFour DEF Blank
<1>4. (\A i \in 1..Len(text) : ~EndsIn(text, i, <<CR, CR>>)) => NoDoubleCR(text)
    BY EndsInTwo DEF NoDoubleCR
<1>. HIDE DEF e, blank
<1>5. e.found => e.at \in 1..Len(text) /\ Blank(text, e.at)
    BY <1>2 DEF HeadScan, FoundIsBlank
<1>6. e.found => e.at <= Len(text) /\ blank(e.at)
    BY <1>1, <1>3, <1>5
<1>7. (\A i \in 1..Len(text) : ~EndsIn(text, i, <<CR, CR>>)) =>
          \A i \in 1..Len(text) : blank(i) => e.found /\ e.at <= i
    BY <1>2, <1>3, <1>4 DEF HeadScan, BlankIsFound
<1>. QED BY <1>6, <1>7 DEF HeadEndIsBlankLine, e, blank

-----------------------------------------------------------------------------
(* Positions and pieces of texts.                                          *)

\* What Find returns: the first such character, or none.
LEMMA FindIsAt ==
    ASSUME NEW s \in Texts, NEW ch, NEW from \in Nat
    PROVE  /\ Find(s, ch, from) \in Int
           /\ Find(s, ch, from) # Npos => /\ Find(s, ch, from) \in from..(Len(s) - 1)
                                          /\ At(s, Find(s, ch, from)) = ch
           /\ \A i \in from..(Len(s) - 1) : At(s, i) = ch =>
                 Find(s, ch, from) # Npos /\ Find(s, ch, from) <= i
           /\ (\A i \in from..(Len(s) - 1) : At(s, i) # ch) => Find(s, ch, from) = Npos
<1> DEFINE hits == {i \in from..(Len(s) - 1) : At(s, i) = ch}
<1>1. hits \subseteq Nat
    OBVIOUS
<1>2. CASE hits = {}
    <2>1. Find(s, ch, from) = Npos
        BY <1>2 DEF Find
    <2>2. Npos \in Int
        BY DEF Npos
    <2>. QED BY <1>2, <2>1, <2>2
<1>3. CASE hits # {}
    <2>1. \E i \in hits : \A j \in hits : i <= j
        <3>. HIDE DEF hits
        <3>. QED BY <1>1, <1>3, LeastElement
    <2>2. Find(s, ch, from) = CHOOSE i \in hits : \A j \in hits : i <= j
        BY <1>3 DEF Find
    <2>3. Find(s, ch, from) \in hits /\ \A j \in hits : Find(s, ch, from) <= j
        <3>. HIDE DEF hits
        <3>. QED BY <2>1, <2>2
    <2>4. Npos \notin Nat
        BY DEF Npos
    <2>. QED BY <1>1, <1>3, <2>3, <2>4
<1>. QED BY <1>2, <1>3

\* A text holds characters, Thrown does not.
LEMMA ThrownIsNoText == Thrown \notin Texts
<1>1. Thrown[1] = -1 /\ 1 \in 1..Len(Thrown)
    BY DEF Thrown
<1>2. SUFFICES ASSUME Thrown \in Seq(Char) PROVE FALSE
    BY DEF Texts
<1>3. Thrown[1] \in Char
    <2>. HIDE DEF Char
    <2>. QED BY <1>1, <1>2
<1>. QED BY <1>1, <1>3 DEF Char

\* A substr that begins within its text does not throw.
LEMMA SubstrType ==
    ASSUME NEW s \in Texts, NEW pos \in Nat, pos <= Len(s), NEW n \in Int
    PROVE  Substr(s, pos, n) \in Texts
<1>1. s \in Seq(Char) /\ Len(s) \in Nat
    BY DEF Texts
<1>2. ASSUME NEW m \in Int, m <= Len(s) PROVE SubSeq(s, pos + 1, m) \in Texts
    <2>1. \A i \in (pos + 1)..m : i \in 1..Len(s)
        BY <1>1, <1>2
    <2>2. \A i \in (pos + 1)..m : s[i] \in Char
        BY <1>1, <2>1
    <2>. QED BY <1>1, <2>2, SubSeqProperties DEF Texts
<1>. QED BY <1>1, <1>2 DEF Substr

-----------------------------------------------------------------------------
(* Decoding.                                                               *)

\* What two characters are decoded to is a character.
LEMMA StrtolType ==
    ASSUME NEW a \in Char, NEW b \in Char
    PROVE  Strtol(a, b) \in Char
<1>1. ASSUME NEW ch \in Char PROVE HexValue(ch) \in -1..15
    BY DEF HexValue, Char
<1> DEFINE x == HexValue(a)
           y == HexValue(b)
<1>2. x \in -1..15 /\ y \in -1..15
    BY <1>1
<1>. HIDE DEF x, y
<1>3. (CASE x >= 0 /\ y >= 0 -> 16 * x + y
        [] x >= 0 /\ y < 0 -> x
        [] a \in {SP, Plus} \cup (9..13) /\ y >= 0 -> y
        [] a = Minus /\ y >= 0 -> (256 - y) % 256
        [] OTHER -> 0) \in 0..255
    <2>1. (256 - y) % 256 \in 0..255
        BY <1>2
    <2>2. x >= 0 /\ y >= 0 => 16 * x + y \in 0..255
        BY <1>2
    <2>. QED BY <1>2, <2>1, <2>2 DEF SP, Plus, Minus
<1>. QED BY <1>3 DEF Strtol, Char, x, y

Decoded == [out : Texts, skip : Nat]

\* A step of the decoder appends a character or nothing.
LEMMA DecodeStepType ==
    ASSUME NEW s \in Texts, NEW i \in 1..Len(s), NEW acc \in Decoded
    PROVE  DecodeStep(s, acc, i) \in Decoded
<1>1. acc.out \in Texts /\ acc.skip \in Nat /\ Len(s) \in Nat /\ i \in Nat
    BY DEF Decoded, Texts
<1>2. SP \in Char /\ s[i] \in Char
    <2>1. SP \in Char
        BY DEF SP, Char
    <2>2. s[i] \in Char
        BY DEF Texts
    <2>. QED BY <2>1, <2>2
<1>3. i + 2 <= Len(s) => Strtol(s[i + 1], s[i + 2]) \in Char
    <2>1. i + 2 <= Len(s) => i + 1 \in 1..Len(s) /\ i + 2 \in 1..Len(s)
        BY <1>1
    <2>2. i + 2 <= Len(s) => s[i + 1] \in Char /\ s[i + 2] \in Char
        BY <2>1 DEF Texts
    <2>. QED BY <2>2, StrtolType
<1>4. \A ch \in Char : Append(acc.out, ch) \in Texts
    BY <1>1 DEF Texts
<1>5. i + 2 \in Nat
    BY <1>1
<1>6. \A ch \in Char : [acc EXCEPT !.out = Append(@, ch)] \in Decoded
    BY <1>1, <1>4 DEF Decoded
<1>7. CASE i <= acc.skip
    BY <1>1, <1>7 DEF DecodeStep
<1>8. CASE i > acc.skip /\ s[i] = Percent /\ i + 2 <= Len(s)
    <2>1. DecodeStep(s, acc, i)
            = [out |-> Append(acc.out, Strtol(s[i + 1], s[i + 2])), skip |-> i + 2]
        BY <1>1, <1>8 DEF DecodeStep, Percent, Plus
    <2>. QED BY <1>3, <1>4, <1>5, <1>8, <2>1 DEF Decoded
<1>9. CASE i > acc.skip /\ ~(s[i] = Percent /\ i + 2 <= Len(s)) /\ s[i] = Plus
    <2>1. DecodeStep(s, acc, i) = [acc EXCEPT !.out = Append(@, SP)]
        BY <1>1, <1>9 DEF DecodeStep
    <2>. QED BY <1>2, <1>6, <2>1
<1>10. CASE i > acc.skip /\ ~(s[i] = Percent /\ i + 2 <= Len(s)) /\ s[i] # Plus
    <2>1. DecodeStep(s, acc, i) = [acc EXCEPT !.out = Append(@, s[i])]
        BY <1>1, <1>10 DEF DecodeStep
    <2>. QED BY <1>2, <1>6, <2>1
<1>. QED BY <1>1, <1>7, <1>8, <1>9, <1>10

Nothing == [out |-> <<>>, skip |-> 0]

Decodings(s) ==
    CHOOSE f : f = [i \in 0..Len(s) |-> IF i = 0 THEN Nothing ELSE DecodeStep(s, f[i - 1], i)]

\* Decode is the last value of its loop, and each comes from the one before.
LEMMA DecodingsAre ==
    ASSUME NEW s \in Texts
    PROVE  /\ Decode(s) = Decodings(s)[Len(s)].out
           /\ Decodings(s)[0] = Nothing
           /\ \A i \in 1..Len(s) : Decodings(s)[i] = DecodeStep(s, Decodings(s)[i - 1], i)
           /\ \A i \in 0..Len(s) : Decodings(s)[i] \in Decoded
<1> DEFINE F == [p \in Decoded \X (1..Len(s)) |-> DecodeStep(s, p[1], p[2])]
           Loop(f) == [i \in 0..Len(s) |-> IF i = 0 THEN Nothing ELSE DecodeStep(s, f[i - 1], i)]
<1>1. Len(s) \in Nat
    BY DEF Texts
<1>2. Nothing \in Decoded
    <2>1. Nothing.out = <<>> /\ Nothing.skip = 0
          /\ Nothing = [out |-> Nothing.out, skip |-> Nothing.skip]
        BY DEF Nothing
    <2>2. Nothing.out \in Texts /\ Nothing.skip \in Nat
        BY <2>1, NoText
    <2>. QED BY <2>1, <2>2 DEF Decoded
<1>3. \A m \in Decoded, i \in 1..Len(s) : F[<<m, i>>] = DecodeStep(s, m, i)
    OBVIOUS
<1>4. F \in [Decoded \X (1..Len(s)) -> Decoded]
    BY DecodeStepType
<1>. HIDE DEF F
<1>5. PICK f \in [0..Len(s) -> Decoded] :
          f[0] = Nothing /\ \A i \in 1..Len(s) : f[i] = F[<<f[i-1], i>>]
    <2>1. HasLoop(Len(s), Decoded, Nothing, F)
        BY <1>1, <1>2, <1>4, LoopExists
    <2>. QED BY <2>1 DEF HasLoop
<1>6. \A i \in 0..Len(s) : i = 0 \/ (i - 1 \in 0..Len(s) /\ i \in 1..Len(s))
    BY <1>1
<1>7. f = Loop(f)
    <2>1. \A i \in 0..Len(s) : f[i] = IF i = 0 THEN Nothing ELSE DecodeStep(s, f[i - 1], i)
        BY <1>3, <1>5, <1>6
    <2>. QED BY <2>1
<1>8. Decodings(s) = Loop(Decodings(s))
    BY <1>7 DEF Decodings
<1>9. Decode(s) = Decodings(s)[Len(s)].out
    BY DEF Decode, Decodings, Nothing
<1>10. \A i \in 0..Len(s) : Loop(Decodings(s))[i]
            = IF i = 0 THEN Nothing ELSE DecodeStep(s, Decodings(s)[i - 1], i)
    OBVIOUS
<1>. HIDE DEF Loop
<1>11. \A i \in 0..Len(s) : Decodings(s)[i]
            = IF i = 0 THEN Nothing ELSE DecodeStep(s, Decodings(s)[i - 1], i)
    BY <1>8, <1>10
<1>12. 0 \in 0..Len(s) /\ \A i \in 1..Len(s) : i \in 0..Len(s) /\ i # 0
    BY <1>1
<1>13. Decodings(s)[0] = Nothing
    BY <1>11, <1>12
<1>14. \A i \in 1..Len(s) : Decodings(s)[i] = DecodeStep(s, Decodings(s)[i - 1], i)
    BY <1>11, <1>12
<1>15. \A i \in 1..Len(s) : Decodings(s)[i - 1] \in Decoded => Decodings(s)[i] \in Decoded
    BY <1>14, DecodeStepType
<1>16. \A i \in 0..Len(s) : Decodings(s)[i] \in Decoded
    <2> DEFINE g == Decodings(s)
               A == Decoded
    <2>. HIDE DEF g, A
    <2>1. \A i \in 0..Len(s) : g[i] \in A
        BY <1>1, <1>2, <1>13, <1>15, LoopStays DEF g, A
    <2>. QED BY <2>1 DEF g, A
<1>. QED BY <1>9, <1>13, <1>14, <1>16

\* What is decoded is a text.
LEMMA DecodeType ==
    ASSUME NEW s \in Texts
    PROVE  Decode(s) \in Texts
<1>1. Len(s) \in 0..Len(s)
    BY DEF Texts
<1>. QED BY <1>1, DecodingsAre DEF Decoded

-----------------------------------------------------------------------------
(* Query strings.                                                          *)

Fields == [name : Texts, value : Texts]

\* A field of two texts, by itself.
LEMMA OneField ==
    ASSUME NEW n \in Texts, NEW v \in Texts
    PROVE  Field(n, v) \in Fields /\ <<Field(n, v)>> \in Seq(Fields)
<1>1. Field(n, v) \in Fields
    BY DEF Field, Fields
<1> DEFINE f == Field(n, v)
<1>. HIDE DEF f
<1>2. <<f>> \in Seq(Fields)
    BY <1>1 DEF f
<1>. QED BY <1>1, <1>2 DEF f

\* No fields.
LEMMA NoFields == <<>> \in Seq(Fields)
OBVIOUS

\* The positions of the scan are within the text, or none.
Scans(q) == [fields : Seq(Fields), name : 0..Len(q), nameEnd : Int, value : Int]

FirstField == [fields |-> <<>>, name |-> 0, nameEnd |-> Npos, value |-> Npos]

QueryScans(q) ==
    CHOOSE f : f = [i \in 0..Len(q) |->
        IF i = 0 THEN FirstField ELSE QueryStep(q, f[i - 1], i - 1)]

\* The scan of a query string begins at its first character,
LEMMA FirstFieldType ==
    ASSUME NEW q \in Texts
    PROVE  FirstField \in Scans(q)
<1>1. 0 \in 0..Len(q) /\ Npos \in Int
    BY DEF Texts, Npos
<1>. QED BY <1>1, NoFields DEF FirstField, Scans

\* the field that it ends holds texts,
LEMMA QueryFieldType ==
    ASSUME NEW q \in Texts, NEW s \in Scans(q), NEW c \in Nat
    PROVE  QueryField(q, s, c) \in Seq(Fields)
<1> DEFINE n == (IF s.nameEnd = Npos THEN c ELSE s.nameEnd) - s.name
           name == Substr(q, s.name, n)
           value == IF s.value \notin 0..(Len(q) - 1) THEN <<>> ELSE Substr(q, s.value, c - s.value)
<1>1. /\ s.name \in Nat /\ s.name <= Len(q) /\ s.nameEnd \in Int /\ s.value \in Int
      /\ Len(q) \in Nat
    BY DEF Scans, Texts
<1>2. n \in Int
    BY <1>1
<1>3. name \in Texts
    <2>. HIDE DEF n
    <2>. QED BY <1>1, <1>2, SubstrType
<1>4. value \in Texts
    <2>1. s.value \in 0..(Len(q) - 1) => Substr(q, s.value, c - s.value) \in Texts
        <3>1. c - s.value \in Int
              /\ s.value \in 0..(Len(q) - 1) => s.value \in Nat /\ s.value <= Len(q)
            BY <1>1
        <3>. QED BY <3>1, SubstrType
    <2>. QED BY <2>1, NoText
<1>5. Decode(value) \in Texts
    <2>. HIDE DEF value
    <2>. QED BY <1>4, DecodeType
<1>6. QueryField(q, s, c) = IF name = <<>> THEN <<>> ELSE <<Field(name, Decode(value))>>
    BY DEF QueryField
<1>. HIDE DEF name, value
<1>. QED BY <1>3, <1>5, <1>6, OneField, NoFields

\* and a step leaves its positions within the text.
LEMMA QueryStepType ==
    ASSUME NEW q \in Texts, NEW i \in 1..Len(q), NEW s \in Scans(q)
    PROVE  QueryStep(q, s, i - 1) \in Scans(q)
<1> DEFINE c == i - 1
<1>1. /\ s.fields \in Seq(Fields) /\ s.name \in 0..Len(q) /\ s.nameEnd \in Int /\ s.value \in Int
      /\ Npos \in Int
    BY DEF Scans, Npos
<1>2. c \in Nat /\ c + 1 \in 0..Len(q) /\ c + 1 \in Nat
    BY DEF Texts
<1>. HIDE DEF c
<1>3. Amp # Equal
    BY DEF Amp, Equal
<1>4. CASE At(q, c) = Amp
    <2>1. QueryStep(q, s, c) = [fields |-> s.fields \o QueryField(q, s, c),
                                name |-> c + 1, nameEnd |-> Npos, value |-> Npos]
        BY <1>3, <1>4 DEF QueryStep
    <2>2. QueryField(q, s, c) \in Seq(Fields)
        BY <1>2, QueryFieldType
    <2>3. s.fields \o QueryField(q, s, c) \in Seq(Fields)
        BY <1>1, <2>2, ConcatProperties
    <2>4. QueryStep(q, s, c) \in Scans(q)
        <3>. HIDE DEF Fields
        <3>. QED BY <1>1, <1>2, <2>1, <2>3 DEF Scans
    <2>. QED BY <2>4 DEF c
<1>5. CASE At(q, c) = Equal
    <2>1. QueryStep(q, s, c) = [s EXCEPT !.nameEnd = c, !.value = c + 1]
        BY <1>3, <1>5 DEF QueryStep
    <2>2. c \in Int /\ c + 1 \in Int
        BY <1>2
    <2>3. QueryStep(q, s, c) \in Scans(q)
        <3>. HIDE DEF Fields
        <3>. QED BY <1>1, <2>1, <2>2 DEF Scans
    <2>. QED BY <2>3 DEF c
<1>6. CASE At(q, c) # Amp /\ At(q, c) # Equal
    BY <1>6 DEF QueryStep, c
<1>. QED BY <1>4, <1>5, <1>6

\* QueryScan is the last value of its loop, and each comes from the one before.
LEMMA QueryScansAre ==
    ASSUME NEW q \in Texts
    PROVE  /\ QueryScan(q) = QueryScans(q)[Len(q)]
           /\ QueryScans(q)[0] = FirstField
           /\ \A i \in 1..Len(q) : QueryScans(q)[i] = QueryStep(q, QueryScans(q)[i - 1], i - 1)
           /\ \A i \in 0..Len(q) : QueryScans(q)[i] \in Scans(q)
<1> DEFINE F == [p \in Scans(q) \X (1..Len(q)) |-> QueryStep(q, p[1], p[2] - 1)]
           Loop(f) == [i \in 0..Len(q) |->
                         IF i = 0 THEN FirstField ELSE QueryStep(q, f[i - 1], i - 1)]
<1>1. Len(q) \in Nat
    BY DEF Texts
<1>2. FirstField \in Scans(q)
    BY FirstFieldType
<1>3. \A m \in Scans(q), i \in 1..Len(q) : F[<<m, i>>] = QueryStep(q, m, i - 1)
    OBVIOUS
<1>4. F \in [Scans(q) \X (1..Len(q)) -> Scans(q)]
    BY QueryStepType
<1>. HIDE DEF F
<1>5. PICK f \in [0..Len(q) -> Scans(q)] :
          f[0] = FirstField /\ \A i \in 1..Len(q) : f[i] = F[<<f[i-1], i>>]
    <2>1. HasLoop(Len(q), Scans(q), FirstField, F)
        BY <1>1, <1>2, <1>4, LoopExists
    <2>. QED BY <2>1 DEF HasLoop
<1>6. \A i \in 0..Len(q) : i = 0 \/ (i - 1 \in 0..Len(q) /\ i \in 1..Len(q))
    BY <1>1
<1>7. f = Loop(f)
    <2>1. \A i \in 0..Len(q) : f[i] = IF i = 0 THEN FirstField ELSE QueryStep(q, f[i - 1], i - 1)
        BY <1>3, <1>5, <1>6
    <2>. QED BY <2>1
<1>8. QueryScans(q) = Loop(QueryScans(q))
    BY <1>7 DEF QueryScans
<1>9. QueryScan(q) = QueryScans(q)[Len(q)]
    BY DEF QueryScan, QueryScans, FirstField
<1>10. \A i \in 0..Len(q) : Loop(QueryScans(q))[i]
            = IF i = 0 THEN FirstField ELSE QueryStep(q, QueryScans(q)[i - 1], i - 1)
    OBVIOUS
<1>. HIDE DEF Loop
<1>11. \A i \in 0..Len(q) : QueryScans(q)[i]
            = IF i = 0 THEN FirstField ELSE QueryStep(q, QueryScans(q)[i - 1], i - 1)
    BY <1>8, <1>10
<1>12. 0 \in 0..Len(q) /\ \A i \in 1..Len(q) : i \in 0..Len(q) /\ i # 0
    BY <1>1
<1>13. QueryScans(q)[0] = FirstField
    BY <1>11, <1>12
<1>14. \A i \in 1..Len(q) : QueryScans(q)[i] = QueryStep(q, QueryScans(q)[i - 1], i - 1)
    BY <1>11, <1>12
<1>15. \A i \in 1..Len(q) : QueryScans(q)[i - 1] \in Scans(q) => QueryScans(q)[i] \in Scans(q)
    BY <1>14, QueryStepType
<1>16. \A i \in 0..Len(q) : QueryScans(q)[i] \in Scans(q)
    <2> DEFINE g == QueryScans(q)
               A == Scans(q)
    <2>. HIDE DEF g, A
    <2>1. \A i \in 0..Len(q) : g[i] \in A
        BY <1>1, <1>2, <1>13, <1>15, LoopStays DEF g, A
    <2>. QED BY <2>1 DEF g, A
<1>. QED BY <1>9, <1>13, <1>14, <1>16

\* The fields of a query string hold texts.
LEMMA QueryParseType ==
    ASSUME NEW q \in Texts
    PROVE  QueryParse(q) \in Seq(Fields)
<1> DEFINE s == QueryScan(q)
<1>1. Len(q) \in 0..Len(q) /\ Len(q) \in Nat
    BY DEF Texts
<1>2. s \in Scans(q)
    BY <1>1, QueryScansAre
<1>. HIDE DEF s
<1>3. s.fields \in Seq(Fields)
    BY <1>2 DEF Scans
<1>4. QueryField(q, s, Len(q)) \in Seq(Fields)
    BY <1>1, <1>2, QueryFieldType
<1>5. s.fields \o QueryField(q, s, Len(q)) \in Seq(Fields)
    BY <1>3, <1>4, ConcatProperties
<1>6. QueryParse(q) = IF s.name < Len(q) THEN s.fields \o QueryField(q, s, Len(q)) ELSE s.fields
    BY DEF QueryParse, s
<1>. QED BY <1>3, <1>5, <1>6

-----------------------------------------------------------------------------
(* Lines and header fields.                                                *)

\* Lines are texts,
LEMMA LinesType ==
    ASSUME NEW s \in Texts
    PROVE  Lines(s) \in Seq(Texts)
<1> DEFINE line(i) == Substr(s, i - 1, Find(s, LF, i - 1) - (i - 1))
           parts == [i \in 1..Len(s) |->
                        IF i = 1 \/ s[i - 1] = LF THEN <<line(i)>> ELSE <<>>]
<1>1. Len(s) \in Nat
    BY DEF Texts
<1>2. ASSUME NEW i \in 1..Len(s) PROVE line(i) \in Texts
    <2>1. i - 1 \in Nat /\ i - 1 <= Len(s)
        BY <1>1
    <2>2. Find(s, LF, i - 1) - (i - 1) \in Int
        BY <2>1, FindIsAt
    <2>. QED BY <2>1, <2>2, SubstrType
<1>3. Lines(s) = FlattenSeq(parts)
    BY DEF Lines
<1>. HIDE DEF line
<1>4. parts \in Seq(Seq(Texts))
    <2>1. \A i \in 1..Len(s) : parts[i] \in Seq(Texts)
        BY <1>2
    <2>2. parts \in [1..Len(s) -> Seq(Texts)]
        BY <2>1
    <2>. QED BY <1>1, <2>2, IsASeq
<1>. HIDE DEF parts
<1>. QED BY <1>3, <1>4, FlattenType

\* the field of a line holds texts,
LEMMA HeaderFieldType ==
    ASSUME NEW line \in Texts
    PROVE  HeaderField(line) \in Seq(Fields)
<1> DEFINE colon == Find(line, Colon, 0)
           starts == {i \in (colon + 1)..(Len(line) - 1) :
                         \A j \in (colon + 1)..(i - 1) : At(line, j) = SP}
           start == CHOOSE i \in starts : At(line, i) # SP \/ i = Len(line) - 1
           short == Len(line) - start - (IF EndsInCR(line) THEN 1 ELSE 0)
<1>1. colon \in Int /\ Len(line) \in Nat /\ (colon # Npos => colon \in Nat)
    BY FindIsAt DEF Texts
<1>2. CASE colon = Npos \/ colon + 1 >= Len(line)
    BY <1>2, NoFields DEF HeaderField
<1>3. CASE colon # Npos /\ colon + 1 < Len(line)
    <2>. HIDE DEF colon
    <2> DEFINE stops == {i \in (colon + 1)..(Len(line) - 1) :
                            At(line, i) # SP \/ i = Len(line) - 1}
    <2>1. stops \subseteq Nat /\ Len(line) - 1 \in stops
        BY <1>1, <1>3
    <2>2. PICK i \in stops : \A j \in stops : i <= j
        <3>. HIDE DEF stops
        <3>. QED BY <2>1, LeastElement
    <2>3. i \in starts /\ (At(line, i) # SP \/ i = Len(line) - 1)
        <3>1. i \in (colon + 1)..(Len(line) - 1) /\ (At(line, i) # SP \/ i = Len(line) - 1)
            OBVIOUS
        <3>2. \A j \in (colon + 1)..(i - 1) : j \in (colon + 1)..(Len(line) - 1) /\ ~(i <= j)
            BY <1>1, <3>1
        <3>3. \A j \in (colon + 1)..(i - 1) : At(line, j) = SP
            BY <2>2, <3>2
        <3>. QED BY <3>1, <3>3
    <2>4. start \in starts
        BY <2>3
    <2>5. start \in Nat /\ start <= Len(line)
        BY <1>1, <1>3, <2>4
    <2>. HIDE DEF start
    <2>6. short \in Int
        BY <1>1, <2>5
    <2>7. Substr(line, start, short) \in Texts
        <3>. HIDE DEF short
        <3>. QED BY <2>5, <2>6, SubstrType
    <2>8. Substr(line, 0, colon) \in Texts
        BY <1>1, SubstrType
    <2>9. HeaderField(line) = <<Field(Substr(line, 0, colon), Substr(line, start, short))>>
        BY <1>1, <1>3 DEF HeaderField, colon, start
    <2>. QED BY <2>7, <2>8, <2>9, OneField
<1>. QED BY <1>1, <1>2, <1>3

\* and so do the fields of a head.
LEMMA HeaderParseType ==
    ASSUME NEW s \in Texts
    PROVE  HeaderParse(s) \in Seq(Fields)
<1> DEFINE lines == Lines(s)
           ends == {i \in 1..Len(lines) : Find(lines[i], Colon, 0) = Npos}
           n == IF ends = {} THEN Len(lines)
                ELSE (CHOOSE i \in ends : \A j \in ends : i <= j) - 1
           parts == [i \in 1..n |-> HeaderField(lines[i])]
<1>1. lines \in Seq(Texts)
    BY LinesType
<1>2. HeaderParse(s) = FlattenSeq(parts)
    BY DEF HeaderParse
<1>. HIDE DEF lines
<1>3. n \in Nat /\ n <= Len(lines)
    <2>1. Len(lines) \in Nat /\ ends \subseteq 1..Len(lines) /\ ends \subseteq Nat
        BY <1>1
    <2>. HIDE DEF ends
    <2>2. CASE ends = {}
        BY <2>1, <2>2
    <2>3. CASE ends # {}
        <3>1. \E i \in ends : \A j \in ends : i <= j
            BY <2>1, <2>3, LeastElement
        <3>2. (CHOOSE i \in ends : \A j \in ends : i <= j) \in ends
            BY <3>1
        <3> DEFINE e == CHOOSE i \in ends : \A j \in ends : i <= j
        <3>3. e \in 1..Len(lines) /\ n = e - 1
            BY <2>1, <2>3, <3>2
        <3>. HIDE DEF e, n
        <3>. QED BY <2>1, <3>3
    <2>. QED BY <2>2, <2>3
<1>. HIDE DEF n
<1>4. parts \in Seq(Seq(Fields))
    <2>1. \A i \in 1..n : lines[i] \in Texts
        BY <1>1, <1>3
    <2>2. \A i \in 1..n : HeaderField(lines[i]) \in Seq(Fields)
        BY <2>1, HeaderFieldType
    <2>3. parts \in [1..n -> Seq(Fields)]
        BY <2>2
    <2>. QED BY <1>3, <2>3, IsASeq
<1>. HIDE DEF parts
<1>. QED BY <1>2, <1>4, FlattenType

\* The first line is a text.
LEMMA FirstLineType ==
    ASSUME NEW s \in Texts
    PROVE  FirstLine(s) \in Texts /\ Rest(s) \in Texts
<1>1. FirstLine(s) \in Texts
    <2>1. 0 <= Len(s) /\ Find(s, LF, 0) \in Int
        BY FindIsAt DEF Texts
    <2>. QED BY <2>1, SubstrType DEF FirstLine
<1>2. Rest(s) \in Texts
    <2> DEFINE e == Find(s, LF, 0)
    <2>1. e # Npos => e + 1 \in Nat /\ e + 1 <= Len(s) /\ Npos \in Int
        BY FindIsAt DEF Texts, Npos
    <2>2. Rest(s) = IF e = Npos THEN <<>> ELSE Substr(s, e + 1, Npos)
        BY DEF Rest, From
    <2>. HIDE DEF e
    <2>. QED BY <2>1, <2>2, NoText, SubstrType
<1>. QED BY <1>1, <1>2


\* The parts of an accepted request line are texts.
LEMMA RequestParseType ==
    ASSUME NEW s \in Texts, RequestParse(s).ok
    PROVE  /\ RequestParse(s).method \in Texts
           /\ RequestParse(s).path \in Texts
           /\ RequestParse(s).query \in Texts
           /\ RequestParse(s).version \in Texts
           /\ RequestParse(s).header \in Seq(Fields)
<1> DEFINE line == FirstLine(s)
           methodEnd == Find(line, SP, 0)
           uriEnd == IF methodEnd = Npos THEN Npos ELSE Find(line, SP, methodEnd + 1)
           marks == {i \in (methodEnd + 1)..(Len(line) - 2) : i < uriEnd /\ At(line, i) = Question}
           query == IF marks = {} THEN Npos ELSE 1 + CHOOSE i \in marks : \A j \in marks : j <= i
           slash == IF uriEnd = Npos THEN Npos ELSE Find(line, Slash, uriEnd + 1)
           rejected == methodEnd = Npos \/ uriEnd = Npos \/ slash = Npos
                          \/ Substr(line, uriEnd + 1, slash - uriEnd - 1) # HTTP
           accepted == [ok |-> TRUE, method |-> Substr(line, 0, methodEnd),
              path |-> IF query = Npos THEN Substr(line, methodEnd + 1, uriEnd - methodEnd - 1)
                       ELSE Substr(line, methodEnd + 1, query - methodEnd - 2),
              query |-> IF query = Npos THEN <<>> ELSE Substr(line, query, uriEnd - query),
              version |-> Substr(line, slash + 1, Len(line) - slash - 2),
              header |-> HeaderParse(Rest(s))]
<1>1. RequestParse(s) = IF rejected THEN Rejected ELSE accepted
    BY DEF RequestParse
<1>2. line \in Texts /\ Rest(s) \in Texts
    BY FirstLineType
<1>. HIDE DEF line
<1>3. Len(line) \in Nat
    BY <1>2 DEF Texts
<1>4. ~rejected
    <2>. HIDE DEF rejected, accepted
    <2>. QED BY <1>1 DEF Rejected
<1>5. RequestParse(s) = accepted
    BY <1>1, <1>4
<1>6. methodEnd # Npos /\ methodEnd \in Nat /\ methodEnd + 1 <= Len(line)
    BY <1>2, <1>3, <1>4, FindIsAt
<1>7. uriEnd # Npos /\ uriEnd \in Nat /\ uriEnd + 1 <= Len(line)
    <2>1. uriEnd = Find(line, SP, methodEnd + 1) /\ uriEnd # Npos
        BY <1>4, <1>6
    <2>2. methodEnd + 1 \in Nat
        BY <1>6
    <2>. HIDE DEF methodEnd, uriEnd
    <2>. QED BY <1>2, <1>3, <2>1, <2>2, FindIsAt
<1>8. slash # Npos /\ slash \in Nat /\ slash + 1 <= Len(line)
    <2>1. slash = Find(line, Slash, uriEnd + 1) /\ slash # Npos
        BY <1>4, <1>7
    <2>2. uriEnd + 1 \in Nat
        BY <1>7
    <2>. HIDE DEF uriEnd, slash
    <2>. QED BY <1>2, <1>3, <2>1, <2>2, FindIsAt
<1>. HIDE DEF methodEnd, uriEnd, slash
<1>9. query # Npos => query \in Nat /\ query <= Len(line)
    <2>1. marks \subseteq (methodEnd + 1)..(Len(line) - 2)
        OBVIOUS
    <2>. HIDE DEF marks
    <2>2. SUFFICES ASSUME marks # {} PROVE query \in Nat /\ query <= Len(line)
        OBVIOUS
    <2>3. \E i \in marks : \A j \in marks : j <= i
        <3>1. marks \subseteq Nat /\ (\A n \in marks : n <= Len(line)) /\ Len(line) \in Int
            BY <1>3, <1>6, <2>1
        <3>. QED BY <2>2, <3>1, GreatestElement
    <2> DEFINE i == CHOOSE i \in marks : \A j \in marks : j <= i
    <2>4. i \in marks
        BY <2>3
    <2>5. query = 1 + i
        BY <2>2
    <2>. HIDE DEF i, query
    <2>. QED BY <1>3, <1>6, <2>1, <2>4, <2>5
<1>. HIDE DEF query
<1>10. Substr(line, 0, methodEnd) \in Texts
    BY <1>2, <1>3, <1>6, SubstrType
<1>11. Substr(line, methodEnd + 1, uriEnd - methodEnd - 1) \in Texts
    <2>1. methodEnd + 1 \in Nat /\ uriEnd - methodEnd - 1 \in Int
        BY <1>6, <1>7
    <2>. QED BY <1>2, <1>6, <2>1, SubstrType
<1>12. query # Npos => Substr(line, methodEnd + 1, query - methodEnd - 2) \in Texts
    <2>1. methodEnd + 1 \in Nat /\ (query # Npos => query - methodEnd - 2 \in Int)
        BY <1>6, <1>9
    <2>. QED BY <1>2, <1>6, <2>1, SubstrType
<1>13. query # Npos => Substr(line, query, uriEnd - query) \in Texts
    <2>1. query # Npos => uriEnd - query \in Int
        BY <1>7, <1>9
    <2>. QED BY <1>2, <1>9, <2>1, SubstrType
<1>14. Substr(line, slash + 1, Len(line) - slash - 2) \in Texts
    <2>1. slash + 1 \in Nat /\ Len(line) - slash - 2 \in Int
        BY <1>3, <1>8
    <2>. QED BY <1>2, <1>8, <2>1, SubstrType
<1>15. HeaderParse(Rest(s)) \in Seq(Fields)
    BY <1>2, HeaderParseType
<1>. HIDE DEF Texts, Fields
<1>16. accepted.method \in Texts
    BY <1>10
<1>17. accepted.path \in Texts
    BY <1>11, <1>12
<1>18. accepted.query \in Texts
    BY <1>13, NoText
<1>19. accepted.version \in Texts
    BY <1>14
<1>20. accepted.header \in Seq(Fields)
    BY <1>15
<1>. QED BY <1>5, <1>16, <1>17, <1>18, <1>19, <1>20

\* The parts of an accepted status line are texts.
LEMMA StatusParseType ==
    ASSUME NEW s \in Texts, StatusParse(s).ok
    PROVE  /\ StatusParse(s).version \in Texts
           /\ StatusParse(s).status \in Texts
           /\ StatusParse(s).header \in Seq(Fields)
<1> DEFINE line == FirstLine(s)
           versionEnd == Find(line, SP, 0)
           rejected == versionEnd = Npos \/ Len(line) <= 5 \/ versionEnd + 1 >= Len(line)
           rest == Len(line) - (versionEnd + 1) - (IF EndsInCR(line) THEN 1 ELSE 0)
           accepted == [ok |-> TRUE, version |-> Substr(line, 5, versionEnd - 5),
                        status |-> Substr(line, versionEnd + 1, rest),
                        header |-> HeaderParse(Rest(s))]
<1>1. StatusParse(s) = IF rejected THEN Rejected ELSE accepted
    BY DEF StatusParse
<1>2. line \in Texts /\ Rest(s) \in Texts
    BY FirstLineType
<1>. HIDE DEF line
<1>3. Len(line) \in Nat
    BY <1>2 DEF Texts
<1>4. ~rejected
    <2>. HIDE DEF rejected, accepted
    <2>. QED BY <1>1 DEF Rejected
<1>5. StatusParse(s) = accepted
    BY <1>1, <1>4
<1>6. versionEnd \in Nat /\ versionEnd + 1 \in Nat /\ versionEnd + 1 <= Len(line)
      /\ versionEnd - 5 \in Int /\ rest \in Int /\ 5 <= Len(line)
    BY <1>2, <1>3, <1>4, FindIsAt
<1>. HIDE DEF rest, versionEnd
<1>7. Substr(line, 5, versionEnd - 5) \in Texts
    BY <1>2, <1>6, SubstrType
<1>8. Substr(line, versionEnd + 1, rest) \in Texts
    BY <1>2, <1>6, SubstrType
<1>9. HeaderParse(Rest(s)) \in Seq(Fields)
    BY <1>2, HeaderParseType
<1>. HIDE DEF Texts, Fields
<1>10. accepted.version \in Texts /\ accepted.status \in Texts /\ accepted.header \in Seq(Fields)
    BY <1>7, <1>8, <1>9
<1>. QED BY <1>5, <1>10

-----------------------------------------------------------------------------
(* Attributes.                                                             *)

\* The end of a name is only known with its begin, and a value's begin only
\* with both.
Cuts(v) ==
    {s \in [fields : Seq(Fields), name : 0..Len(v) \cup {Npos}, nameEnd : Int,
            value : 0..Len(v) \cup {Npos}] :
        /\ s.nameEnd # Npos => s.name # Npos
        /\ s.value # Npos => s.nameEnd # Npos}

AttributeScans(v) ==
    CHOOSE f : f = [i \in 0..Len(v) |->
        IF i = 0 THEN Between(<<>>) ELSE AttributeStep(v, f[i - 1], i - 1)]

\* What the positions of the scan are.
LEMMA CutsAre ==
    ASSUME NEW v \in Texts, NEW f \in Seq(Fields), NEW n \in 0..Len(v) \cup {Npos},
           NEW e \in Int, NEW b \in 0..Len(v) \cup {Npos},
           e # Npos => n # Npos, b # Npos => e # Npos
    PROVE  [fields |-> f, name |-> n, nameEnd |-> e, value |-> b] \in Cuts(v)
<1>. HIDE DEF Texts, Fields
<1>. QED BY DEF Cuts

\* Between two attributes there are none,
LEMMA BetweenType ==
    ASSUME NEW v \in Texts, NEW f \in Seq(Fields)
    PROVE  Between(f) \in Cuts(v)
<1>1. Npos \in Int /\ Npos \in 0..Len(v) \cup {Npos}
    BY DEF Npos
<1>. QED BY <1>1, CutsAre DEF Between

\* as at the begin,
LEMMA BetweenNothing ==
    ASSUME NEW v \in Texts
    PROVE  Between(<<>>) \in Cuts(v)
BY NoFields, BetweenType

\* and a step leaves them within the text.
LEMMA AttributeStepType ==
    ASSUME NEW v \in Texts, NEW i \in 1..Len(v), NEW s \in Cuts(v)
    PROVE  AttributeStep(v, s, i - 1) \in Cuts(v)
<1> DEFINE c == i - 1
<1>1. /\ s.fields \in Seq(Fields) /\ s.nameEnd \in Int
      /\ s.name \in 0..Len(v) \cup {Npos} /\ s.value \in 0..Len(v) \cup {Npos}
      /\ s = [fields |-> s.fields, name |-> s.name, nameEnd |-> s.nameEnd, value |-> s.value]
    BY DEF Cuts
<1>2. (s.nameEnd # Npos => s.name # Npos) /\ (s.value # Npos => s.nameEnd # Npos)
    BY DEF Cuts
<1>3. /\ c \in Nat /\ c \in 0..Len(v) \cup {Npos} /\ Len(v) \in Nat
      /\ c + 1 < Len(v) => c + 1 \in 0..Len(v) \cup {Npos}
    BY DEF Texts
<1>4. ASSUME NEW pos \in 0..Len(v) \cup {Npos}, pos # Npos, NEW n \in Int
      PROVE  Substr(v, pos, n - pos) \in Texts
    <2>1. pos \in Nat /\ pos <= Len(v) /\ n - pos \in Int
        BY <1>3, <1>4
    <2>. QED BY <2>1, SubstrType
<1>. HIDE DEF c
<1> DEFINE begins == s.name = Npos /\ At(v, c) \notin {SP, Semicolon}
           bare == s.name # Npos /\ s.nameEnd = Npos /\ At(v, c) = Semicolon
           named == s.name # Npos /\ s.nameEnd = Npos /\ At(v, c) = Equal
           valued == s.nameEnd # Npos /\ s.value = Npos
           ends == s.value # Npos /\ At(v, c) \in {Quote, Semicolon}
           withName == Append(s.fields, Field(Substr(v, s.name, c - s.name), <<>>))
           withBoth == Append(s.fields, Field(Substr(v, s.name, s.nameEnd - s.name),
                                              Decode(Substr(v, s.value, c - s.value))))
           first == IF At(v, c) = Quote /\ c + 1 < Len(v) THEN c + 1 ELSE c
<1>5. Equal # Semicolon
    BY DEF Equal, Semicolon
<1>6. AttributeStep(v, s, c) =
        CASE begins -> [s EXCEPT !.name = c]
          [] bare -> [s EXCEPT !.name = Npos, !.fields = withName]
          [] named -> [s EXCEPT !.nameEnd = c]
          [] valued -> [s EXCEPT !.value = first]
          [] ends -> Between(withBoth)
          [] OTHER -> s
    BY DEF AttributeStep
<1>7. CASE begins
    <2>1. AttributeStep(v, s, c)
            = [fields |-> s.fields, name |-> c, nameEnd |-> s.nameEnd, value |-> s.value]
        <3>1. ~bare /\ ~named /\ ~valued /\ ~ends
            BY <1>2, <1>7
        <3>2. AttributeStep(v, s, c) = [s EXCEPT !.name = c]
            <4>. HIDE DEF begins, bare, named, valued, ends
            <4>. QED BY <1>6, <1>7, <3>1
        <3>. QED BY <1>1, <3>2
    <2>. QED BY <1>1, <1>2, <1>3, <1>7, <2>1, CutsAre DEF c
<1>8. CASE bare
    <2>1. AttributeStep(v, s, c)
            = [fields |-> withName, name |-> Npos, nameEnd |-> s.nameEnd, value |-> s.value]
        <3>1. ~begins /\ ~named /\ ~valued /\ ~ends
            BY <1>2, <1>5, <1>8
        <3>2. AttributeStep(v, s, c) = [s EXCEPT !.name = Npos, !.fields = withName]
            <4>. HIDE DEF begins, bare, named, valued, ends, withName
            <4>. QED BY <1>6, <1>8, <3>1
        <3>. HIDE DEF withName
        <3>. QED BY <1>1, <3>2
    <2>2. withName \in Seq(Fields)
        <3>1. Substr(v, s.name, c - s.name) \in Texts
            BY <1>1, <1>3, <1>4, <1>8
        <3>2. Field(Substr(v, s.name, c - s.name), <<>>) \in Fields
            BY <3>1, NoText, OneField
        <3>. QED BY <1>1, <3>2, AppendProperties
    <2>3. Npos \in 0..Len(v) \cup {Npos}
        OBVIOUS
    <2>. HIDE DEF withName
    <2>. QED BY <1>1, <1>2, <1>8, <2>1, <2>2, <2>3, CutsAre DEF c
<1>9. CASE named
    <2>1. AttributeStep(v, s, c)
            = [fields |-> s.fields, name |-> s.name, nameEnd |-> c, value |-> s.value]
        <3>1. ~begins /\ ~bare /\ ~valued /\ ~ends
            BY <1>2, <1>5, <1>9
        <3>2. AttributeStep(v, s, c) = [s EXCEPT !.nameEnd = c]
            <4>. HIDE DEF begins, bare, named, valued, ends
            <4>. QED BY <1>6, <1>9, <3>1
        <3>. QED BY <1>1, <3>2
    <2>2. s.value # Npos => c # Npos
        BY <1>2, <1>9
    <2>. QED BY <1>1, <1>2, <1>3, <1>9, <2>1, <2>2, CutsAre DEF c
<1>10. CASE valued
    <2>1. AttributeStep(v, s, c)
            = [fields |-> s.fields, name |-> s.name, nameEnd |-> s.nameEnd, value |-> first]
        <3>1. ~begins /\ ~bare /\ ~named /\ ~ends
            BY <1>2, <1>10
        <3>2. AttributeStep(v, s, c) = [s EXCEPT !.value = first]
            <4>. HIDE DEF begins, bare, named, valued, ends, first
            <4>. QED BY <1>6, <1>10, <3>1
        <3>. HIDE DEF first
        <3>. QED BY <1>1, <3>2
    <2>2. first \in 0..Len(v) \cup {Npos}
        BY <1>3
    <2>. HIDE DEF first
    <2>. QED BY <1>1, <1>2, <1>10, <2>1, <2>2, CutsAre DEF c
<1>11. CASE ends
    <2>1. AttributeStep(v, s, c) = Between(withBoth)
        <3>1. ~begins /\ ~bare /\ ~named /\ ~valued
            BY <1>2, <1>11
        <3>. HIDE DEF begins, bare, named, valued, ends, withBoth
        <3>. QED BY <1>6, <1>11, <3>1
    <2>2. withBoth \in Seq(Fields)
        <3>1. Substr(v, s.name, s.nameEnd - s.name) \in Texts
            BY <1>1, <1>2, <1>4, <1>11
        <3>2. Decode(Substr(v, s.value, c - s.value)) \in Texts
            BY <1>1, <1>3, <1>4, <1>11, DecodeType
        <3>3. Field(Substr(v, s.name, s.nameEnd - s.name), Decode(Substr(v, s.value, c - s.value)))
                 \in Fields
            BY <3>1, <3>2, OneField
        <3>. QED BY <1>1, <3>3, AppendProperties
    <2>. HIDE DEF withBoth
    <2>. QED BY <2>1, <2>2, BetweenType DEF c
<1>12. CASE ~begins /\ ~bare /\ ~named /\ ~valued /\ ~ends
    <2>. HIDE DEF begins, bare, named, valued, ends, withName, withBoth, first
    <2>1. AttributeStep(v, s, c) = s
        BY <1>6, <1>12
    <2>. QED BY <2>1 DEF c
<1>. QED BY <1>7, <1>8, <1>9, <1>10, <1>11, <1>12

\* AttributesParse's loop: each value comes from the one before.
LEMMA AttributeScansAre ==
    ASSUME NEW v \in Texts
    PROVE  /\ AttributeScans(v)[0] = Between(<<>>)
           /\ \A i \in 1..Len(v) :
                 AttributeScans(v)[i] = AttributeStep(v, AttributeScans(v)[i - 1], i - 1)
           /\ \A i \in 0..Len(v) : AttributeScans(v)[i] \in Cuts(v)
<1> DEFINE F == [p \in Cuts(v) \X (1..Len(v)) |-> AttributeStep(v, p[1], p[2] - 1)]
           Loop(f) == [i \in 0..Len(v) |->
                         IF i = 0 THEN Between(<<>>) ELSE AttributeStep(v, f[i - 1], i - 1)]
<1>1. Len(v) \in Nat
    BY DEF Texts
<1>2. Between(<<>>) \in Cuts(v)
    BY BetweenNothing
<1>3. \A m \in Cuts(v), i \in 1..Len(v) : F[<<m, i>>] = AttributeStep(v, m, i - 1)
    OBVIOUS
<1>4. F \in [Cuts(v) \X (1..Len(v)) -> Cuts(v)]
    BY AttributeStepType
<1>. HIDE DEF F
<1>5. PICK f \in [0..Len(v) -> Cuts(v)] :
          f[0] = Between(<<>>) /\ \A i \in 1..Len(v) : f[i] = F[<<f[i-1], i>>]
    <2>1. HasLoop(Len(v), Cuts(v), Between(<<>>), F)
        BY <1>1, <1>2, <1>4, LoopExists
    <2>. QED BY <2>1 DEF HasLoop
<1>6. \A i \in 0..Len(v) : i = 0 \/ (i - 1 \in 0..Len(v) /\ i \in 1..Len(v))
    BY <1>1
<1>7. f = Loop(f)
    <2>1. \A i \in 0..Len(v) :
              f[i] = IF i = 0 THEN Between(<<>>) ELSE AttributeStep(v, f[i - 1], i - 1)
        BY <1>3, <1>5, <1>6
    <2>. QED BY <2>1
<1>8. AttributeScans(v) = Loop(AttributeScans(v))
    BY <1>7 DEF AttributeScans
<1>10. \A i \in 0..Len(v) : Loop(AttributeScans(v))[i]
            = IF i = 0 THEN Between(<<>>) ELSE AttributeStep(v, AttributeScans(v)[i - 1], i - 1)
    OBVIOUS
<1>. HIDE DEF Loop
<1>11. \A i \in 0..Len(v) : AttributeScans(v)[i]
            = IF i = 0 THEN Between(<<>>) ELSE AttributeStep(v, AttributeScans(v)[i - 1], i - 1)
    BY <1>8, <1>10
<1>12. 0 \in 0..Len(v) /\ \A i \in 1..Len(v) : i \in 0..Len(v) /\ i # 0
    BY <1>1
<1>13. AttributeScans(v)[0] = Between(<<>>)
    BY <1>11, <1>12
<1>14. \A i \in 1..Len(v) : AttributeScans(v)[i] = AttributeStep(v, AttributeScans(v)[i - 1], i - 1)
    BY <1>11, <1>12
<1>15. \A i \in 1..Len(v) : AttributeScans(v)[i - 1] \in Cuts(v) => AttributeScans(v)[i] \in Cuts(v)
    BY <1>14, AttributeStepType
<1>16. \A i \in 0..Len(v) : AttributeScans(v)[i] \in Cuts(v)
    <2> DEFINE g == AttributeScans(v)
               A == Cuts(v)
    <2>. HIDE DEF g, A
    <2>1. \A i \in 0..Len(v) : g[i] \in A
        BY <1>1, <1>2, <1>13, <1>15, LoopStays DEF g, A
    <2>. QED BY <2>1 DEF g, A
<1>. QED BY <1>13, <1>14, <1>16

\* The attributes in a value hold texts.
LEMMA AttributesParseType ==
    ASSUME NEW v \in Texts
    PROVE  AttributesParse(v) \in Seq(Fields)
<1> DEFINE s == AttributeScans(v)[Len(v)]
           toEnd == IF Last(v) = Quote THEN Len(v) - 1 ELSE Npos
           bare == <<Field(From(v, s.name), <<>>)>>
           full == <<Field(Substr(v, s.name, s.nameEnd - s.name),
                           Decode(Substr(v, s.value, toEnd)))>>
           last == CASE s.name = Npos -> <<>>
                     [] s.name # Npos /\ s.nameEnd = Npos -> bare
                     [] s.nameEnd # Npos /\ s.value = Npos -> <<>>
                     [] s.value # Npos -> full
<1>1. AttributesParse(v) = s.fields \o last
    BY DEF AttributesParse, AttributeScans
<1>2. Len(v) \in Nat /\ Len(v) \in 0..Len(v) /\ Npos \in Int
    BY DEF Texts, Npos
<1>3. s \in Cuts(v)
    BY <1>2, AttributeScansAre
<1>. HIDE DEF s
<1>4. /\ s.fields \in Seq(Fields) /\ s.nameEnd \in Int
      /\ s.name \in 0..Len(v) \cup {Npos} /\ s.value \in 0..Len(v) \cup {Npos}
      /\ s.nameEnd # Npos => s.name # Npos
      /\ s.value # Npos => s.nameEnd # Npos
    BY <1>3 DEF Cuts
<1>5. ASSUME NEW pos \in 0..Len(v) \cup {Npos}, pos # Npos, NEW n \in Int
      PROVE  Substr(v, pos, n) \in Texts
    <2>1. pos \in Nat /\ pos <= Len(v)
        BY <1>2, <1>5
    <2>. QED BY <2>1, SubstrType
<1>6. toEnd \in Int
    BY <1>2
<1>. HIDE DEF toEnd
<1>7. s.name # Npos => bare \in Seq(Fields)
    BY <1>2, <1>4, <1>5, NoText, OneField DEF From
<1>8. s.value # Npos => full \in Seq(Fields)
    <2>1. SUFFICES ASSUME s.value # Npos PROVE full \in Seq(Fields)
        OBVIOUS
    <2>2. s.nameEnd - s.name \in Int
        BY <1>2, <1>4
    <2>3. Substr(v, s.name, s.nameEnd - s.name) \in Texts
        BY <1>4, <1>5, <2>1, <2>2
    <2>4. Decode(Substr(v, s.value, toEnd)) \in Texts
        BY <1>4, <1>5, <1>6, <2>1, DecodeType
    <2>. QED BY <2>3, <2>4, OneField
<1>. HIDE DEF bare, full
<1>9. last \in Seq(Fields)
    <2>1. CASE s.name = Npos
        BY <1>4, <2>1, NoFields
    <2>2. CASE s.name # Npos /\ s.nameEnd = Npos
        BY <1>4, <1>7, <2>2
    <2>3. CASE s.nameEnd # Npos /\ s.value = Npos
        BY <1>4, <2>3, NoFields
    <2>4. CASE s.value # Npos
        BY <1>4, <1>8, <2>4
    <2>. QED BY <2>1, <2>2, <2>3, <2>4
<1>. HIDE DEF last
<1>. QED BY <1>1, <1>4, <1>9, ConcatProperties

-----------------------------------------------------------------------------
(* What is taken apart: adjacent pieces make up a text.                    *)

\* Substr is a piece,
LEMMA SubstrIs ==
    ASSUME NEW s \in Texts, NEW pos \in Nat, pos <= Len(s), NEW n \in Int
    PROVE  /\ n >= 0 /\ pos + n <= Len(s) => Substr(s, pos, n) = SubSeq(s, pos + 1, pos + n)
           /\ n < 0 \/ pos + n > Len(s) => Substr(s, pos, n) = SubSeq(s, pos + 1, Len(s))
BY DEF Substr, Texts

\* adjacent pieces are a piece,
LEMMA Adjacent ==
    ASSUME NEW s \in Texts, NEW i \in Nat, NEW k \in Nat, NEW m \in Nat,
           i >= 1, i - 1 <= k, k <= m, m <= Len(s)
    PROVE  SubSeq(s, i, k) \o SubSeq(s, k + 1, m) = SubSeq(s, i, m)
<1>1. s \in Seq(Char) /\ Len(s) \in Nat
    BY DEF Texts
<1>2. i \in 1..(Len(s) + 1) /\ k \in (i - 1)..Len(s) /\ m \in k..Len(s)
    BY <1>1
<1>. QED BY <1>1, <1>2, ConcatAdjacentSubSeq

\* and so is a character.
LEMMA OneCharacter ==
    ASSUME NEW s \in Texts, NEW i \in 1..Len(s)
    PROVE  SubSeq(s, i, i) = <<s[i]>>
<1>1. s \in Seq(Char) /\ Len(s) \in Nat
    BY DEF Texts
<1> DEFINE u == SubSeq(s, i, i)
<1>2. u \in Seq(Char) /\ Len(u) = 1 /\ u[1] = s[i]
    BY <1>1
<1>. HIDE DEF u
<1>3. u = <<s[i]>>
    BY <1>2
<1>. QED BY <1>3 DEF u

\* The characters of a piece.
LEMMA PieceType ==
    ASSUME NEW s \in Texts, NEW i \in Nat, NEW m \in Int, i >= 1, m <= Len(s)
    PROVE  /\ SubSeq(s, i, m) \in Texts
           /\ Len(SubSeq(s, i, m)) = IF i <= m THEN m - i + 1 ELSE 0
           /\ \A k \in 1..(m - i + 1) : SubSeq(s, i, m)[k] = s[i + k - 1]
<1>1. s \in Seq(Char) /\ Len(s) \in Nat
    BY DEF Texts
<1>2. \A k \in i..m : s[k] \in Char
    <2>1. \A k \in i..m : k \in 1..Len(s)
        BY <1>1
    <2>. QED BY <1>1, <2>1
<1>. QED BY <1>1, <1>2, SubSeqProperties DEF Texts

\* A piece from the first character is a prefix,
LEMMA PieceIsPrefix ==
    ASSUME NEW s \in Texts, NEW m \in Nat, m <= Len(s)
    PROVE  IsPrefix(SubSeq(s, 1, m), s)
<1> DEFINE u == SubSeq(s, 1, m)
<1>1. u \in Texts /\ Len(u) = m
    BY PieceType
<1>2. SubSeq(u, 1, Len(u)) = u
    BY <1>1, SubSeqFull DEF Texts
<1>3. Len(u) <= Len(s) /\ SubSeq(u, 1, Len(u)) = SubSeq(s, 1, Len(u))
    BY <1>1, <1>2
<1>. QED BY <1>3 DEF IsPrefix

\* and that is to have the same first characters.
LEMMA PrefixIs ==
    ASSUME NEW t \in Texts, NEW s \in Texts
    PROVE  IsPrefix(t, s) <=> Len(t) <= Len(s) /\ \A k \in 1..Len(t) : s[k] = t[k]
<1>1. SubSeq(t, 1, Len(t)) = t /\ Len(t) \in Nat /\ Len(s) \in Nat
    BY SubSeqFull DEF Texts
<1>2. ASSUME Len(t) <= Len(s)
      PROVE  t = SubSeq(s, 1, Len(t)) <=> \A k \in 1..Len(t) : s[k] = t[k]
    <2> DEFINE u == SubSeq(s, 1, Len(t))
    <2>1. u \in Texts /\ Len(u) = Len(t) /\ \A k \in 1..Len(t) : u[k] = s[k]
        BY <1>1, <1>2, PieceType
    <2>. HIDE DEF u
    <2>2. t = u <=> \A k \in 1..Len(t) : u[k] = t[k]
        BY <2>1, SeqEqual DEF Texts
    <2>3. t = u <=> \A k \in 1..Len(t) : s[k] = t[k]
        BY <2>1, <2>2
    <2>. QED BY <2>3 DEF u
<1>. QED BY <1>1, <1>2 DEF IsPrefix

\* Find returns the first such character.
LEMMA FindIs ==
    ASSUME NEW s \in Texts, NEW ch, NEW from \in Nat, NEW p \in from..(Len(s) - 1),
           At(s, p) = ch, \A i \in from..(p - 1) : At(s, i) # ch
    PROVE  Find(s, ch, from) = p
<1> DEFINE f == Find(s, ch, from)
<1>1. f # Npos /\ f <= p
    BY FindIsAt
<1>2. f \in from..(Len(s) - 1) /\ At(s, f) = ch
    BY <1>1, FindIsAt
<1>. HIDE DEF f
<1>3. ~(f \in from..(p - 1))
    BY <1>2
<1>4. f = p
    BY <1>1, <1>2, <1>3
<1>. QED BY <1>4 DEF f

Protocol == HTTP \o <<Slash>>

\* The five characters "HTTP/".
LEMMA ProtocolIs ==
    /\ HTTP \in Texts /\ <<Slash>> \in Texts
    /\ Protocol \in Texts /\ Len(Protocol) = 5 /\ Len(HTTP) = 4
    /\ Protocol[1] = HTTP[1] /\ Protocol[2] = HTTP[2] /\ Protocol[3] = HTTP[3]
    /\ Protocol[4] = HTTP[4] /\ Protocol[5] = Slash
    /\ HTTP[1] # Slash /\ HTTP[2] # Slash /\ HTTP[3] # Slash /\ HTTP[4] # Slash
    /\ \A k \in 1..5 : Protocol[k] # SP
<1>1. HTTP \in Seq(Char) /\ Len(HTTP) = 4 /\ HTTP[1] = 72 /\ HTTP[2] = 84 /\ HTTP[3] = 84
      /\ HTTP[4] = 80
    BY DEF HTTP, Char
<1>2. <<Slash>> \in Seq(Char) /\ Len(<<Slash>>) = 1 /\ <<Slash>>[1] = Slash
    BY DEF Slash, Char
<1> DEFINE b == <<Slash>>
<1>. HIDE DEF b
<1>3. Protocol \in Seq(Char) /\ Len(Protocol) = 5
      /\ \A k \in 1..5 : Protocol[k] = IF k <= 4 THEN HTTP[k] ELSE b[k - 4]
    <2>1. Len(b) = 1
        BY <1>2 DEF b
    <2>4. HTTP \in Seq(Char) /\ b \in Seq(Char)
        BY <1>1, <1>2 DEF b
    <2>2. /\ HTTP \o b \in Seq(Char)
          /\ Len(HTTP \o b) = Len(HTTP) + Len(b)
          /\ \A k \in 1..(Len(HTTP) + Len(b)) :
                (HTTP \o b)[k] = IF k <= Len(HTTP) THEN HTTP[k] ELSE b[k - Len(HTTP)]
        <3>. HIDE DEF Char
        <3>. QED BY <2>4, ConcatProperties
    <2>3. Protocol = HTTP \o b
        BY DEF Protocol, b
    <2>. QED BY <1>1, <2>1, <2>2, <2>3
<1>4. \A k \in 1..5 : Protocol[k] = IF k <= 4 THEN HTTP[k] ELSE <<Slash>>[k - 4]
    BY <1>3 DEF b
<1>5. /\ Protocol[1] = HTTP[1] /\ Protocol[2] = HTTP[2] /\ Protocol[3] = HTTP[3]
      /\ Protocol[4] = HTTP[4] /\ Protocol[5] = Slash
    BY <1>2, <1>4
<1>6. HTTP[1] # Slash /\ HTTP[2] # Slash /\ HTTP[3] # Slash /\ HTTP[4] # Slash
    BY <1>1 DEF Slash
<1>7. \A k \in 1..5 : k = 1 \/ k = 2 \/ k = 3 \/ k = 4 \/ k = 5
    OBVIOUS
<1>8. \A k \in 1..5 : Protocol[k] # SP
    BY <1>1, <1>5, <1>7 DEF SP, Slash
<1>. QED BY <1>1, <1>2, <1>3, <1>5, <1>6, <1>8 DEF Texts

-----------------------------------------------------------------------------
(* Status lines.                                                           *)

\* The parts of an accepted status line make it up.
LEMMA StatusTaken ==
    ASSUME NEW s \in Texts, StatusParse(s).ok, IsPrefix(Protocol, FirstLine(s))
    PROVE  FirstLine(s) = Protocol \o StatusParse(s).version \o <<SP>> \o StatusParse(s).status
                              \o (IF EndsInCR(FirstLine(s)) THEN <<CR>> ELSE <<>>)
<1> DEFINE line == FirstLine(s)
           L == Len(line)
           v == Find(line, SP, 0)
           rejected == v = Npos \/ L <= 5 \/ v + 1 >= L
           cut == IF EndsInCR(line) THEN 1 ELSE 0
           tail == IF EndsInCR(line) THEN <<CR>> ELSE <<>>
           m == L - cut
           accepted == [ok |-> TRUE, version |-> Substr(line, 5, v - 5),
                        status |-> Substr(line, v + 1, L - (v + 1) - cut),
                        header |-> HeaderParse(Rest(s))]
<1>1. StatusParse(s) = IF rejected THEN Rejected ELSE accepted
    BY DEF StatusParse
<1>2. line \in Texts
    BY FirstLineType
<1>. HIDE DEF line
<1>3. L \in Nat
    BY <1>2 DEF Texts
<1>4. ~rejected
    <2>. HIDE DEF rejected, accepted
    <2>. QED BY <1>1 DEF Rejected
<1>5. StatusParse(s).version = Substr(line, 5, v - 5)
      /\ StatusParse(s).status = Substr(line, v + 1, L - (v + 1) - cut)
    BY <1>1, <1>4
<1>6. v \in Nat /\ v + 1 < L /\ line[v + 1] = SP /\ 5 < L
    BY <1>2, <1>3, <1>4, FindIsAt DEF At
<1>. HIDE DEF v, L
<1>7. \A k \in 1..5 : line[k] = Protocol[k]
    BY <1>2, PrefixIs, ProtocolIs DEF line
<1>8. v >= 5
    <2>1. SUFFICES ASSUME v < 5 PROVE FALSE
        BY <1>6
    <2>2. v + 1 \in 1..5
        BY <1>6, <2>1
    <2>. QED BY <1>6, <1>7, <2>2, ProtocolIs
<1>9. m \in Nat /\ m <= L /\ v + 1 <= m /\ (cut = 0 => m = L) /\ (cut = 1 => m = L - 1)
      /\ L - (v + 1) - cut = m - (v + 1)
    BY <1>3, <1>6
<1>. HIDE DEF m
<1>10. SubSeq(line, 1, 5) = Protocol
    <2>1. SubSeq(line, 1, 5) \in Texts /\ Len(SubSeq(line, 1, 5)) = 5
          /\ \A k \in 1..5 : SubSeq(line, 1, 5)[k] = line[k]
        BY <1>2, <1>6, PieceType DEF L
    <2> DEFINE u == SubSeq(line, 1, 5)
    <2>. HIDE DEF u
    <2>2. u = Protocol
        BY <1>7, <2>1, ProtocolIs, SeqEqual DEF u, Texts
    <2>. QED BY <2>2 DEF u
<1>11. StatusParse(s).version = SubSeq(line, 6, v)
    <2>1. 5 <= Len(line) /\ v - 5 >= 0 /\ 5 + (v - 5) <= Len(line) /\ v - 5 \in Int
          /\ 5 + (v - 5) = v /\ 5 + 1 = 6
        BY <1>6, <1>8 DEF L
    <2>. QED BY <1>2, <1>5, <2>1, SubstrIs
<1>12. StatusParse(s).status = SubSeq(line, v + 2, m)
    <2>1. v + 1 \in Nat /\ v + 1 <= Len(line) /\ m - (v + 1) >= 0 /\ m - (v + 1) \in Int
          /\ v + 1 + (m - (v + 1)) = m /\ m <= Len(line) /\ v + 1 + 1 = v + 2
        BY <1>6, <1>9 DEF L
    <2>2. Substr(line, v + 1, m - (v + 1)) = SubSeq(line, v + 2, m)
        BY <1>2, <2>1, SubstrIs
    <2>. QED BY <1>5, <1>9, <2>2
<1>13. <<SP>> = SubSeq(line, v + 1, v + 1)
    <2>1. v + 1 \in 1..Len(line)
        BY <1>6 DEF L
    <2>. QED BY <1>2, <1>6, <2>1, OneCharacter
<1>14. Protocol \o StatusParse(s).version = SubSeq(line, 1, v)
    <2>1. v <= Len(line) /\ 5 + 1 = 6 /\ 1 - 1 <= 5
        BY <1>6 DEF L
    <2>2. SubSeq(line, 1, 5) \o SubSeq(line, 5 + 1, v) = SubSeq(line, 1, v)
        BY <1>2, <1>6, <1>8, <2>1, Adjacent
    <2>. QED BY <1>10, <1>11, <2>1, <2>2
<1>15. SubSeq(line, 1, v) \o <<SP>> = SubSeq(line, 1, v + 1)
    <2>1. v + 1 <= Len(line) /\ v + 1 \in Nat
        BY <1>6 DEF L
    <2>. QED BY <1>2, <1>6, <1>13, <2>1, Adjacent
<1>16. SubSeq(line, 1, v + 1) \o StatusParse(s).status = SubSeq(line, 1, m)
    <2>1. v + 1 + 1 = v + 2 /\ m <= Len(line) /\ v + 1 \in Nat
        BY <1>6, <1>9 DEF L
    <2>. QED BY <1>2, <1>6, <1>9, <1>12, <2>1, Adjacent
<1>17. SubSeq(line, 1, m) \o tail = line
    <2>1. line \in Seq(Char) /\ SubSeq(line, 1, L) = line
        BY <1>2, SubSeqFull DEF Texts, L
    <2>2. CASE EndsInCR(line)
        <3>1. line[L] = CR
            BY <1>2, <1>6, <2>2 DEF EndsInCR, Last, L
        <3>2. L \in 1..Len(line) /\ m + 1 = L /\ L <= Len(line)
            BY <1>3, <1>6, <1>9, <2>2 DEF L
        <3>3. tail = SubSeq(line, m + 1, L)
            BY <1>2, <2>2, <3>1, <3>2, OneCharacter
        <3>4. SubSeq(line, 1, m) \o SubSeq(line, m + 1, L) = SubSeq(line, 1, L)
            BY <1>2, <1>3, <1>9, <3>2, Adjacent
        <3>. QED BY <2>1, <3>3, <3>4
    <2>3. CASE ~EndsInCR(line)
        <3>1. m = L /\ tail = <<>>
            BY <1>9, <2>3
        <3>. QED BY <2>1, <3>1, ConcatEmptySeq
    <2>. QED BY <2>2, <2>3
<1>. QED BY <1>14, <1>15, <1>16, <1>17 DEF line

-----------------------------------------------------------------------------
(* Request lines.                                                          *)

Marks(line, m, u) ==
    {i \in (m + 1)..(Len(line) - 2) : i < u /\ At(line, i) = Question}

QueryBegin(line, m, u) ==
    IF Marks(line, m, u) = {} THEN Npos
    ELSE 1 + CHOOSE i \in Marks(line, m, u) : \A j \in Marks(line, m, u) : j <= i

\* A request line is accepted with these ends of its method, its target and "HTTP".
Cut3(line, m, u, sl) ==
    /\ m \in Nat /\ u \in Nat /\ m < u /\ sl = u + 5 /\ sl < Len(line)
    /\ line[m + 1] = SP /\ line[u + 1] = SP
    /\ \A k \in 1..u : k # m + 1 => line[k] # SP
    /\ \A k \in 1..5 : line[u + 1 + k] = Protocol[k]

\* An accepted request line can be cut so, and its parts are these.
LEMMA RequestEnds ==
    ASSUME NEW s \in Texts, RequestParse(s).ok
    PROVE  \E m, u, sl :
              /\ Cut3(FirstLine(s), m, u, sl)
              /\ RequestParse(s) =
                   LET line == FirstLine(s)  query == QueryBegin(line, m, u) IN
                   [ok |-> TRUE, method |-> Substr(line, 0, m),
                    path |-> IF query = Npos THEN Substr(line, m + 1, u - m - 1)
                             ELSE Substr(line, m + 1, query - m - 2),
                    query |-> IF query = Npos THEN <<>> ELSE Substr(line, query, u - query),
                    version |-> Substr(line, sl + 1, Len(line) - sl - 2),
                    header |-> HeaderParse(Rest(s))]
<1> DEFINE line == FirstLine(s)
           L == Len(line)
           m == Find(line, SP, 0)
           u == IF m = Npos THEN Npos ELSE Find(line, SP, m + 1)
           query == QueryBegin(line, m, u)
           sl == IF u = Npos THEN Npos ELSE Find(line, Slash, u + 1)
           rejected == m = Npos \/ u = Npos \/ sl = Npos \/ Substr(line, u + 1, sl - u - 1) # HTTP
           accepted == [ok |-> TRUE, method |-> Substr(line, 0, m),
              path |-> IF query = Npos THEN Substr(line, m + 1, u - m - 1)
                       ELSE Substr(line, m + 1, query - m - 2),
              query |-> IF query = Npos THEN <<>> ELSE Substr(line, query, u - query),
              version |-> Substr(line, sl + 1, Len(line) - sl - 2),
              header |-> HeaderParse(Rest(s))]
<1>1. RequestParse(s) = IF rejected THEN Rejected ELSE accepted
    BY DEF RequestParse, QueryBegin, Marks
<1>2. line \in Texts
    BY FirstLineType
<1>. HIDE DEF line
<1>3. L \in Nat
    BY <1>2 DEF Texts
<1>4. ~rejected
    <2>. HIDE DEF rejected, accepted
    <2>. QED BY <1>1 DEF Rejected
<1>5. RequestParse(s) = accepted
    BY <1>1, <1>4
<1>6. m \in Nat /\ m < L /\ line[m + 1] = SP
      /\ \A i \in 0..(L - 1) : At(line, i) = SP => m <= i
    BY <1>2, <1>3, <1>4, FindIsAt DEF At
<1>7. u \in (m + 1)..(L - 1) /\ line[u + 1] = SP
      /\ \A i \in (m + 1)..(L - 1) : At(line, i) = SP => u <= i
    <2>1. u = Find(line, SP, m + 1) /\ u # Npos
        BY <1>4, <1>6
    <2>2. m + 1 \in Nat
        BY <1>6
    <2>. HIDE DEF m, u
    <2>. QED BY <1>2, <1>3, <2>1, <2>2, FindIsAt DEF At
<1>8. sl \in (u + 1)..(L - 1) /\ line[sl + 1] = Slash
    <2>1. sl = Find(line, Slash, u + 1) /\ sl # Npos
        BY <1>4, <1>7
    <2>2. u + 1 \in Nat
        BY <1>6, <1>7
    <2>. HIDE DEF u, sl
    <2>. QED BY <1>2, <1>3, <2>1, <2>2, FindIsAt DEF At
<1>9. Substr(line, u + 1, sl - u - 1) = HTTP
    BY <1>4
<1>. HIDE DEF m, u, sl, L, query
<1>10. SubSeq(line, u + 2, sl) = HTTP
    <2>1. u + 1 \in Nat /\ u + 1 <= Len(line) /\ sl - u - 1 \in Int /\ sl - u - 1 >= 0
          /\ u + 1 + (sl - u - 1) = sl /\ sl <= Len(line) /\ u + 1 + 1 = u + 2
        BY <1>3, <1>6, <1>7, <1>8 DEF L
    <2>. QED BY <1>2, <1>9, <2>1, SubstrIs
<1>11. /\ Len(HTTP) = IF u + 2 <= sl THEN sl - (u + 2) + 1 ELSE 0
       /\ \A k \in 1..(sl - (u + 2) + 1) : HTTP[k] = line[u + 2 + k - 1]
    <2>1. u + 2 \in Nat /\ u + 2 >= 1 /\ sl \in Int /\ sl <= Len(line)
        BY <1>3, <1>6, <1>7, <1>8 DEF L
    <2>2. /\ Len(SubSeq(line, u + 2, sl)) = IF u + 2 <= sl THEN sl - (u + 2) + 1 ELSE 0
          /\ \A k \in 1..(sl - (u + 2) + 1) : SubSeq(line, u + 2, sl)[k] = line[u + 2 + k - 1]
        BY <1>2, <2>1, PieceType
    <2>. QED BY <1>10, <2>2
<1>12. sl = u + 5
    <2>1. 4 = IF u + 2 <= sl THEN sl - (u + 2) + 1 ELSE 0
        BY <1>11, ProtocolIs
    <2>. QED BY <1>3, <1>6, <1>7, <1>8, <2>1
<1>13. \A k \in 1..5 : line[u + 1 + k] = Protocol[k]
    <2>1. \A k \in 1..4 : HTTP[k] = line[u + 2 + k - 1]
        BY <1>6, <1>7, <1>11, <1>12
    <2>2. \A k \in 1..4 : u + 2 + k - 1 = u + 1 + k
        BY <1>6, <1>7
    <2>3. \A k \in 1..4 : HTTP[k] = line[u + 1 + k]
        BY <2>1, <2>2
    <2>4. \A k \in 1..5 : k = 5 \/ k \in 1..4
        OBVIOUS
    <2>5. \A k \in 1..4 : HTTP[k] = Protocol[k]
        <3>1. \A k \in 1..4 : k = 1 \/ k = 2 \/ k = 3 \/ k = 4
            OBVIOUS
        <3>. QED BY <3>1, ProtocolIs
    <2>6. line[u + 1 + 5] = Protocol[5]
        <3>1. u + 1 + 5 = sl + 1
            BY <1>6, <1>7, <1>12
        <3>. QED BY <1>8, <3>1, ProtocolIs
    <2>. QED BY <2>3, <2>4, <2>5, <2>6
<1>14. \A k \in 1..u : k # m + 1 => line[k] # SP
    <2>1. SUFFICES ASSUME NEW k \in 1..u, k # m + 1, line[k] = SP PROVE FALSE
        OBVIOUS
    <2>2. k - 1 \in 0..(L - 1) /\ k - 1 + 1 = k /\ k - 1 < u /\ k - 1 # m
        BY <1>3, <1>6, <1>7, <2>1
    <2>3. At(line, k - 1) = SP
        BY <2>1, <2>2 DEF At
    <2>4. m <= k - 1
        BY <1>6, <2>2, <2>3
    <2>5. k - 1 \in (m + 1)..(L - 1)
        BY <1>6, <2>2, <2>4
    <2>6. u <= k - 1
        BY <1>7, <2>3, <2>5
    <2>. QED BY <1>6, <1>7, <2>2, <2>6
<1>15. Cut3(line, m, u, sl)
    <2>1. u \in Nat /\ m < u /\ sl < Len(line)
        BY <1>3, <1>6, <1>7, <1>8 DEF L
    <2>. QED BY <1>6, <1>7, <1>12, <1>13, <1>14, <2>1 DEF Cut3
<1>16. RequestParse(s) = [ok |-> TRUE, method |-> Substr(line, 0, m),
                    path |-> IF QueryBegin(line, m, u) = Npos THEN Substr(line, m + 1, u - m - 1)
                             ELSE Substr(line, m + 1, QueryBegin(line, m, u) - m - 2),
                    query |-> IF QueryBegin(line, m, u) = Npos THEN <<>>
                              ELSE Substr(line, QueryBegin(line, m, u), u - QueryBegin(line, m, u)),
                    version |-> Substr(line, sl + 1, Len(line) - sl - 2),
                    header |-> HeaderParse(Rest(s))]
    BY <1>5 DEF query
<1>. QED BY <1>15, <1>16 DEF line

\* Where a request line can be cut so, it is accepted.
LEMMA RequestAccepted ==
    ASSUME NEW s \in Texts, NEW m, NEW u, NEW sl, Cut3(FirstLine(s), m, u, sl)
    PROVE  RequestParse(s).ok
<1> DEFINE line == FirstLine(s)
           L == Len(line)
<1>1. line \in Texts /\ L \in Nat
    BY FirstLineType DEF Texts
<1>. HIDE DEF line
<1>2. /\ m \in Nat /\ u \in Nat /\ m < u /\ sl = u + 5 /\ sl < L
      /\ line[m + 1] = SP /\ line[u + 1] = SP
      /\ \A k \in 1..u : k # m + 1 => line[k] # SP
      /\ \A k \in 1..5 : line[u + 1 + k] = Protocol[k]
    BY DEF Cut3, line
<1>. HIDE DEF L
<1>3. Find(line, SP, 0) = m
    <2>1. m \in 0..(Len(line) - 1) /\ At(line, m) = SP
        BY <1>1, <1>2 DEF At, L
    <2>2. \A i \in 0..(m - 1) : At(line, i) # SP
        <3>1. \A i \in 0..(m - 1) : i + 1 \in 1..u /\ i + 1 # m + 1
            BY <1>2
        <3>. QED BY <1>2, <3>1 DEF At
    <2>. QED BY <1>1, <2>1, <2>2, FindIs
<1>4. Find(line, SP, m + 1) = u
    <2>1. u \in (m + 1)..(Len(line) - 1) /\ At(line, u) = SP /\ m + 1 \in Nat
        BY <1>1, <1>2 DEF At, L
    <2>2. \A i \in (m + 1)..(u - 1) : At(line, i) # SP
        <3>1. \A i \in (m + 1)..(u - 1) : i + 1 \in 1..u /\ i + 1 # m + 1
            BY <1>2
        <3>. QED BY <1>2, <3>1 DEF At
    <2>. QED BY <1>1, <2>1, <2>2, FindIs
<1>5. Find(line, Slash, u + 1) = sl
    <2>1. sl \in (u + 1)..(Len(line) - 1) /\ u + 1 \in Nat
        BY <1>1, <1>2 DEF L
    <2>2. At(line, sl) = Slash
        <3>1. sl + 1 = u + 1 + 5 /\ 5 \in 1..5
            BY <1>2
        <3>2. line[u + 1 + 5] = Protocol[5]
            BY <1>2, <3>1
        <3>. QED BY <3>1, <3>2, ProtocolIs DEF At
    <2>3. \A i \in (u + 1)..(sl - 1) : At(line, i) # Slash
        <3>1. SUFFICES ASSUME NEW i \in (u + 1)..(sl - 1) PROVE line[i + 1] # Slash
            BY DEF At
        <3> DEFINE k == i - u
        <3>2. k \in 1..4 /\ u + 1 + k = i + 1 /\ k \in 1..5
            BY <1>2, <3>1
        <3>. HIDE DEF k
        <3>3. line[i + 1] = Protocol[k]
            BY <1>2, <3>2
        <3>4. k = 1 \/ k = 2 \/ k = 3 \/ k = 4
            BY <3>2
        <3>. QED BY <3>3, <3>4, ProtocolIs
    <2>. QED BY <1>1, <2>1, <2>2, <2>3, FindIs
<1>6. Substr(line, u + 1, sl - u - 1) = HTTP
    <2>1. u + 1 \in Nat /\ u + 1 <= Len(line) /\ sl - u - 1 \in Int /\ sl - u - 1 >= 0
          /\ u + 1 + (sl - u - 1) = sl /\ sl <= Len(line) /\ u + 1 + 1 = u + 2
        BY <1>1, <1>2 DEF L
    <2>2. Substr(line, u + 1, sl - u - 1) = SubSeq(line, u + 2, sl)
        BY <1>1, <2>1, SubstrIs
    <2> DEFINE x == SubSeq(line, u + 2, sl)
    <2>3. x \in Texts /\ Len(x) = 4 /\ \A k \in 1..4 : x[k] = line[u + 2 + k - 1]
        <3>1. u + 2 \in Nat /\ u + 2 >= 1 /\ sl \in Int /\ u + 2 <= sl /\ sl - (u + 2) + 1 = 4
            BY <1>2
        <3>2. /\ x \in Texts
              /\ Len(x) = IF u + 2 <= sl THEN sl - (u + 2) + 1 ELSE 0
              /\ \A k \in 1..(sl - (u + 2) + 1) : x[k] = line[u + 2 + k - 1]
            BY <1>1, <2>1, <3>1, PieceType
        <3>. HIDE DEF x
        <3>. QED BY <3>1, <3>2
    <2>. HIDE DEF x
    <2>4. \A k \in 1..4 : x[k] = HTTP[k]
        <3>1. \A k \in 1..4 : u + 2 + k - 1 = u + 1 + k /\ k \in 1..5
            BY <1>2
        <3>2. \A k \in 1..4 : x[k] = Protocol[k]
            BY <1>2, <2>3, <3>1
        <3>3. \A k \in 1..4 : k = 1 \/ k = 2 \/ k = 3 \/ k = 4
            OBVIOUS
        <3>. QED BY <3>2, <3>3, ProtocolIs
    <2>5. x = HTTP
        BY <2>3, <2>4, ProtocolIs, SeqEqual DEF Texts
    <2>. QED BY <2>2, <2>5 DEF x
<1>7. m # Npos /\ u # Npos /\ sl # Npos
    BY <1>2 DEF Npos
<1> DEFINE me == Find(line, SP, 0)
           ue == IF me = Npos THEN Npos ELSE Find(line, SP, me + 1)
           se == IF ue = Npos THEN Npos ELSE Find(line, Slash, ue + 1)
<1>8. me = m /\ ue = u /\ se = sl
    BY <1>3, <1>4, <1>5, <1>7
<1> DEFINE ok == ~(me = Npos \/ ue = Npos \/ se = Npos \/ Substr(line, ue + 1, se - ue - 1) # HTTP)
<1>9. ok
    BY <1>6, <1>7, <1>8
<1>10. ok => RequestParse(s).ok
    <2>. HIDE DEF me
    <2>. QED BY DEF RequestParse, line, me
<1>. QED BY <1>9, <1>10

\* The pieces of a request line, up to e, in a row.
Joined(line, m, u, sl, e) ==
    SubSeq(line, 1, m) \o <<SP>> \o SubSeq(line, m + 2, u) \o <<SP>> \o HTTP \o <<Slash>>
        \o SubSeq(line, sl + 2, e)

\* In a row they are the line up to there.
LEMMA RequestJoined ==
    ASSUME NEW line \in Texts, NEW m \in Nat, NEW u \in Nat, NEW sl \in Nat,
           Cut3(line, m, u, sl), NEW e \in Nat, sl + 1 <= e, e <= Len(line)
    PROVE  Joined(line, m, u, sl, e) = SubSeq(line, 1, e)
<1>1. /\ m \in Nat /\ u \in Nat /\ m < u /\ sl = u + 5 /\ sl < Len(line) /\ Len(line) \in Nat
      /\ line[m + 1] = SP /\ line[u + 1] = SP
      /\ \A k \in 1..5 : line[u + 1 + k] = Protocol[k]
    BY DEF Cut3, Texts
<1> DEFINE L == Len(line)
<1>0. /\ m \in Nat /\ u \in Nat /\ sl \in Nat /\ L \in Nat /\ m < u /\ sl = u + 5 /\ sl < L
      /\ m + 1 \in 1..L /\ m + 1 \in Nat /\ m + 1 <= L /\ m <= m + 1 /\ 1 - 1 <= m
      /\ m + 1 <= u /\ u <= L /\ 1 - 1 <= m + 1 /\ m + 1 + 1 = m + 2
      /\ u + 1 \in 1..L /\ u + 1 \in Nat /\ u + 1 <= L /\ u <= u + 1 /\ 1 - 1 <= u
      /\ u + 2 \in Nat /\ u + 2 >= 1 /\ sl + 1 \in Int /\ sl + 1 <= L
      /\ u + 2 <= sl + 1 /\ sl + 1 - (u + 2) + 1 = 5
      /\ u + 1 + 1 = u + 2 /\ u + 1 <= sl + 1 /\ sl + 1 \in Nat /\ 1 - 1 <= u + 1
      /\ sl + 1 + 1 = sl + 2 /\ 1 - 1 <= sl + 1 /\ 1 \in Nat /\ 1 >= 1
    <2>1. m \in Nat /\ u \in Nat /\ L \in Nat /\ m < u /\ sl = u + 5 /\ sl < L
        BY <1>1
    <2>. HIDE DEF L
    <2>. QED BY <2>1
<1>2. SubSeq(line, 1, m) \o <<SP>> = SubSeq(line, 1, m + 1)
    <2>1. m + 1 \in 1..Len(line) /\ m + 1 \in Nat /\ m + 1 <= Len(line) /\ m <= m + 1
          /\ 1 - 1 <= m
        BY <1>0
    <2>2. SubSeq(line, m + 1, m + 1) = <<SP>>
        BY <1>1, <2>1, OneCharacter
    <2>3. SubSeq(line, 1, m) \o SubSeq(line, m + 1, m + 1) = SubSeq(line, 1, m + 1)
        BY <1>0, <2>1, Adjacent
    <2>. QED BY <2>2, <2>3
<1>3. SubSeq(line, 1, m + 1) \o SubSeq(line, m + 2, u) = SubSeq(line, 1, u)
    <2>1. m + 1 \in Nat /\ m + 1 <= u /\ u <= Len(line) /\ 1 - 1 <= m + 1 /\ m + 1 + 1 = m + 2
        BY <1>0
    <2>2. SubSeq(line, 1, m + 1) \o SubSeq(line, m + 1 + 1, u) = SubSeq(line, 1, u)
        BY <1>0, <2>1, Adjacent
    <2>. QED BY <2>1, <2>2
<1>4. SubSeq(line, 1, u) \o <<SP>> = SubSeq(line, 1, u + 1)
    <2>1. u + 1 \in 1..Len(line) /\ u + 1 \in Nat /\ u + 1 <= Len(line) /\ u <= u + 1
          /\ 1 - 1 <= u
        BY <1>0
    <2>2. SubSeq(line, u + 1, u + 1) = <<SP>>
        BY <1>1, <2>1, OneCharacter
    <2>3. SubSeq(line, 1, u) \o SubSeq(line, u + 1, u + 1) = SubSeq(line, 1, u + 1)
        BY <1>0, <2>1, Adjacent
    <2>. QED BY <2>2, <2>3
<1>5. SubSeq(line, u + 2, sl + 1) = Protocol
    <2> DEFINE x == SubSeq(line, u + 2, sl + 1)
    <2>1. u + 2 \in Nat /\ u + 2 >= 1 /\ sl + 1 \in Int /\ sl + 1 <= Len(line)
          /\ u + 2 <= sl + 1 /\ sl + 1 - (u + 2) + 1 = 5
        BY <1>0
    <2>2. /\ x \in Texts
          /\ Len(x) = IF u + 2 <= sl + 1 THEN sl + 1 - (u + 2) + 1 ELSE 0
          /\ \A k \in 1..(sl + 1 - (u + 2) + 1) : x[k] = line[u + 2 + k - 1]
        BY <1>0, <2>1, PieceType
    <2>. HIDE DEF x
    <2>3. x \in Texts /\ Len(x) = 5 /\ \A k \in 1..5 : x[k] = line[u + 2 + k - 1]
        BY <2>1, <2>2
    <2>4. \A k \in 1..5 : u + 2 + k - 1 = u + 1 + k
        BY <1>1
    <2>5. \A k \in 1..5 : x[k] = Protocol[k]
        BY <1>1, <2>3, <2>4
    <2>6. x = Protocol
        BY <2>3, <2>5, ProtocolIs, SeqEqual DEF Texts
    <2>. QED BY <2>6 DEF x
<1>6. SubSeq(line, 1, u + 1) \o HTTP \o <<Slash>> = SubSeq(line, 1, sl + 1)
    <2>1. u + 1 \in Nat /\ u + 1 + 1 = u + 2 /\ u + 1 <= sl + 1 /\ sl + 1 \in Nat
          /\ sl + 1 <= Len(line) /\ 1 - 1 <= u + 1
        BY <1>0
    <2>2. SubSeq(line, 1, u + 1) \o SubSeq(line, u + 1 + 1, sl + 1) = SubSeq(line, 1, sl + 1)
        BY <1>0, <2>1, Adjacent
    <2>3. SubSeq(line, 1, u + 1) \o Protocol = SubSeq(line, 1, sl + 1)
        BY <1>5, <2>1, <2>2
    <2>4. SubSeq(line, 1, u + 1) \in Texts /\ HTTP \in Texts /\ <<Slash>> \in Texts
        <3>1. SubSeq(line, 1, u + 1) \in Texts
            BY <1>0, <2>1, PieceType
        <3>. QED BY <3>1, ProtocolIs
    <2> DEFINE a == SubSeq(line, 1, u + 1)
               b == HTTP
               c == <<Slash>>
    <2>5. a \in Seq(Char) /\ b \in Seq(Char) /\ c \in Seq(Char)
        BY <2>4 DEF Texts
    <2>. HIDE DEF a, b, c, Char
    <2>6. (a \o b) \o c = a \o (b \o c)
        BY <2>5, ConcatAssociative
    <2>. QED BY <2>3, <2>6 DEF Protocol, a, b, c
<1>7. SubSeq(line, 1, sl + 1) \o SubSeq(line, sl + 2, e) = SubSeq(line, 1, e)
    <2>1. sl + 1 \in Nat /\ sl + 1 + 1 = sl + 2 /\ 1 - 1 <= sl + 1
        BY <1>0
    <2>2. SubSeq(line, 1, sl + 1) \o SubSeq(line, sl + 1 + 1, e) = SubSeq(line, 1, e)
        BY <1>0, <2>1, Adjacent
    <2>. QED BY <2>1, <2>2
<1> DEFINE am == SubSeq(line, 1, m)
           am1 == SubSeq(line, 1, m + 1)
           au == SubSeq(line, 1, u)
           au1 == SubSeq(line, 1, u + 1)
           as == SubSeq(line, 1, sl + 1)
           ae == SubSeq(line, 1, e)
           b == SubSeq(line, m + 2, u)
           v == SubSeq(line, sl + 2, e)
<1>8. am \o <<SP>> = am1 /\ am1 \o b = au /\ au \o <<SP>> = au1
      /\ au1 \o HTTP \o <<Slash>> = as /\ as \o v = ae
    BY <1>2, <1>3, <1>4, <1>6, <1>7
<1>. HIDE DEF am, am1, au, au1, as, ae, b, v
<1>9. am \o <<SP>> \o b \o <<SP>> \o HTTP \o <<Slash>> \o v = ae
    BY <1>8
<1>. QED BY <1>9 DEF am, ae, b, v, Joined

Target(x) == x.path \o (IF x.query = <<>> THEN <<>> ELSE <<Question>> \o x.query)

\* The parts make up the line, or, where the query would be empty, its begin.
LEMMA RequestTaken ==
    ASSUME NEW s \in Texts, RequestParse(s).ok
    PROVE  LET r == RequestParse(s)  line == FirstLine(s) IN
           \/ IsPrefix(r.method \o <<SP>> \o Target(r) \o <<SP>> \o HTTP \o <<Slash>> \o r.version,
                       line)
           \/ r.query = <<>> /\ IsPrefix(r.method \o <<SP>> \o r.path \o <<Question>>, line)
<1> DEFINE line == FirstLine(s)
           r == RequestParse(s)
           L == Len(line)
<1>1. line \in Texts /\ L \in Nat
    BY FirstLineType DEF Texts
<1>2. PICK m, u, sl :
          /\ Cut3(line, m, u, sl)
          /\ r = LET query == QueryBegin(line, m, u) IN
                   [ok |-> TRUE, method |-> Substr(line, 0, m),
                    path |-> IF query = Npos THEN Substr(line, m + 1, u - m - 1)
                             ELSE Substr(line, m + 1, query - m - 2),
                    query |-> IF query = Npos THEN <<>> ELSE Substr(line, query, u - query),
                    version |-> Substr(line, sl + 1, Len(line) - sl - 2),
                    header |-> HeaderParse(Rest(s))]
    BY RequestEnds
<1> DEFINE query == QueryBegin(line, m, u)
<1>3. /\ r.method = Substr(line, 0, m)
      /\ r.path = IF query = Npos THEN Substr(line, m + 1, u - m - 1)
                  ELSE Substr(line, m + 1, query - m - 2)
      /\ r.query = IF query = Npos THEN <<>> ELSE Substr(line, query, u - query)
      /\ r.version = Substr(line, sl + 1, L - sl - 2)
    <2>. HIDE DEF r
    <2>. QED BY <1>2
<1>. HIDE DEF line, r, query
<1>9. Cut3(line, m, u, sl)
    BY <1>2
<1>4. /\ m \in Nat /\ u \in Nat /\ m < u /\ sl = u + 5 /\ sl < L
      /\ line[m + 1] = SP /\ line[u + 1] = SP
    BY <1>2 DEF Cut3
<1>. HIDE DEF L
<1>5. r.method = SubSeq(line, 1, m)
    <2>1. 0 \in Nat /\ 0 <= Len(line) /\ m >= 0 /\ 0 + m <= Len(line) /\ m \in Int /\ 0 + m = m
          /\ 0 + 1 = 1
        BY <1>1, <1>4 DEF L
    <2>. QED BY <1>1, <1>3, <2>1, SubstrIs
<1>6. PICK e \in Nat : sl + 1 <= e /\ e <= Len(line) /\ r.version = SubSeq(line, sl + 2, e)
    <2>1. sl + 1 \in Nat /\ sl + 1 <= Len(line) /\ L - sl - 2 \in Int /\ sl + 1 + 1 = sl + 2
        BY <1>1, <1>4 DEF L
    <2>2. CASE sl + 2 <= L
        <3>1. L - sl - 2 >= 0 /\ sl + 1 + (L - sl - 2) = L - 1 /\ L - 1 <= Len(line)
              /\ L - 1 \in Nat /\ sl + 1 <= L - 1
            BY <1>1, <1>4, <2>2 DEF L
        <3>2. Substr(line, sl + 1, L - sl - 2) = SubSeq(line, sl + 2, L - 1)
            BY <1>1, <2>1, <3>1, SubstrIs
        <3>. QED BY <1>3, <3>1, <3>2
    <2>3. CASE sl + 2 > L
        <3>1. L - sl - 2 < 0 /\ sl + 1 <= L
            BY <1>1, <1>4, <2>3
        <3>2. Substr(line, sl + 1, L - sl - 2) = SubSeq(line, sl + 2, L)
            BY <1>1, <2>1, <3>1, SubstrIs DEF L
        <3>. QED BY <1>1, <1>3, <3>1, <3>2 DEF L
    <2>. QED BY <1>1, <1>4, <2>2, <2>3
<1>10. SubSeq(line, 1, m) \o <<SP>> \o SubSeq(line, m + 2, u) \o <<SP>> \o HTTP
          \o <<Slash>> \o SubSeq(line, sl + 2, e) = SubSeq(line, 1, e)
    <2>1. line \in Texts /\ Cut3(line, m, u, sl) /\ e \in Nat /\ sl + 1 <= e /\ e <= Len(line)
          /\ m \in Nat /\ u \in Nat /\ sl \in Nat
        BY <1>1, <1>4, <1>6, <1>9
    <2>2. Joined(line, m, u, sl, e) = SubSeq(line, 1, e)
        BY <2>1, RequestJoined
    <2>. QED BY <2>2 DEF Joined
<1> DEFINE marks == Marks(line, m, u)
<1>7. CASE marks = {}
    <2>1. query = Npos
        BY <1>7 DEF query, QueryBegin
    <2>2. r.path = SubSeq(line, m + 2, u) /\ r.query = <<>>
        <3>1. m + 1 \in Nat /\ m + 1 <= Len(line) /\ u - m - 1 \in Int /\ u - m - 1 >= 0
              /\ m + 1 + (u - m - 1) = u /\ u <= Len(line) /\ m + 1 + 1 = m + 2
            BY <1>1, <1>4 DEF L
        <3>2. Substr(line, m + 1, u - m - 1) = SubSeq(line, m + 2, u)
            BY <1>1, <3>1, SubstrIs
        <3>. QED BY <1>3, <2>1, <3>2
    <2>3. Target(r) = SubSeq(line, m + 2, u)
        <3>1. SubSeq(line, m + 2, u) \in Seq(Char)
            <4>1. m + 2 \in Nat /\ m + 2 >= 1 /\ u \in Int /\ u <= Len(line)
                BY <1>1, <1>4 DEF L
            <4>. QED BY <1>1, <4>1, PieceType DEF Texts
        <3>. QED BY <2>2, <3>1, ConcatEmptySeq DEF Target
    <2>4. r.method \o <<SP>> \o Target(r) \o <<SP>> \o HTTP \o <<Slash>> \o r.version
            = SubSeq(line, 1, e)
        BY <1>5, <1>6, <1>10, <2>3
    <2>5. IsPrefix(SubSeq(line, 1, e), line)
        BY <1>1, <1>6, PieceIsPrefix
    <2>. QED BY <2>4, <2>5 DEF line, r
<1>8. CASE marks # {}
    <2> DEFINE q == CHOOSE i \in marks : \A j \in marks : j <= i
    <2>1. q \in marks
        <3>1. marks \subseteq Nat /\ (\A n \in marks : n <= Len(line)) /\ Len(line) \in Int
            BY <1>1, <1>4 DEF L, Marks
        <3>. HIDE DEF marks
        <3>2. \E i \in marks : \A j \in marks : j <= i
            BY <1>8, <3>1, GreatestElement
        <3>. QED BY <3>2
    <2>2. query = 1 + q
        BY <1>8 DEF query, QueryBegin
    <2>. HIDE DEF q
    <2>3. q \in Nat /\ m + 1 <= q /\ q < u /\ line[q + 1] = Question /\ query \in Nat
          /\ query # Npos /\ query = q + 1 /\ query <= u
        BY <1>1, <1>4, <2>1, <2>2 DEF Marks, At, Npos, L
    <2>4. r.path = SubSeq(line, m + 2, q)
        <3>1. m + 1 \in Nat /\ m + 1 <= Len(line) /\ query - m - 2 \in Int /\ query - m - 2 >= 0
              /\ m + 1 + (query - m - 2) = q /\ q <= Len(line) /\ m + 1 + 1 = m + 2
            BY <1>1, <1>4, <2>3 DEF L
        <3>2. Substr(line, m + 1, query - m - 2) = SubSeq(line, m + 2, q)
            BY <1>1, <3>1, SubstrIs
        <3>. QED BY <1>3, <2>3, <3>2
    <2>5. r.query = SubSeq(line, q + 2, u)
        <3>1. query <= Len(line) /\ u - query \in Int /\ u - query >= 0
              /\ query + (u - query) = u /\ u <= Len(line) /\ query + 1 = q + 2
            BY <1>1, <1>4, <2>3 DEF L
        <3>2. Substr(line, query, u - query) = SubSeq(line, q + 2, u)
            BY <1>1, <2>3, <3>1, SubstrIs
        <3>. QED BY <1>3, <2>3, <3>2
    <2>6. q + 1 \in 1..Len(line) /\ q + 1 \in Nat /\ q + 1 <= Len(line) /\ q <= Len(line)
          /\ u <= Len(line) /\ q + 1 <= u /\ m + 2 \in Nat /\ m + 2 >= 1 /\ m + 2 - 1 <= q
          /\ q <= q + 1 /\ q + 1 + 1 = q + 2 /\ m + 2 - 1 <= q + 1 /\ q + 1 >= 1
          /\ q + 1 - 1 <= q + 1 /\ q + 2 \in Nat /\ q + 2 >= 1
        BY <1>1, <1>4, <2>3 DEF L
    <2>7. SubSeq(line, q + 1, q + 1) = <<Question>>
        BY <1>1, <2>3, <2>6, OneCharacter
    <2>8. CASE r.query # <<>>
        <3>1. <<Question>> \o r.query = SubSeq(line, q + 1, u)
            <4>1. SubSeq(line, q + 1, q + 1) \o SubSeq(line, q + 1 + 1, u) = SubSeq(line, q + 1, u)
                <5> DEFINE a == q + 1
                <5>1. a \in Nat /\ a >= 1 /\ a - 1 <= a /\ a <= u /\ u <= Len(line)
                    BY <2>6
                <5>. HIDE DEF a
                <5>2. SubSeq(line, a, a) \o SubSeq(line, a + 1, u) = SubSeq(line, a, u)
                    BY <1>1, <1>4, <5>1, Adjacent
                <5>. QED BY <5>2 DEF a
            <4>. QED BY <2>5, <2>6, <2>7, <4>1
        <3>2. r.path \o (<<Question>> \o r.query) = SubSeq(line, m + 2, u)
            <4>1. q <= u
                BY <1>4, <2>3
            <4>2. SubSeq(line, m + 2, q) \o SubSeq(line, q + 1, u) = SubSeq(line, m + 2, u)
                BY <1>1, <1>4, <2>3, <2>6, <4>1, Adjacent
            <4>. QED BY <2>4, <3>1, <4>2
        <3>3. Target(r) = SubSeq(line, m + 2, u)
            BY <2>8, <3>2 DEF Target
        <3>4. r.method \o <<SP>> \o Target(r) \o <<SP>> \o HTTP \o <<Slash>> \o r.version
                = SubSeq(line, 1, e)
            BY <1>5, <1>6, <1>10, <3>3
        <3>5. IsPrefix(SubSeq(line, 1, e), line)
            BY <1>1, <1>6, PieceIsPrefix
        <3>. QED BY <3>4, <3>5 DEF line, r
    <2>9. CASE r.query = <<>>
        <3>1. SubSeq(line, 1, m) \o <<SP>> = SubSeq(line, 1, m + 1)
            <4>1. m + 1 \in 1..Len(line) /\ m + 1 \in Nat /\ m + 1 <= Len(line) /\ m <= m + 1
                  /\ 1 - 1 <= m
                BY <1>1, <1>4 DEF L
            <4>2. SubSeq(line, m + 1, m + 1) = <<SP>>
                BY <1>1, <1>4, <4>1, OneCharacter
            <4>3. SubSeq(line, 1, m) \o SubSeq(line, m + 1, m + 1) = SubSeq(line, 1, m + 1)
                BY <1>1, <1>4, <4>1, Adjacent
            <4>. QED BY <4>2, <4>3
        <3>2. SubSeq(line, 1, m + 1) \o r.path = SubSeq(line, 1, q)
            <4>1. m + 1 \in Nat /\ 1 - 1 <= m + 1 /\ m + 1 + 1 = m + 2
                BY <1>4
            <4>2. SubSeq(line, 1, m + 1) \o SubSeq(line, m + 1 + 1, q) = SubSeq(line, 1, q)
                BY <1>1, <2>3, <2>6, <4>1, Adjacent
            <4>. QED BY <2>4, <4>1, <4>2
        <3>3. SubSeq(line, 1, q) \o <<Question>> = SubSeq(line, 1, q + 1)
            <4>1. 1 - 1 <= q
                BY <2>3
            <4>2. SubSeq(line, 1, q) \o SubSeq(line, q + 1, q + 1) = SubSeq(line, 1, q + 1)
                BY <1>1, <2>3, <2>6, <4>1, Adjacent
            <4>. QED BY <2>7, <4>2
        <3>4. IsPrefix(SubSeq(line, 1, q + 1), line)
            BY <1>1, <2>6, PieceIsPrefix
        <3>. QED BY <1>5, <2>9, <3>1, <3>2, <3>3, <3>4 DEF line, r
    <2>. QED BY <2>8, <2>9
<1>. QED BY <1>7, <1>8

\* A line with a first blank at i and a second at j, and "HTTP/" behind it.
LEMMA RequestCuts ==
    ASSUME NEW line \in Texts
    PROVE  (\E m, u, sl : Cut3(line, m, u, sl)) <=>
             \E i \in 1..Len(line) : \E j \in (i + 1)..Len(line) :
                /\ line[i] = SP /\ line[j] = SP
                /\ \A k \in 1..(j - 1) : k # i => line[k] # SP
                /\ IsPrefix(Protocol, SubSeq(line, j + 1, Len(line)))
<1>1. Len(line) \in Nat
    BY DEF Texts
<1>2. ASSUME NEW j \in 1..Len(line)
      PROVE  IsPrefix(Protocol, SubSeq(line, j + 1, Len(line)))
                <=> j + 5 <= Len(line) /\ \A k \in 1..5 : line[j + k] = Protocol[k]
    <2> DEFINE x == SubSeq(line, j + 1, Len(line))
    <2>1. j + 1 \in Nat /\ j + 1 >= 1 /\ Len(line) \in Int /\ Len(line) <= Len(line)
        BY <1>1
    <2>2. /\ x \in Texts
          /\ Len(x) = IF j + 1 <= Len(line) THEN Len(line) - (j + 1) + 1 ELSE 0
          /\ \A k \in 1..(Len(line) - (j + 1) + 1) : x[k] = line[j + 1 + k - 1]
        BY <2>1, PieceType
    <2>. HIDE DEF x
    <2>3. Len(x) = Len(line) - j
        BY <1>1, <2>2
    <2>4. \A k \in 1..(Len(line) - j) : x[k] = line[j + k]
        <3>1. \A k \in 1..(Len(line) - j) : k \in 1..(Len(line) - (j + 1) + 1)
                 /\ j + 1 + k - 1 = j + k
            BY <1>1
        <3>. QED BY <2>2, <3>1
    <2>5. IsPrefix(Protocol, x) <=> 5 <= Len(line) - j /\ \A k \in 1..5 : x[k] = Protocol[k]
        <3> DEFINE p == Protocol
        <3>1. p \in Texts /\ Len(p) = 5
            BY ProtocolIs
        <3>. HIDE DEF p
        <3>2. IsPrefix(p, x) <=> Len(p) <= Len(x) /\ \A k \in 1..Len(p) : x[k] = p[k]
            BY <2>2, <3>1, PrefixIs
        <3>3. IsPrefix(p, x) <=> 5 <= Len(x) /\ \A k \in 1..5 : x[k] = p[k]
            BY <3>1, <3>2
        <3>. QED BY <2>3, <3>3 DEF p
    <2>6. 5 <= Len(line) - j <=> j + 5 <= Len(line)
        BY <1>1
    <2>7. 5 <= Len(line) - j => \A k \in 1..5 : x[k] = line[j + k]
        <3>1. 5 <= Len(line) - j => \A k \in 1..5 : k \in 1..(Len(line) - j)
            BY <1>1
        <3>. QED BY <2>4, <3>1
    <2>8. IsPrefix(Protocol, x)
            <=> j + 5 <= Len(line) /\ \A k \in 1..5 : line[j + k] = Protocol[k]
        BY <2>5, <2>6, <2>7
    <2>. QED BY <2>8 DEF x
<1>3. ASSUME NEW m, NEW u, NEW sl, Cut3(line, m, u, sl)
      PROVE  \E i \in 1..Len(line) : \E j \in (i + 1)..Len(line) :
                /\ line[i] = SP /\ line[j] = SP
                /\ \A k \in 1..(j - 1) : k # i => line[k] # SP
                /\ IsPrefix(Protocol, SubSeq(line, j + 1, Len(line)))
    <2>1. /\ m \in Nat /\ u \in Nat /\ m < u /\ sl = u + 5 /\ sl < Len(line)
          /\ line[m + 1] = SP /\ line[u + 1] = SP
          /\ \A k \in 1..u : k # m + 1 => line[k] # SP
          /\ \A k \in 1..5 : line[u + 1 + k] = Protocol[k]
        BY <1>3 DEF Cut3
    <2>2. m + 1 \in 1..Len(line) /\ u + 1 \in (m + 1 + 1)..Len(line) /\ u + 1 \in 1..Len(line)
          /\ u + 1 - 1 = u /\ u + 1 + 5 <= Len(line)
        BY <1>1, <2>1
    <2>3. IsPrefix(Protocol, SubSeq(line, u + 1 + 1, Len(line)))
        BY <1>2, <2>1, <2>2
    <2>4. \A k \in 1..(u + 1 - 1) : k # m + 1 => line[k] # SP
        BY <2>1, <2>2
    <2>. QED BY <2>1, <2>2, <2>3, <2>4
<1>4. ASSUME NEW i \in 1..Len(line), NEW j \in (i + 1)..Len(line),
             line[i] = SP, line[j] = SP, \A k \in 1..(j - 1) : k # i => line[k] # SP,
             IsPrefix(Protocol, SubSeq(line, j + 1, Len(line)))
      PROVE  Cut3(line, i - 1, j - 1, j + 4)
    <2>1. j \in 1..Len(line)
        BY <1>1
    <2>2. j + 5 <= Len(line) /\ \A k \in 1..5 : line[j + k] = Protocol[k]
        BY <1>2, <1>4, <2>1
    <2>3. i - 1 \in Nat /\ j - 1 \in Nat /\ i - 1 < j - 1 /\ j + 4 = j - 1 + 5 /\ j + 4 < Len(line)
          /\ i - 1 + 1 = i /\ j - 1 + 1 = j
        BY <1>1, <2>2
    <2>. QED BY <1>4, <2>2, <2>3 DEF Cut3
<1>. QED BY <1>3, <1>4

\* RequestIsLine, of any text.
LEMMA RequestWhole ==
    ASSUME text \in Texts
    PROVE  RequestIsLine
<1>1. RequestParse(text).ok <=> \E m, u, sl : Cut3(FirstLine(text), m, u, sl)
    BY RequestEnds, RequestAccepted
<1>2. FirstLine(text) \in Texts
    BY FirstLineType
<1> DEFINE target(x) == x.path \o (IF x.query = <<>> THEN <<>> ELSE <<Question>> \o x.query)
           r == RequestParse(text)
           line == FirstLine(text)
<1>3. r.ok => \/ IsPrefix(r.method \o <<SP>> \o target(r) \o <<SP>> \o HTTP \o <<Slash>>
                             \o r.version, line)
              \/ r.query = <<>> /\ IsPrefix(r.method \o <<SP>> \o r.path \o <<Question>>, line)
    BY RequestTaken DEF Target
<1>4. r.ok <=> \E i \in 1..Len(line) : \E j \in (i + 1)..Len(line) :
                   /\ line[i] = SP /\ line[j] = SP
                   /\ \A k \in 1..(j - 1) : k # i => line[k] # SP
                   /\ IsPrefix(HTTP \o <<Slash>>, SubSeq(line, j + 1, Len(line)))
    BY <1>1, <1>2, RequestCuts DEF Protocol
<1>. HIDE DEF r, line, target
<1>. QED BY <1>3, <1>4 DEF RequestIsLine, r, line, target

\* StatusIsLine, of any text.
LEMMA StatusWhole ==
    ASSUME text \in Texts
    PROVE  StatusIsLine
BY StatusTaken DEF StatusIsLine, Protocol

-----------------------------------------------------------------------------
(* Query strings are split at their ampersands.                            *)

\* A piece of a piece is a piece.
LEMMA PieceOfPiece ==
    ASSUME NEW s \in Texts, NEW a \in Nat, NEW m \in Nat, a >= 1, m <= Len(s), a <= m + 1,
           NEW c \in Nat, NEW d \in Nat, c >= 1, d <= m - a + 1
    PROVE  SubSeq(SubSeq(s, a, m), c, d) = SubSeq(s, a + c - 1, a + d - 1)
<1> DEFINE x == SubSeq(s, a, m)
<1>0. Len(s) \in Nat
    BY DEF Texts
<1>1. x \in Texts /\ Len(x) = (IF a <= m THEN m - a + 1 ELSE 0)
      /\ \A k \in 1..(m - a + 1) : x[k] = s[a + k - 1]
    BY PieceType
<1>2. Len(x) = m - a + 1
    BY <1>1
<1>. HIDE DEF x
<1> DEFINE y == SubSeq(x, c, d)
           i == a + c - 1
           n == a + d - 1
           z == SubSeq(s, i, n)
<1>3. y \in Texts /\ Len(y) = (IF c <= d THEN d - c + 1 ELSE 0)
      /\ \A k \in 1..(d - c + 1) : y[k] = x[c + k - 1]
    <2>1. d <= Len(x) /\ d \in Int
        BY <1>2
    <2>. QED BY <1>1, <2>1, PieceType
<1>4. /\ i \in Nat /\ i >= 1 /\ n \in Int /\ n <= Len(s) /\ n - i + 1 = d - c + 1
      /\ i <= n <=> c <= d
    BY <1>0
<1>. HIDE DEF y, i, n
<1>5. z \in Texts /\ Len(z) = (IF i <= n THEN n - i + 1 ELSE 0)
      /\ \A k \in 1..(n - i + 1) : z[k] = s[i + k - 1]
    BY <1>4, PieceType
<1>. HIDE DEF z
<1>6. Len(y) = Len(z)
    BY <1>3, <1>4, <1>5
<1>7. \A k \in 1..Len(y) : y[k] = z[k]
    <2>1. SUFFICES ASSUME NEW k \in 1..Len(y) PROVE y[k] = z[k]
        OBVIOUS
    <2>2. k \in 1..(d - c + 1) /\ k \in 1..(n - i + 1) /\ k \in Nat
        BY <1>3, <1>4, <2>1
    <2>3. c + k - 1 \in 1..(m - a + 1) /\ a + (c + k - 1) - 1 = i + k - 1
        BY <2>2 DEF i
    <2>4. x[c + k - 1] = s[a + (c + k - 1) - 1]
        BY <1>1, <2>3
    <2>. QED BY <1>3, <1>5, <2>2, <2>3, <2>4
<1>8. y = z
    BY <1>3, <1>5, <1>6, <1>7, SeqEqual DEF Texts
<1>. QED BY <1>8 DEF x, y, z, i, n

\* Nothing is decoded to nothing.
LEMMA DecodeNothing == Decode(<<>>) = <<>>
<1> DEFINE e == <<>>
<1>1. e \in Texts /\ Len(e) = 0
    BY NoText
<1>. HIDE DEF e
<1>2. Decode(e) = Decodings(e)[0].out /\ Decodings(e)[0] = Nothing
    BY <1>1, DecodingsAre
<1>3. Decode(e) = <<>>
    BY <1>2 DEF Nothing
<1>. QED BY <1>3 DEF e

\* A piece without an equals sign is a name,
LEMMA PieceFieldNone ==
    ASSUME NEW p \in Texts, \A k \in 1..Len(p) : p[k] # Equal
    PROVE  PieceField(p) = IF p = <<>> THEN <<>> ELSE <<Field(p, <<>>)>>
<1>1. {i \in 1..Len(p) : p[i] = Equal} = {}
    OBVIOUS
<1>. QED BY <1>1 DEF PieceField

\* and one with a last equals sign is divided by it.
LEMMA PieceFieldAt ==
    ASSUME NEW p \in Texts, NEW e \in 1..Len(p), p[e] = Equal,
           \A k \in (e + 1)..Len(p) : p[k] # Equal
    PROVE  PieceField(p) =
               IF SubSeq(p, 1, e - 1) = <<>> THEN <<>>
               ELSE <<Field(SubSeq(p, 1, e - 1), Decode(SubSeq(p, e + 1, Len(p))))>>
<1> DEFINE equals == {i \in 1..Len(p) : p[i] = Equal}
           greatest == CHOOSE i \in equals : \A j \in equals : j <= i
<1>0. Len(p) \in Nat
    BY DEF Texts
<1>1. e \in equals /\ \A j \in equals : j <= e
    <2>1. e \in equals
        OBVIOUS
    <2>2. ASSUME NEW j \in equals PROVE j <= e
        <3>1. j \in 1..Len(p) /\ ~(j \in (e + 1)..Len(p))
            OBVIOUS
        <3>. QED BY <1>0, <3>1
    <2>. QED BY <2>1, <2>2
<1>2. equals \subseteq Int
    OBVIOUS
<1>3. greatest = e
    <2>. HIDE DEF equals
    <2>1. greatest \in equals /\ \A j \in equals : j <= greatest
        BY <1>1
    <2>2. greatest <= e /\ e <= greatest /\ greatest \in Int /\ e \in Int
        BY <1>1, <1>2, <2>1
    <2>. HIDE DEF greatest
    <2>. QED BY <2>2
<1>4. equals # {} /\ e # 0
    BY <1>1
<1> DEFINE ee == IF equals = {} THEN 0 ELSE greatest
           name == IF ee = 0 THEN p ELSE SubSeq(p, 1, ee - 1)
<1>5. ee = e
    BY <1>3, <1>4
<1>6. PieceField(p) = IF name = <<>> THEN <<>>
                      ELSE <<Field(name, IF ee = 0 THEN <<>>
                                         ELSE Decode(SubSeq(p, ee + 1, Len(p))))>>
    BY DEF PieceField
<1>. HIDE DEF ee
<1>. QED BY <1>4, <1>5, <1>6

\* The name's end and the value's begin are at the last equals sign before i.
LastEqual(q, s, i) ==
    \/ /\ s.nameEnd = Npos /\ s.value = Npos
       /\ \A k \in (s.name + 1)..i : q[k] # Equal
    \/ /\ s.nameEnd \in (s.name)..(i - 1) /\ s.value = s.nameEnd + 1 /\ q[s.nameEnd + 1] = Equal
       /\ \A k \in (s.nameEnd + 2)..i : q[k] # Equal

\* Then the loop finds the field that is in the piece.
LEMMA QueryFieldIs ==
    ASSUME NEW q \in Texts, NEW s \in Scans(q), NEW c \in Nat, s.name <= c, c <= Len(q),
           LastEqual(q, s, c)
    PROVE  QueryField(q, s, c) = PieceField(SubSeq(q, s.name + 1, c))
<1> DEFINE n == s.name
           e == s.nameEnd
           p == SubSeq(q, n + 1, c)
           name == Substr(q, n, (IF e = Npos THEN c ELSE e) - n)
           value == IF s.value \notin 0..(Len(q) - 1) THEN <<>> ELSE Substr(q, s.value, c - s.value)
<1>1. QueryField(q, s, c) = IF name = <<>> THEN <<>> ELSE <<Field(name, Decode(value))>>
    BY DEF QueryField
<1>2. n \in Nat /\ n <= c /\ e \in Int /\ s.value \in Int /\ Len(q) \in Nat
    BY DEF Scans, Texts
<1>3. n + 1 \in Nat /\ n + 1 >= 1 /\ c \in Int /\ n + 1 <= c + 1 /\ c - (n + 1) + 1 = c - n
      /\ n <= Len(q)
    BY <1>2
<1>. HIDE DEF n, e
<1>4. p \in Texts /\ Len(p) = c - n /\ \A k \in 1..(c - n) : p[k] = q[n + k]
    <2>1. p \in Texts /\ Len(p) = (IF n + 1 <= c THEN c - (n + 1) + 1 ELSE 0)
          /\ \A k \in 1..(c - (n + 1) + 1) : p[k] = q[n + 1 + k - 1]
        BY <1>3, PieceType
    <2>. HIDE DEF p
    <2>2. Len(p) = c - n
        BY <1>2, <2>1
    <2>3. \A k \in 1..(c - n) : n + 1 + k - 1 = n + k
        BY <1>2
    <2>. QED BY <1>3, <2>1, <2>2, <2>3
<1>5. CASE e = Npos /\ s.value = Npos /\ \A k \in (n + 1)..c : q[k] # Equal
    <2>1. name = p
        <3>1. c - n \in Int /\ c - n >= 0 /\ n + (c - n) = c /\ n + (c - n) <= Len(q)
            BY <1>2
        <3>2. Substr(q, n, c - n) = SubSeq(q, n + 1, c)
            BY <1>2, <1>3, <3>1, SubstrIs
        <3>. QED BY <1>5, <3>2
    <2>2. Decode(value) = <<>>
        <3>1. value = <<>>
            BY <1>5 DEF Npos
        <3>. QED BY <3>1, DecodeNothing
    <2>. HIDE DEF p, name, value
    <2>3. \A k \in 1..Len(p) : p[k] # Equal
        <3>1. \A k \in 1..(c - n) : n + k \in (n + 1)..c
            BY <1>2
        <3>. QED BY <1>4, <1>5, <3>1
    <2>4. PieceField(p) = IF p = <<>> THEN <<>> ELSE <<Field(p, <<>>)>>
        BY <1>4, <2>3, PieceFieldNone
    <2>5. QueryField(q, s, c) = PieceField(p)
        BY <1>1, <2>1, <2>2, <2>4
    <2>. QED BY <2>5 DEF p, n
<1>6. CASE /\ e \in n..(c - 1) /\ s.value = e + 1 /\ q[e + 1] = Equal
           /\ \A k \in (e + 2)..c : q[k] # Equal
    <2>0. e <= c - 1 /\ n <= e /\ c <= Len(q)
        BY <1>6
    <2> DEFINE d == e + 1 - n
    <2>1. e \in Nat /\ e # Npos /\ d \in 1..(c - n) /\ n + d = e + 1 /\ d \in Nat /\ d - 1 \in Nat
          /\ n + 1 + (d - 1) - 1 = e /\ n + 1 + 1 - 1 = n + 1 /\ d + 1 \in Nat /\ d + 1 >= 1
          /\ n + 1 + (d + 1) - 1 = e + 2 /\ n + 1 + (c - n) - 1 = c
          /\ c - (n + 1) + 1 = c - n /\ d - 1 <= c - (n + 1) + 1 /\ c - n \in Nat
          /\ c - n <= c - (n + 1) + 1
        BY <1>2, <2>0 DEF Npos
    <2>. HIDE DEF d
    <2>2. name = SubSeq(q, n + 1, e)
        <3>1. e - n \in Int /\ e - n >= 0 /\ n + (e - n) = e /\ n + (e - n) <= Len(q)
            BY <1>2, <1>6
        <3>2. Substr(q, n, e - n) = SubSeq(q, n + 1, e)
            BY <1>2, <1>3, <3>1, SubstrIs
        <3>. QED BY <2>1, <3>2
    <2>3. SubSeq(p, 1, d - 1) = SubSeq(q, n + 1, e)
        <3>1. SubSeq(SubSeq(q, n + 1, c), 1, d - 1) = SubSeq(q, n + 1 + 1 - 1, n + 1 + (d - 1) - 1)
            <4>1. 1 \in Nat /\ 1 >= 1
                OBVIOUS
            <4>. QED BY <1>2, <1>3, <2>1, <4>1, PieceOfPiece
        <3>. QED BY <2>1, <3>1
    <2>4. SubSeq(p, d + 1, c - n) = SubSeq(q, e + 2, c)
        <3>1. SubSeq(SubSeq(q, n + 1, c), d + 1, c - n)
                = SubSeq(q, n + 1 + (d + 1) - 1, n + 1 + (c - n) - 1)
            BY <1>2, <1>3, <2>1, PieceOfPiece
        <3>. QED BY <2>1, <3>1
    <2>5. value = SubSeq(q, e + 2, c)
        <3>1. CASE e + 1 < Len(q)
            <4>1. e + 1 \in Nat /\ e + 1 <= Len(q) /\ c - (e + 1) \in Int /\ c - (e + 1) >= 0
                  /\ e + 1 + (c - (e + 1)) = c /\ e + 1 + (c - (e + 1)) <= Len(q)
                  /\ e + 1 + 1 = e + 2
                BY <1>2, <2>0, <3>1
            <4>2. Substr(q, e + 1, c - (e + 1)) = SubSeq(q, e + 2, c)
                BY <4>1, SubstrIs
            <4>3. s.value \in 0..(Len(q) - 1)
                BY <1>2, <1>6, <3>1, <4>1
            <4>. QED BY <1>6, <4>2, <4>3
        <3>2. CASE ~(e + 1 < Len(q))
            <4>0. e + 1 \notin 0..(Len(q) - 1) /\ e + 2 > c /\ e + 2 \in Nat /\ e + 2 >= 1
                BY <1>2, <2>0, <3>2
            <4>1. s.value \notin 0..(Len(q) - 1) /\ e + 2 > c /\ e + 2 \in Nat /\ e + 2 >= 1
                BY <1>6, <4>0
            <4>2. SubSeq(q, e + 2, c) = <<>>
                <5> DEFINE z == SubSeq(q, e + 2, c)
                <5>1. z \in Texts /\ Len(z) = (IF e + 2 <= c THEN c - (e + 2) + 1 ELSE 0)
                    BY <1>3, <4>1, PieceType
                <5>. HIDE DEF z
                <5>2. z \in Seq(Char) /\ Len(z) = 0
                    BY <1>2, <2>1, <4>1, <5>1 DEF Texts
                <5>3. z = <<>>
                    BY <5>2, EmptySeq
                <5>. QED BY <5>3 DEF z
            <4>. QED BY <4>1, <4>2
        <3>. QED BY <3>1, <3>2
    <2>. HIDE DEF p, name, value
    <2>6. d \in 1..Len(p) /\ p[d] = Equal
        BY <1>4, <1>6, <2>1
    <2>7. \A k \in (d + 1)..Len(p) : p[k] # Equal
        <3>1. SUFFICES ASSUME NEW k \in (d + 1)..Len(p) PROVE p[k] # Equal
            OBVIOUS
        <3>2. k \in 1..(c - n) /\ n + k \in (e + 2)..c
            BY <1>2, <1>4, <2>0, <2>1, <3>1
        <3>. QED BY <1>4, <1>6, <3>2
    <2>8. PieceField(p) =
               IF SubSeq(p, 1, d - 1) = <<>> THEN <<>>
               ELSE <<Field(SubSeq(p, 1, d - 1), Decode(SubSeq(p, d + 1, Len(p))))>>
        BY <1>4, <2>6, <2>7, PieceFieldAt
    <2>9. SubSeq(p, 1, d - 1) = name /\ SubSeq(p, d + 1, Len(p)) = value
        BY <1>4, <2>2, <2>3, <2>4, <2>5
    <2>10. QueryField(q, s, c) = PieceField(p)
        BY <1>1, <2>8, <2>9
    <2>. QED BY <2>10 DEF p, n
<1>. QED BY <1>5, <1>6 DEF LastEqual, n, e

\* The fields of the pieces: of each character that begins one, and of no other.
PieceAt(q, i) ==
    IF i = 1 \/ q[i - 1] = Amp
    THEN PieceField(Substr(q, i - 1, Find(q, Amp, i - 1) - (i - 1)))
    ELSE <<>>

Pieces(q) == [i \in 1..(Len(q) + 1) |-> PieceAt(q, i)]

\* The fields of the pieces that begin at the first n characters.
Before(q, n) == Upto(Pieces(q), n)

\* The field of a piece holds texts,
LEMMA PieceFieldType ==
    ASSUME NEW p \in Texts
    PROVE  PieceField(p) \in Seq(Fields)
<1>0. Len(p) \in Nat
    BY DEF Texts
<1>1. CASE \A k \in 1..Len(p) : p[k] # Equal
    <2>1. PieceField(p) = IF p = <<>> THEN <<>> ELSE <<Field(p, <<>>)>>
        BY <1>1, PieceFieldNone
    <2>. QED BY <2>1, NoText, NoFields, OneField
<1>2. CASE ~ \A k \in 1..Len(p) : p[k] # Equal
    <2> DEFINE equals == {k \in 1..Len(p) : p[k] = Equal}
    <2>1. \E e \in equals : \A k \in equals : k <= e
        <3>1. equals \subseteq Nat /\ (\A n \in equals : n <= Len(p)) /\ equals # {}
            BY <1>0, <1>2
        <3>2. Len(p) \in Int
            BY <1>0
        <3>. HIDE DEF equals
        <3>. QED BY <3>1, <3>2, GreatestElement
    <2>2. PICK e \in equals : \A k \in equals : k <= e
        BY <2>1
    <2>3. e \in 1..Len(p) /\ p[e] = Equal /\ e \in Nat
        BY <1>0
    <2>4. \A k \in (e + 1)..Len(p) : p[k] # Equal
        <3>1. SUFFICES ASSUME NEW k \in (e + 1)..Len(p), p[k] = Equal PROVE FALSE
            OBVIOUS
        <3>2. k \in 1..Len(p) /\ ~(k <= e)
            BY <1>0, <2>3, <3>1
        <3>. QED BY <2>2, <3>1, <3>2
    <2> DEFINE name == SubSeq(p, 1, e - 1)
               value == SubSeq(p, e + 1, Len(p))
    <2>5. PieceField(p) = IF name = <<>> THEN <<>> ELSE <<Field(name, Decode(value))>>
        BY <2>3, <2>4, PieceFieldAt
    <2>6. name \in Texts /\ value \in Texts
        <3>1. 1 \in Nat /\ 1 >= 1 /\ e - 1 \in Int /\ e - 1 <= Len(p) /\ e + 1 \in Nat /\ e + 1 >= 1
              /\ Len(p) \in Int /\ Len(p) <= Len(p)
            BY <1>0, <2>3
        <3>. QED BY <3>1, PieceType
    <2>. HIDE DEF name, value
    <2>7. Decode(value) \in Texts
        BY <2>6, DecodeType
    <2>. QED BY <2>5, <2>6, <2>7, NoFields, OneField
<1>. QED BY <1>1, <1>2

\* and there is one piece for each position, that may be empty.
LEMMA PiecesType ==
    ASSUME NEW q \in Texts
    PROVE  /\ Pieces(q) \in Seq(Seq(Fields)) /\ Len(Pieces(q)) = Len(q) + 1
           /\ \A i \in 1..(Len(q) + 1) : Pieces(q)[i] = PieceAt(q, i)
<1>1. Len(q) \in Nat /\ Len(q) + 1 \in Nat
    BY DEF Texts
<1>2. ASSUME NEW i \in 1..(Len(q) + 1) PROVE PieceAt(q, i) \in Seq(Fields)
    <2>1. i - 1 \in Nat /\ i - 1 <= Len(q)
        BY <1>1
    <2>2. Find(q, Amp, i - 1) - (i - 1) \in Int
        <3>1. Find(q, Amp, i - 1) \in Int
            BY <2>1, FindIsAt
        <3>. QED BY <2>1, <3>1
    <2> DEFINE x == Substr(q, i - 1, Find(q, Amp, i - 1) - (i - 1))
    <2>3. x \in Texts
        BY <2>1, <2>2, SubstrType
    <2>. HIDE DEF x
    <2>4. PieceField(x) \in Seq(Fields)
        BY <2>3, PieceFieldType
    <2>. QED BY <2>4, NoFields DEF PieceAt, x
<1>3. Pieces(q) \in [1..(Len(q) + 1) -> Seq(Fields)]
    BY <1>2 DEF Pieces
<1>4. \A i \in 1..(Len(q) + 1) : Pieces(q)[i] = PieceAt(q, i)
    BY DEF Pieces
<1> DEFINE g == Pieces(q)
           n == Len(q) + 1
           A == Seq(Fields)
<1>. HIDE DEF g, n, A
<1>5. n \in Nat /\ g \in [1..n -> A]
    BY <1>1, <1>3 DEF g, n, A
<1>6. g \in Seq(A)
    BY <1>5, IsASeq
<1>7. Len(g) = n
    BY <1>5, <1>6, LenProperties
<1>. QED BY <1>4, <1>6, <1>7 DEF g, n, A

\* Each adds the fields of its own.
LEMMA BeforeIs ==
    ASSUME NEW q \in Texts
    PROVE  /\ FlattenSeq(Pieces(q)) = Before(q, Len(q) + 1) /\ Before(q, 0) = <<>>
           /\ \A n \in 0..Len(q) : Before(q, n + 1) = Before(q, n) \o Pieces(q)[n + 1]
           /\ \A n \in 0..(Len(q) + 1) : Before(q, n) \in Seq(Fields)
<1> DEFINE g == Pieces(q)
           S == Fields
<1>1. Len(q) \in Nat /\ Len(q) + 1 - 1 = Len(q)
    BY DEF Texts
<1>2. g \in Seq(Seq(S)) /\ Len(g) = Len(q) + 1
    BY PiecesType
<1>. HIDE DEF g, S
<1>3. /\ Upto(g, 0) = <<>>
      /\ \A n \in 0..(Len(g) - 1) : Upto(g, n + 1) = Upto(g, n) \o g[n + 1]
      /\ \A n \in 0..Len(g) : Upto(g, n) \in Seq(S)
      /\ FlattenSeq(g) = Upto(g, Len(g))
    BY <1>2, UptoIs
<1>. QED BY <1>1, <1>2, <1>3 DEF Before, g, S

\* The piece that begins after character n and ends at character c.
LEMMA PieceAtIs ==
    ASSUME NEW q \in Texts, NEW n \in Nat, NEW c \in Nat, n <= c, c <= Len(q),
           n = 0 \/ q[n] = Amp, \A k \in (n + 1)..c : q[k] # Amp,
           c = Len(q) \/ q[c + 1] = Amp
    PROVE  PieceAt(q, n + 1) = PieceField(SubSeq(q, n + 1, c))
<1> DEFINE f == Find(q, Amp, n)
<1>1. Len(q) \in Nat /\ n + 1 - 1 = n /\ (n + 1 = 1 <=> n = 0) /\ n <= Len(q)
    BY DEF Texts
<1>2. PieceAt(q, n + 1) = PieceField(Substr(q, n, f - n))
    BY <1>1 DEF PieceAt
<1>3. \A i \in n..(c - 1) : At(q, i) # Amp
    <2>1. \A i \in n..(c - 1) : i + 1 \in (n + 1)..c
        OBVIOUS
    <2>. QED BY <2>1 DEF At
<1>4. CASE c = Len(q)
    <2>1. f = Npos
        BY <1>3, <1>4, FindIsAt
    <2>2. f - n \in Int /\ f - n < 0
        BY <2>1 DEF Npos
    <2>3. Substr(q, n, f - n) = SubSeq(q, n + 1, Len(q))
        <3> DEFINE d == f - n
        <3>. HIDE DEF d
        <3>1. Substr(q, n, d) = SubSeq(q, n + 1, Len(q))
            BY <1>1, <2>2, SubstrIs DEF d
        <3>. QED BY <3>1 DEF d
    <2>. QED BY <1>2, <1>4, <2>3
<1>5. CASE c < Len(q) /\ q[c + 1] = Amp
    <2>1. c \in n..(Len(q) - 1) /\ At(q, c) = Amp
        BY <1>1, <1>5 DEF At
    <2>2. f = c
        BY <1>3, <2>1, FindIs
    <2>3. c - n \in Int /\ c - n >= 0 /\ n + (c - n) = c /\ n + (c - n) <= Len(q)
        BY <1>1
    <2>4. Substr(q, n, c - n) = SubSeq(q, n + 1, c)
        BY <1>1, <2>3, SubstrIs
    <2>. QED BY <1>2, <2>2, <2>4
<1>. QED BY <1>1, <1>4, <1>5

\* What is so when i characters were scanned: the fields before the current
\* piece are found, and so they and its own are all up to here.
QueryScanned(q, i, s) ==
    /\ s.name \in 0..i
    /\ s.name = 0 \/ q[s.name] = Amp
    /\ \A k \in (s.name + 1)..i : q[k] # Amp
    /\ LastEqual(q, s, i)
    /\ s.fields = Before(q, s.name)
    /\ Before(q, i + 1) = Before(q, s.name) \o Pieces(q)[s.name + 1]

\* Nothing begins after a character that is no ampersand.
LEMMA NoPieceBegins ==
    ASSUME NEW q \in Texts, NEW i \in 1..Len(q), q[i] # Amp
    PROVE  Before(q, i + 1) = Before(q, i)
<1>1. i \in 0..Len(q) /\ i + 1 \in 1..(Len(q) + 1) /\ i + 1 - 1 = i /\ i + 1 # 1
      /\ i \in 0..(Len(q) + 1)
    BY DEF Texts
<1>2. Pieces(q)[i + 1] = <<>>
    <2>1. Pieces(q)[i + 1] = PieceAt(q, i + 1)
        BY <1>1, PiecesType
    <2>. QED BY <1>1, <2>1 DEF PieceAt
<1>3. Before(q, i) \in Seq(Fields)
    BY <1>1, BeforeIs
<1>4. Before(q, i + 1) = Before(q, i) \o Pieces(q)[i + 1]
    BY <1>1, BeforeIs
<1>. HIDE DEF Fields
<1>. QED BY <1>2, <1>3, <1>4, ConcatEmptySeq

\* A character keeps what is known of the scan,
LEMMA QueryStepScanned ==
    ASSUME NEW q \in Texts, NEW i \in 1..Len(q), NEW s \in Scans(q), QueryScanned(q, i - 1, s)
    PROVE  QueryScanned(q, i, QueryStep(q, s, i - 1))
<1> DEFINE t == QueryStep(q, s, i - 1)
           n == s.name
<1>1. /\ n \in 0..(i - 1)
      /\ n = 0 \/ q[n] = Amp
      /\ \A k \in (n + 1)..(i - 1) : q[k] # Amp
      /\ LastEqual(q, s, i - 1)
      /\ s.fields = Before(q, n)
      /\ Before(q, i) = Before(q, n) \o Pieces(q)[n + 1]
    <2>1. i - 1 + 1 = i
        BY DEF Texts
    <2>. QED BY <2>1 DEF QueryScanned
<1>2. At(q, i - 1) = q[i]
    <2>1. i - 1 + 1 = i
        BY DEF Texts
    <2>. QED BY <2>1 DEF At
<1>3. Amp # Equal
    BY DEF Amp, Equal
<1>4. n \in Nat /\ i \in Nat /\ n <= i - 1 /\ Len(q) \in Nat /\ i <= Len(q) /\ i >= 1
      /\ i - 1 \in Nat /\ i - 1 <= Len(q) /\ i - 1 + 1 = i
    BY <1>1 DEF Texts
<1>. HIDE DEF n
<1>5. CASE q[i] = Amp
    <2>1. t = [fields |-> s.fields \o QueryField(q, s, i - 1), name |-> i - 1 + 1,
               nameEnd |-> Npos, value |-> Npos]
        BY <1>2, <1>3, <1>5 DEF QueryStep
    <2>. HIDE DEF t
    <2>2. t.fields = s.fields \o QueryField(q, s, i - 1) /\ t.name = i /\ t.nameEnd = Npos
          /\ t.value = Npos
        BY <1>4, <2>1
    <2>3. QueryField(q, s, i - 1) = PieceField(SubSeq(q, n + 1, i - 1))
        BY <1>1, <1>4, QueryFieldIs DEF n
    <2>4. PieceAt(q, n + 1) = PieceField(SubSeq(q, n + 1, i - 1))
        <3> DEFINE c == i - 1
        <3>1. c \in Nat /\ n <= c /\ c <= Len(q) /\ c + 1 = i
            BY <1>4
        <3>2. \A k \in (n + 1)..c : q[k] # Amp
            BY <1>1
        <3>. HIDE DEF c
        <3>3. PieceAt(q, n + 1) = PieceField(SubSeq(q, n + 1, c))
            BY <1>1, <1>4, <1>5, <3>1, <3>2, PieceAtIs
        <3>. QED BY <3>3 DEF c
    <2>5. Pieces(q)[n + 1] = PieceAt(q, n + 1)
        <3>1. n + 1 \in 1..(Len(q) + 1)
            BY <1>4
        <3>. QED BY <3>1, PiecesType
    <2>6. t.fields = Before(q, t.name)
        BY <1>1, <2>2, <2>3, <2>4, <2>5
    <2>7. Before(q, i + 1) = Before(q, t.name) \o Pieces(q)[t.name + 1]
        <3>1. i \in 0..Len(q)
            BY <1>4
        <3>2. Before(q, i + 1) = Before(q, i) \o Pieces(q)[i + 1]
            BY <3>1, BeforeIs
        <3>. QED BY <2>2, <3>2
    <2>8. LastEqual(q, t, i)
        <3>1. \A k \in (i + 1)..i : q[k] # Equal
            BY <1>4
        <3>. QED BY <2>2, <3>1 DEF LastEqual
    <2>9. t.name \in 0..i /\ \A k \in (t.name + 1)..i : q[k] # Amp
        <3>1. i \in 0..i /\ \A k \in (i + 1)..i : q[k] # Amp
            BY <1>4
        <3>. QED BY <2>2, <3>1
    <2>10. t.name = 0 \/ q[t.name] = Amp
        BY <1>5, <2>2
    <2>11. QueryScanned(q, i, t)
        BY <2>6, <2>7, <2>8, <2>9, <2>10 DEF QueryScanned
    <2>. QED BY <2>11 DEF t
<1>6. CASE q[i] # Amp
    <2>1. /\ t.name = n /\ t.fields = s.fields
          /\ q[i] = Equal => t.nameEnd = i - 1 /\ t.value = i - 1 + 1
          /\ q[i] # Equal => t.nameEnd = s.nameEnd /\ t.value = s.value
        <3>1. s = [fields |-> s.fields, name |-> s.name, nameEnd |-> s.nameEnd, value |-> s.value]
            BY DEF Scans
        <3>2. CASE q[i] = Equal
            <4>1. t = [s EXCEPT !.nameEnd = i - 1, !.value = i - 1 + 1]
                BY <1>2, <1>3, <3>2 DEF QueryStep
            <4>. HIDE DEF t
            <4>. QED BY <3>1, <3>2, <4>1 DEF n
        <3>3. CASE q[i] # Equal
            <4>1. t = s
                BY <1>2, <1>6, <3>3 DEF QueryStep
            <4>. HIDE DEF t
            <4>. QED BY <3>3, <4>1 DEF n
        <3>. QED BY <3>2, <3>3
    <2>. HIDE DEF t
    <2>2. \A k \in (n + 1)..i : q[k] # Amp
        <3>1. \A k \in (n + 1)..i : k = i \/ k \in (n + 1)..(i - 1)
            BY <1>4
        <3>. QED BY <1>1, <1>6, <3>1
    <2>3. LastEqual(q, t, i)
        <3>1. CASE q[i] = Equal
            <4>1. i - 1 \in n..(i - 1) /\ i - 1 + 1 = i /\ \A k \in (i - 1 + 2)..i : q[k] # Equal
                BY <1>4
            <4>. QED BY <2>1, <3>1, <4>1 DEF LastEqual
        <3>2. CASE q[i] # Equal
            <4>1. t.nameEnd = s.nameEnd /\ t.value = s.value
                BY <2>1, <3>2
            <4>2. CASE /\ s.nameEnd = Npos /\ s.value = Npos
                       /\ \A k \in (n + 1)..(i - 1) : q[k] # Equal
                <5>1. \A k \in (n + 1)..i : k = i \/ k \in (n + 1)..(i - 1)
                    BY <1>4
                <5>2. \A k \in (n + 1)..i : q[k] # Equal
                    BY <3>2, <4>2, <5>1
                <5>. QED BY <2>1, <4>1, <4>2, <5>2 DEF LastEqual
            <4>3. CASE /\ s.nameEnd \in n..(i - 1 - 1) /\ s.value = s.nameEnd + 1
                       /\ q[s.nameEnd + 1] = Equal
                       /\ \A k \in (s.nameEnd + 2)..(i - 1) : q[k] # Equal
                <5> DEFINE e == s.nameEnd
                <5>1. e \in n..(i - 1 - 1) /\ \A k \in (e + 2)..(i - 1) : q[k] # Equal
                    BY <4>3
                <5>. HIDE DEF e
                <5>2. e \in n..(i - 1) /\ e \in Int
                    BY <1>4, <5>1
                <5>3. \A k \in (e + 2)..i : k = i \/ k \in (e + 2)..(i - 1)
                    BY <1>4, <5>2
                <5>4. \A k \in (e + 2)..i : q[k] # Equal
                    BY <3>2, <5>1, <5>3
                <5>. QED BY <2>1, <4>1, <4>3, <5>2, <5>4 DEF LastEqual, e
            <4>. QED BY <1>1, <4>2, <4>3 DEF LastEqual, n
        <3>. QED BY <3>1, <3>2
    <2>4. Before(q, i + 1) = Before(q, n) \o Pieces(q)[n + 1]
        BY <1>1, <1>6, NoPieceBegins
    <2>5. n \in 0..i
        BY <1>4
    <2>6. QueryScanned(q, i, t)
        BY <1>1, <2>1, <2>2, <2>3, <2>4, <2>5 DEF QueryScanned
    <2>. QED BY <2>6 DEF t
<1>. QED BY <1>5, <1>6

\* so it is known of the whole query string.
LEMMA QueryAllScanned ==
    ASSUME NEW q \in Texts
    PROVE  QueryScanned(q, Len(q), QueryScan(q)) /\ QueryScan(q) \in Scans(q)
<1>1. Len(q) \in Nat /\ Len(q) \in 0..Len(q)
    BY DEF Texts
<1> DEFINE Good == {i \in Nat : i <= Len(q) => QueryScanned(q, i, QueryScans(q)[i])}
<1>2. 0 \in Good
    <2>1. QueryScans(q)[0] = FirstField
        BY QueryScansAre
    <2> DEFINE s == FirstField
    <2>2. s.name = 0 /\ s.nameEnd = Npos /\ s.value = Npos /\ s.fields = <<>>
        BY DEF FirstField
    <2>. HIDE DEF s
    <2>3. \A k \in (0 + 1)..0 : FALSE
        OBVIOUS
    <2>4. Before(q, 0) = <<>>
        BY BeforeIs
    <2>5. Before(q, 0 + 1) = Before(q, 0) \o Pieces(q)[0 + 1]
        <3>1. 0 \in 0..Len(q)
            BY <1>1
        <3>. QED BY <3>1, BeforeIs
    <2>6. LastEqual(q, s, 0)
        BY <2>2, <2>3 DEF LastEqual
    <2>7. 0 \in 0..0
        OBVIOUS
    <2>8. QueryScanned(q, 0, s)
        BY <2>2, <2>3, <2>4, <2>5, <2>6, <2>7 DEF QueryScanned
    <2>. QED BY <2>1, <2>8 DEF s
<1>3. ASSUME NEW i \in Nat, i \in Good PROVE i + 1 \in Good
    <2>1. SUFFICES ASSUME i + 1 <= Len(q)
                   PROVE  QueryScanned(q, i + 1, QueryScans(q)[i + 1])
        OBVIOUS
    <2> DEFINE j == i + 1
    <2>2. j \in 1..Len(q) /\ j - 1 = i /\ i <= Len(q) /\ i \in 0..Len(q)
        BY <1>1, <2>1
    <2>3. QueryScanned(q, i, QueryScans(q)[i])
        BY <1>3, <2>2
    <2>. HIDE DEF j
    <2>4. QueryScans(q)[j] = QueryStep(q, QueryScans(q)[j - 1], j - 1)
          /\ QueryScans(q)[j - 1] \in Scans(q)
        BY <2>2, QueryScansAre
    <2>5. QueryScanned(q, j - 1, QueryScans(q)[j - 1])
        BY <2>2, <2>3
    <2>6. QueryScanned(q, j, QueryScans(q)[j])
        BY <2>2, <2>4, <2>5, QueryStepScanned
    <2>. QED BY <2>6 DEF j
<1>4. Len(q) \in Good
    <2>. HIDE DEF Good
    <2>. QED BY <1>1, <1>2, <1>3, Induction
<1>5. QueryScanned(q, Len(q), QueryScans(q)[Len(q)])
    BY <1>1, <1>4
<1>. QED BY <1>1, <1>5, QueryScansAre

\* The scan finds what splitting finds.
LEMMA QuerySplit ==
    ASSUME NEW q \in Texts
    PROVE  QueryParse(q) = FlattenSeq(Pieces(q))
<1> DEFINE s == QueryScan(q)
           n == s.name
           L == Len(q)
<1>1. s \in Scans(q) /\ QueryScanned(q, L, s)
    BY QueryAllScanned
<1>2. QueryParse(q) = IF n < L THEN s.fields \o QueryField(q, s, L) ELSE s.fields
    BY DEF QueryParse
<1>. HIDE DEF s
<1>3. /\ n \in 0..L
      /\ n = 0 \/ q[n] = Amp
      /\ \A k \in (n + 1)..L : q[k] # Amp
      /\ LastEqual(q, s, L)
      /\ s.fields = Before(q, n)
      /\ Before(q, L + 1) = Before(q, n) \o Pieces(q)[n + 1]
    BY <1>1 DEF QueryScanned
<1>4. L \in Nat /\ n \in Nat /\ n <= L
    <2>1. L \in Nat
        BY DEF Texts
    <2>. QED BY <1>3, <2>1
<1>. HIDE DEF n
<1>5. Pieces(q)[n + 1] = PieceField(SubSeq(q, n + 1, L))
    <2>1. n + 1 \in 1..(L + 1)
        BY <1>4
    <2>2. Pieces(q)[n + 1] = PieceAt(q, n + 1)
        BY <2>1, PiecesType
    <2>3. PieceAt(q, n + 1) = PieceField(SubSeq(q, n + 1, L))
        BY <1>3, <1>4, PieceAtIs
    <2>. QED BY <2>2, <2>3
<1>6. FlattenSeq(Pieces(q)) = Before(q, n) \o PieceField(SubSeq(q, n + 1, L))
    BY <1>3, <1>5, BeforeIs
<1>7. CASE n < L
    <2>1. QueryField(q, s, L) = PieceField(SubSeq(q, n + 1, L))
        BY <1>1, <1>3, <1>4, QueryFieldIs DEF n
    <2>. QED BY <1>2, <1>3, <1>6, <1>7, <2>1
<1>8. CASE ~(n < L)
    <2> DEFINE p == SubSeq(q, n + 1, L)
    <2>1. n + 1 \in Nat /\ n + 1 >= 1 /\ L \in Int /\ L <= Len(q) /\ ~(n + 1 <= L)
        BY <1>4, <1>8
    <2>2. p \in Texts /\ Len(p) = (IF n + 1 <= L THEN L - (n + 1) + 1 ELSE 0)
        BY <2>1, PieceType
    <2>. HIDE DEF p
    <2>3. p = <<>>
        <3>1. p \in Seq(Char) /\ Len(p) = 0
            BY <2>1, <2>2 DEF Texts
        <3>. QED BY <3>1, EmptySeq
    <2>4. PieceField(p) = <<>>
        <3>1. \A k \in 1..Len(p) : p[k] # Equal
            BY <2>1, <2>2
        <3>. QED BY <2>2, <2>3, <3>1, PieceFieldNone
    <2>5. Before(q, n) \in Seq(Fields)
        <3>1. n \in 0..(Len(q) + 1)
            BY <1>4
        <3>. QED BY <3>1, BeforeIs
    <2>6. Before(q, n) \o <<>> = Before(q, n)
        <3>. HIDE DEF Fields
        <3>. QED BY <2>5, ConcatEmptySeq
    <2>. QED BY <1>2, <1>3, <1>6, <1>8, <2>4, <2>6 DEF p
<1>. QED BY <1>7, <1>8

\* QueryIsSplit, of any text.
LEMMA QueryWhole ==
    ASSUME text \in Texts
    PROVE  QueryIsSplit
BY QuerySplit DEF QueryIsSplit, Pieces, PieceAt

-----------------------------------------------------------------------------
(* Decoding undoes encoding.                                               *)

\* A piece and the character behind it.
LEMMA PieceAppend ==
    ASSUME NEW s \in Texts, NEW k \in 0..(Len(s) - 1)
    PROVE  Append(SubSeq(s, 1, k), s[k + 1]) = SubSeq(s, 1, k + 1)
<1>1. k \in Nat /\ k + 1 \in Nat /\ k + 1 \in 1..Len(s) /\ k + 1 <= Len(s) /\ k <= Len(s)
      /\ 1 \in Nat /\ 1 >= 1 /\ 1 - 1 <= k /\ k <= k + 1
    BY DEF Texts
<1>2. SubSeq(s, k + 1, k + 1) = <<s[k + 1]>>
    BY <1>1, OneCharacter
<1>3. SubSeq(s, 1, k) \o SubSeq(s, k + 1, k + 1) = SubSeq(s, 1, k + 1)
    BY <1>1, Adjacent
<1>4. SubSeq(s, 1, k) \in Texts
    BY <1>1, PieceType
<1> DEFINE u == SubSeq(s, 1, k)
           c == s[k + 1]
<1>5. u \in Seq(Char) /\ c \in Char
    BY <1>1, <1>4 DEF Texts
<1>. HIDE DEF u, c, Char
<1>6. Append(u, c) = u \o <<c>>
    BY <1>5, AppendIsConcat
<1>. QED BY <1>2, <1>3, <1>6 DEF u, c

\* A character that is no code is decoded as itself,
LEMMA DecodePlainStep ==
    ASSUME NEW s \in Texts, NEW a \in 0..(Len(s) - 1), s[a + 1] # Percent, s[a + 1] # Plus,
           Decodings(s)[a].skip <= a
    PROVE  /\ Decodings(s)[a + 1].out = Append(Decodings(s)[a].out, s[a + 1])
           /\ Decodings(s)[a + 1].skip <= a + 1
<1> DEFINE d == Decodings(s)[a]
           i == a + 1
<1>1. i \in 1..Len(s) /\ i - 1 = a /\ a \in 0..Len(s) /\ a \in Nat /\ i \in Nat
    BY DEF Texts
<1>2. d \in Decoded /\ d.skip <= a
    BY <1>1, QueryScansAre, DecodingsAre
<1>3. s[i] # Percent /\ s[i] # Plus
    OBVIOUS
<1>4. Decodings(s)[i] = DecodeStep(s, d, i)
    <2>1. Decodings(s)[i] = DecodeStep(s, Decodings(s)[i - 1], i)
        <3>. HIDE DEF i
        <3>. QED BY <1>1, DecodingsAre
    <2>. QED BY <1>1, <2>1
<1>. HIDE DEF d, i
<1>5. d = [out |-> d.out, skip |-> d.skip] /\ d.skip \in Nat
    BY <1>2 DEF Decoded
<1>6. i > d.skip /\ d.skip <= i
    <2>1. i = a + 1
        BY DEF i
    <2>. QED BY <1>1, <1>2, <1>5, <2>1
<1>7. ~(i <= d.skip)
    BY <1>1, <1>5, <1>6
<1>8. DecodeStep(s, d, i) = [d EXCEPT !.out = Append(@, s[i])]
    BY <1>3, <1>6, <1>7 DEF DecodeStep
<1>9. DecodeStep(s, d, i).out = Append(d.out, s[i]) /\ DecodeStep(s, d, i).skip = d.skip
    BY <1>5, <1>8
<1>. QED BY <1>4, <1>6, <1>9 DEF d, i

\* and the three of a code as one.
LEMMA DecodeCodeStep ==
    ASSUME NEW s \in Texts, NEW a \in 0..(Len(s) - 3), s[a + 1] = Percent,
           Decodings(s)[a].skip <= a
    PROVE  /\ Decodings(s)[a + 3].out = Append(Decodings(s)[a].out, Strtol(s[a + 2], s[a + 3]))
           /\ Decodings(s)[a + 3].skip <= a + 3
<1> DEFINE d == Decodings(s)[a]
           i == a + 1
           j == a + 2
           k == a + 3
           e == [out |-> Append(d.out, Strtol(s[j], s[k])), skip |-> k]
<1>1. /\ i \in 1..Len(s) /\ i - 1 = a /\ a \in 0..Len(s) /\ a \in Nat /\ i \in Nat
      /\ j \in 1..Len(s) /\ j - 1 = i /\ k \in 1..Len(s) /\ k - 1 = j /\ i + 1 = j /\ i + 2 = k
      /\ k <= Len(s) /\ j <= k /\ k <= k
    BY DEF Texts
<1>2. d \in Decoded /\ d.skip <= a
    BY <1>1, DecodingsAre
<1>3. s[i] = Percent
    OBVIOUS
<1>4. d.skip \in Nat
    BY <1>2 DEF Decoded
<1>5. i > d.skip /\ ~(i <= d.skip)
    <2>1. i = a + 1
        OBVIOUS
    <2>. HIDE DEF d, i
    <2>. QED BY <1>1, <1>2, <1>4, <2>1
<1>. HIDE DEF d, i, j, k
<1>6. Decodings(s)[i] = DecodeStep(s, Decodings(s)[i - 1], i)
      /\ Decodings(s)[j] = DecodeStep(s, Decodings(s)[j - 1], j)
      /\ Decodings(s)[k] = DecodeStep(s, Decodings(s)[k - 1], k)
    BY <1>1, DecodingsAre
<1>7. DecodeStep(s, d, i) = e
    <2>1. i > d.skip /\ s[i] = Percent /\ i + 2 <= Len(s) /\ Percent # Plus
        BY <1>1, <1>3, <1>5 DEF Percent, Plus
    <2>. QED BY <1>1, <1>5, <2>1 DEF DecodeStep
<1>8. e.skip = k /\ e.out = Append(d.out, Strtol(s[j], s[k]))
    OBVIOUS
<1>. HIDE DEF e
<1>9. DecodeStep(s, e, j) = e
    BY <1>1, <1>8 DEF DecodeStep
<1>10. DecodeStep(s, e, k) = e
    BY <1>1, <1>8 DEF DecodeStep
<1>11. Decodings(s)[k] = e
    BY <1>1, <1>6, <1>7, <1>9, <1>10 DEF d
<1>12. Decodings(s)[k].out = Append(d.out, Strtol(s[j], s[k])) /\ Decodings(s)[k].skip <= k
    BY <1>1, <1>8, <1>11
<1>. QED BY <1>12 DEF d, j, k

\* A text without codes and plus signs is decoded as itself.
LEMMA DecodePlain ==
    ASSUME NEW s \in Texts, \A j \in 1..Len(s) : s[j] # Percent /\ s[j] # Plus
    PROVE  Decode(s) = s
<1>1. Len(s) \in Nat
    BY DEF Texts
<1> DEFINE Good == {k \in Nat : k <= Len(s) =>
                      Decodings(s)[k].out = SubSeq(s, 1, k) /\ Decodings(s)[k].skip <= k}
<1>2. 0 \in Good
    <2>1. Decodings(s)[0].out = <<>> /\ Decodings(s)[0].skip = 0
        BY DecodingsAre DEF Nothing
    <2>2. SubSeq(s, 1, 0) = <<>>
        OBVIOUS
    <2>3. 0 \in Nat /\ 0 <= 0
        OBVIOUS
    <2>. QED BY <2>1, <2>2, <2>3
<1>3. ASSUME NEW k \in Nat, k \in Good PROVE k + 1 \in Good
    <2>1. SUFFICES ASSUME k + 1 <= Len(s)
                   PROVE  Decodings(s)[k + 1].out = SubSeq(s, 1, k + 1)
                          /\ Decodings(s)[k + 1].skip <= k + 1
        OBVIOUS
    <2>2. k \in 0..(Len(s) - 1) /\ k + 1 \in 1..Len(s) /\ k <= Len(s)
        BY <1>1, <2>1
    <2>3. Decodings(s)[k].out = SubSeq(s, 1, k) /\ Decodings(s)[k].skip <= k
        BY <1>3, <2>2
    <2>4. s[k + 1] # Percent /\ s[k + 1] # Plus
        BY <2>2
    <2>5. Decodings(s)[k + 1].out = Append(Decodings(s)[k].out, s[k + 1])
          /\ Decodings(s)[k + 1].skip <= k + 1
        BY <2>2, <2>3, <2>4, DecodePlainStep
    <2>. QED BY <2>2, <2>3, <2>5, PieceAppend
<1>4. \A k \in Nat : k \in Good
    <2>. HIDE DEF Good
    <2>. QED BY <1>2, <1>3, Induction
<1>5. Decodings(s)[Len(s)].out = SubSeq(s, 1, Len(s))
    BY <1>1, <1>4
<1>6. SubSeq(s, 1, Len(s)) = s
    BY SubSeqFull DEF Texts
<1>. QED BY <1>5, <1>6, DecodingsAre

\* The code of a character.
Code(ch) ==
    IF Unreserved(ch) THEN <<ch>>
    ELSE <<Percent, HexChar(ch \div 16), HexChar(ch % 16)>>

Codes(s) == [i \in 1..Len(s) |-> Code(s[i])]

\* What is neither a mark of the query string nor of the encoding.
Neutral == Char \ {Amp, Equal}

\* Two digits are the character,
LEMMA CodeIs ==
    ASSUME NEW ch \in Char
    PROVE  /\ HexChar(ch \div 16) \in Neutral /\ HexChar(ch % 16) \in Neutral
           /\ Strtol(HexChar(ch \div 16), HexChar(ch % 16)) = ch
<1>1. ch \div 16 \in 0..15 /\ ch % 16 \in 0..15 /\ 16 * (ch \div 16) + (ch % 16) = ch
    BY DEF Char
<1>2. ASSUME NEW n \in 0..15
      PROVE  /\ HexChar(n) \in Neutral /\ HexValue(HexChar(n)) = n
             /\ HexChar(n) \in (48..57) \cup (65..70)
    <2>1. CASE n < 10
        <3>1. HexChar(n) = 48 + n /\ 48 + n \in 48..57
            BY <2>1 DEF HexChar
        <3>2. 48 + n \in Neutral
            BY <3>1 DEF Neutral, Char, Amp, Equal
        <3> DEFINE h == HexChar(n)
        <3>3. h = 48 + n /\ h \in 48..57 /\ h - 48 = n
            BY <3>1
        <3>. HIDE DEF h
        <3>4. HexValue(h) = h - 48
            BY <3>3 DEF HexValue
        <3>. QED BY <3>1, <3>2, <3>3, <3>4 DEF h
    <2>2. CASE ~(n < 10)
        <3>1. HexChar(n) = 55 + n /\ 55 + n \in 65..70
            BY <2>2 DEF HexChar
        <3>2. 55 + n \in Neutral
            BY <3>1 DEF Neutral, Char, Amp, Equal
        <3> DEFINE h == HexChar(n)
        <3>3. h = 55 + n /\ h \in 65..70 /\ h - 55 = n
            BY <3>1
        <3>. HIDE DEF h
        <3>4. HexValue(h) = h - 55
            BY <3>3 DEF HexValue
        <3>. QED BY <3>1, <3>2, <3>3, <3>4 DEF h
    <2>. QED BY <2>1, <2>2
<1> DEFINE x == ch \div 16
           y == ch % 16
<1>3. x \in 0..15 /\ y \in 0..15 /\ 16 * x + y = ch
    BY <1>1
<1>. HIDE DEF x, y
<1>4. HexValue(HexChar(x)) = x /\ HexValue(HexChar(y)) = y
      /\ HexChar(x) \in (48..57) \cup (65..70)
    BY <1>2, <1>3
<1>5. Strtol(HexChar(x), HexChar(y)) = 16 * x + y
    <2> DEFINE a == HexChar(x)
               b == HexChar(y)
    <2>1. HexValue(a) = x /\ HexValue(b) = y
        BY <1>4
    <2>2. x >= 0 /\ y >= 0 /\ ~(y < 0) /\ ~(x < 0)
        BY <1>3
    <2>3. a \notin {SP, Plus} \cup (9..13) /\ a # Minus
        BY <1>4 DEF SP, Plus, Minus
    <2>. HIDE DEF a, b
    <2>4. Strtol(a, b) = 16 * x + y
        BY <2>1, <2>2, <2>3 DEF Strtol
    <2>. QED BY <2>4 DEF a, b
<1>. QED BY <1>2, <1>3, <1>5 DEF x, y

\* a code has one character or three, all of them neutral,
LEMMA CodeType ==
    ASSUME NEW ch \in Char
    PROVE  /\ Code(ch) \in Seq(Neutral)
           /\ Unreserved(ch) => /\ Len(Code(ch)) = 1 /\ Code(ch)[1] = ch
                                /\ ch # Percent /\ ch # Plus
           /\ ~Unreserved(ch) => /\ Len(Code(ch)) = 3 /\ Code(ch)[1] = Percent
                                 /\ Code(ch)[2] = HexChar(ch \div 16)
                                 /\ Code(ch)[3] = HexChar(ch % 16)
<1>1. CASE Unreserved(ch)
    <2>1. ch # Amp /\ ch # Equal /\ ch # Percent /\ ch # Plus
        BY <1>1 DEF Unreserved, Amp, Equal, Percent, Plus
    <2>2. ch \in Neutral
        BY <2>1 DEF Neutral
    <2>3. Code(ch) = <<ch>>
        BY <1>1 DEF Code
    <2>. HIDE DEF Neutral, Char
    <2>4. <<ch>> \in Seq(Neutral) /\ Len(<<ch>>) = 1 /\ <<ch>>[1] = ch
        BY <2>2
    <2>. QED BY <1>1, <2>1, <2>3, <2>4
<1>2. CASE ~Unreserved(ch)
    <2> DEFINE x == HexChar(ch \div 16)
               y == HexChar(ch % 16)
    <2>1. x \in Neutral /\ y \in Neutral
        BY CodeIs
    <2>2. Percent \in Neutral
        BY DEF Neutral, Char, Percent, Amp, Equal
    <2>3. Code(ch) = <<Percent, x, y>>
        BY <1>2 DEF Code
    <2>. HIDE DEF Neutral, Char, x, y
    <2>4. <<Percent, x, y>> \in Seq(Neutral) /\ Len(<<Percent, x, y>>) = 3
          /\ <<Percent, x, y>>[1] = Percent /\ <<Percent, x, y>>[2] = x /\ <<Percent, x, y>>[3] = y
        BY <2>1, <2>2
    <2>. QED BY <1>2, <2>3, <2>4 DEF x, y
<1>. QED BY <1>1, <1>2

\* and so have all of them.
LEMMA CodesType ==
    ASSUME NEW s \in Texts
    PROVE  /\ Codes(s) \in Seq(Seq(Neutral)) /\ Len(Codes(s)) = Len(s)
           /\ \A i \in 1..Len(s) : Codes(s)[i] = Code(s[i])
           /\ Encode(s) = FlattenSeq(Codes(s))
<1>1. Len(s) \in Nat
    BY DEF Texts
<1>2. ASSUME NEW i \in 1..Len(s) PROVE Code(s[i]) \in Seq(Neutral)
    <2>1. s[i] \in Char
        <3>. HIDE DEF Char
        <3>. QED BY DEF Texts
    <2>. QED BY <2>1, CodeType
<1>3. Codes(s) \in [1..Len(s) -> Seq(Neutral)]
    BY <1>2 DEF Codes
<1>4. \A i \in 1..Len(s) : Codes(s)[i] = Code(s[i])
    BY DEF Codes
<1>5. Encode(s) = FlattenSeq(Codes(s))
    BY DEF Encode, Codes, Code
<1> DEFINE g == Codes(s)
           n == Len(s)
           A == Seq(Neutral)
<1>. HIDE DEF g, n, A
<1>6. n \in Nat /\ g \in [1..n -> A]
    BY <1>1, <1>3 DEF g, n, A
<1>7. g \in Seq(A)
    BY <1>6, IsASeq
<1>8. Len(g) = n
    BY <1>6, <1>7, LenProperties
<1>. QED BY <1>4, <1>5, <1>7, <1>8 DEF g, n, A

\* Texts without marks are texts.
LEMMA NeutralTexts ==
    ASSUME NEW t \in Seq(Neutral)
    PROVE  t \in Texts /\ \A j \in 1..Len(t) : t[j] # Amp /\ t[j] # Equal
<1>1. \A j \in 1..Len(t) : t[j] \in Neutral
    <2>. HIDE DEF Neutral
    <2>. QED OBVIOUS
<1>2. \A j \in 1..Len(t) : t[j] \in Char /\ t[j] # Amp /\ t[j] # Equal
    BY <1>1 DEF Neutral
<1>3. Len(t) \in Nat /\ t = [j \in 1..Len(t) |-> t[j]]
    <2>. HIDE DEF Neutral
    <2>. QED OBVIOUS
<1>4. t \in [1..Len(t) -> Char]
    BY <1>2, <1>3
<1>. QED BY <1>2, <1>3, <1>4, IsASeq DEF Texts

\* What is encoded is made of such characters,
LEMMA EncodeType ==
    ASSUME NEW s \in Texts
    PROVE  Encode(s) \in Seq(Neutral)
<1>. HIDE DEF Neutral, Char
<1>. QED BY CodesType, FlattenType

\* Decoding a code after k others.
LEMMA DecodeCode ==
    ASSUME NEW s \in Texts, NEW k \in 0..(Len(s) - 1), NEW a \in Nat, NEW t \in Texts,
           t = Encode(s), a = Len(Upto(Codes(s), k)), Decodings(t)[a].skip <= a
    PROVE  LET b == Len(Upto(Codes(s), k + 1))
           IN  /\ Decodings(t)[b].out = Append(Decodings(t)[a].out, s[k + 1])
               /\ Decodings(t)[b].skip <= b
<1> DEFINE g == Codes(s)
           b == Len(Upto(g, k + 1))
           ch == s[k + 1]
           p == g[k + 1]
<1>0. Len(s) \in Nat /\ k + 1 \in 1..Len(s)
    BY DEF Texts
<1>1. g \in Seq(Seq(Neutral)) /\ Len(g) = Len(s) /\ p = Code(ch) /\ t = FlattenSeq(g)
    BY <1>0, CodesType
<1>2. ch \in Char
    <2>. HIDE DEF Char
    <2>. QED BY <1>0 DEF Texts
<1>. HIDE DEF g
<1>3. /\ b = a + Len(p) /\ b <= Len(t) /\ Len(p) \in Nat
      /\ \A j \in 1..Len(p) : t[a + j] = p[j]
    <2>1. k \in 0..(Len(g) - 1)
        BY <1>1
    <2>2. /\ Len(g[k + 1]) \in Nat
          /\ Len(Upto(g, k + 1)) = Len(Upto(g, k)) + Len(g[k + 1])
          /\ Len(Upto(g, k + 1)) <= Len(FlattenSeq(g))
          /\ \A j \in 1..Len(g[k + 1]) : FlattenSeq(g)[Len(Upto(g, k)) + j] = g[k + 1][j]
        <3>. HIDE DEF Neutral
        <3>. QED BY <1>1, <2>1, UptoPiece
    <2>. QED BY <1>1, <2>2 DEF g
<1>4. Len(t) \in Nat
    BY DEF Texts
<1>. HIDE DEF b, ch, p
<1>5. CASE Unreserved(ch)
    <2>1. Len(p) = 1 /\ p[1] = ch /\ ch # Percent /\ ch # Plus
        BY <1>1, <1>2, <1>5, CodeType
    <2>2. b = a + 1 /\ a \in 0..(Len(t) - 1) /\ t[a + 1] = ch
        BY <1>3, <1>4, <2>1
    <2>3. Decodings(t)[a + 1].out = Append(Decodings(t)[a].out, t[a + 1])
          /\ Decodings(t)[a + 1].skip <= a + 1
        BY <2>1, <2>2, DecodePlainStep
    <2>. QED BY <2>2, <2>3 DEF b, g, ch
<1>6. CASE ~Unreserved(ch)
    <2> DEFINE x == HexChar(ch \div 16)
               y == HexChar(ch % 16)
    <2>1. Len(p) = 3 /\ p[1] = Percent /\ p[2] = x /\ p[3] = y
        BY <1>1, <1>2, <1>6, CodeType
    <2>2. Strtol(x, y) = ch
        BY <1>2, CodeIs
    <2>. HIDE DEF x, y
    <2>3. b = a + 3 /\ a \in 0..(Len(t) - 3) /\ t[a + 1] = Percent /\ t[a + 2] = x /\ t[a + 3] = y
        BY <1>3, <1>4, <2>1
    <2>4. Decodings(t)[a + 3].out = Append(Decodings(t)[a].out, Strtol(t[a + 2], t[a + 3]))
          /\ Decodings(t)[a + 3].skip <= a + 3
        BY <2>3, DecodeCodeStep
    <2>. QED BY <2>2, <2>3, <2>4 DEF b, g, ch
<1>. QED BY <1>5, <1>6

\* Decoding undoes encoding.
LEMMA DecodeEncode ==
    ASSUME NEW s \in Texts
    PROVE  Decode(Encode(s)) = s
<1> DEFINE g == Codes(s)
           t == Encode(s)
           l(k) == Len(Upto(g, k))
<1>1. Len(s) \in Nat
    BY DEF Texts
<1>2. g \in Seq(Seq(Neutral)) /\ Len(g) = Len(s) /\ t = FlattenSeq(g)
    BY CodesType
<1>3. t \in Texts
    BY EncodeType, NeutralTexts
<1>. HIDE DEF g, t
<1>4. /\ Upto(g, 0) = <<>> /\ t = Upto(g, Len(s))
      /\ \A k \in 0..Len(s) : Upto(g, k) \in Seq(Neutral)
    <2>. HIDE DEF Neutral
    <2>. QED BY <1>2, UptoIs
<1>5. \A k \in 0..Len(s) : l(k) \in Nat
    <2>. HIDE DEF Neutral
    <2>. QED BY <1>4
<1> DEFINE Good == {k \in Nat : k <= Len(s) =>
                      /\ Decodings(t)[l(k)].out = SubSeq(s, 1, k)
                      /\ Decodings(t)[l(k)].skip <= l(k)}
<1>6. 0 \in Good
    <2>1. l(0) = 0
        BY <1>4
    <2>2. Decodings(t)[0].out = <<>> /\ Decodings(t)[0].skip = 0
        BY <1>3, DecodingsAre DEF Nothing
    <2>3. SubSeq(s, 1, 0) = <<>> /\ 0 \in Nat /\ 0 <= 0
        OBVIOUS
    <2>. QED BY <2>1, <2>2, <2>3
<1>7. ASSUME NEW k \in Nat, k \in Good PROVE k + 1 \in Good
    <2>1. SUFFICES ASSUME k + 1 <= Len(s)
                   PROVE  /\ Decodings(t)[l(k + 1)].out = SubSeq(s, 1, k + 1)
                          /\ Decodings(t)[l(k + 1)].skip <= l(k + 1)
        OBVIOUS
    <2>2. k \in 0..(Len(s) - 1) /\ k <= Len(s) /\ k \in 0..Len(s)
        BY <1>1, <2>1
    <2>3. Decodings(t)[l(k)].out = SubSeq(s, 1, k) /\ Decodings(t)[l(k)].skip <= l(k)
        BY <1>7, <2>2
    <2> DEFINE a == l(k)
    <2>4. a \in Nat /\ a = Len(Upto(Codes(s), k)) /\ t = Encode(s) /\ Decodings(t)[a].skip <= a
        BY <1>5, <2>2, <2>3 DEF g, t
    <2>. HIDE DEF a
    <2>5. /\ Decodings(t)[Len(Upto(Codes(s), k + 1))].out = Append(Decodings(t)[a].out, s[k + 1])
          /\ Decodings(t)[Len(Upto(Codes(s), k + 1))].skip <= Len(Upto(Codes(s), k + 1))
        BY <1>3, <2>2, <2>4, DecodeCode
    <2>6. Append(SubSeq(s, 1, k), s[k + 1]) = SubSeq(s, 1, k + 1)
        BY <2>2, PieceAppend
    <2>. QED BY <2>3, <2>5, <2>6 DEF a, g
<1>8. \A k \in Nat : k \in Good
    <2>. HIDE DEF Good
    <2>. QED BY <1>6, <1>7, Induction
<1>9. Decodings(t)[Len(t)].out = SubSeq(s, 1, Len(s))
    <2>1. Decodings(t)[l(Len(s))].out = SubSeq(s, 1, Len(s))
        BY <1>1, <1>8
    <2>. QED BY <1>4, <2>1
<1>10. SubSeq(s, 1, Len(s)) = s
    BY SubSeqFull DEF Texts
<1>11. Decode(t) = s
    BY <1>3, <1>9, <1>10, DecodingsAre
<1>. QED BY <1>11 DEF t

-----------------------------------------------------------------------------
(* Query strings that are written and read again.                          *)

\* A beginning of a sequence and the element behind it.
LEMMA BeginAppend ==
    ASSUME NEW S, NEW s \in Seq(S), NEW k \in 0..(Len(s) - 1)
    PROVE  SubSeq(s, 1, k) \o <<s[k + 1]>> = SubSeq(s, 1, k + 1)
<1>1. Len(s) \in Nat /\ k \in Nat /\ k + 1 \in 1..Len(s)
    OBVIOUS
<1> DEFINE n == k + 1
           u == SubSeq(s, n, n)
           e == s[n]
<1>2. SubSeq(s, 1, k) \o u = SubSeq(s, 1, n)
    <2>1. 1 \in 1..(Len(s) + 1) /\ k \in (1 - 1)..Len(s) /\ n \in k..Len(s)
        BY <1>1
    <2>. QED BY <2>1, ConcatAdjacentSubSeq
<1>3. u \in Seq(S) /\ Len(u) = 1 /\ u[1] = e
    <2>1. n \in 1..Len(s) /\ n \in Nat
        BY <1>1
    <2>. HIDE DEF n
    <2>. QED BY <2>1
<1>. HIDE DEF u, e
<1>4. u = <<e>>
    BY <1>3
<1>. QED BY <1>2, <1>4 DEF e

\* A piece with the same length and characters as t is t.
LEMMA PieceEquals ==
    ASSUME NEW s \in Texts, NEW t \in Texts, NEW n \in Nat, n + Len(t) <= Len(s),
           \A j \in 1..Len(t) : s[n + j] = t[j]
    PROVE  SubSeq(s, n + 1, n + Len(t)) = t
<1>1. Len(t) \in Nat /\ Len(s) \in Nat
    BY DEF Texts
<1> DEFINE i == n + 1
           m == n + Len(t)
           u == SubSeq(s, i, m)
<1>2. i \in Nat /\ i >= 1 /\ m \in Int /\ m <= Len(s) /\ m - i + 1 = Len(t) /\ i <= m + 1
      /\ \A j \in 1..Len(t) : i + j - 1 = n + j
    BY <1>1
<1>. HIDE DEF i, m
<1>3. u \in Texts /\ Len(u) = (IF i <= m THEN m - i + 1 ELSE 0)
      /\ \A k \in 1..(m - i + 1) : u[k] = s[i + k - 1]
    BY <1>2, PieceType
<1>. HIDE DEF u
<1>4. Len(u) = Len(t)
    BY <1>1, <1>2, <1>3
<1>5. \A j \in 1..Len(t) : u[j] = t[j]
    BY <1>2, <1>3
<1>6. u = t
    BY <1>3, <1>4, <1>5, SeqEqual DEF Texts
<1>. QED BY <1>6 DEF u, i, m

\* What comes before the first ch behind character n.
LEMMA UntilFound ==
    ASSUME NEW s \in Texts, NEW ch, NEW n \in Nat, n <= Len(s)
    PROVE  \E c \in n..Len(s) :
              /\ Substr(s, n, Find(s, ch, n) - n) = SubSeq(s, n + 1, c)
              /\ \A k \in (n + 1)..c : s[k] # ch
              /\ c = Len(s) \/ s[c + 1] = ch
<1> DEFINE f == Find(s, ch, n)
<1>1. Len(s) \in Nat
    BY DEF Texts
<1>2. f \in Int /\ (f # Npos => f \in n..(Len(s) - 1) /\ s[f + 1] = ch)
      /\ \A i \in n..(Len(s) - 1) : s[i + 1] = ch => f # Npos /\ f <= i
    BY FindIsAt DEF At
<1>. HIDE DEF f
<1>3. ASSUME NEW c \in n..Len(s), \A i \in n..(c - 1) : s[i + 1] # ch
      PROVE  \A k \in (n + 1)..c : s[k] # ch
    <2>1. SUFFICES ASSUME NEW k \in (n + 1)..c PROVE s[k] # ch
        OBVIOUS
    <2> DEFINE i == k - 1
    <2>2. i \in n..(c - 1) /\ i + 1 = k
        BY <1>1, <2>1
    <2>. HIDE DEF i
    <2>. QED BY <1>3, <2>2
<1>4. CASE f = Npos
    <2>1. f - n \in Int /\ f - n < 0
        BY <1>4 DEF Npos
    <2> DEFINE d == f - n
    <2>. HIDE DEF d
    <2>2. Substr(s, n, d) = SubSeq(s, n + 1, Len(s))
        BY <2>1, SubstrIs DEF d
    <2>3. Len(s) \in n..Len(s) /\ \A i \in n..(Len(s) - 1) : s[i + 1] # ch
        BY <1>1, <1>2, <1>4
    <2>4. \A k \in (n + 1)..Len(s) : s[k] # ch
        BY <1>3, <2>3
    <2>. QED BY <2>2, <2>3, <2>4 DEF d, f
<1>5. CASE f # Npos
    <2>1. f \in n..(Len(s) - 1) /\ s[f + 1] = ch
        BY <1>2, <1>5
    <2>2. f - n \in Int /\ f - n >= 0 /\ n + (f - n) = f /\ n + (f - n) <= Len(s) /\ f \in n..Len(s)
        BY <1>1, <2>1
    <2> DEFINE d == f - n
    <2>3. d \in Int /\ d >= 0 /\ n + d = f /\ n + d <= Len(s)
        BY <2>2
    <2>. HIDE DEF d
    <2>4. Substr(s, n, d) = SubSeq(s, n + 1, n + d)
        BY <2>3, SubstrIs
    <2>5. Substr(s, n, d) = SubSeq(s, n + 1, f)
        BY <2>3, <2>4
    <2>6. \A i \in n..(f - 1) : s[i + 1] # ch
        <3>1. SUFFICES ASSUME NEW i \in n..(f - 1), s[i + 1] = ch PROVE FALSE
            OBVIOUS
        <3>2. i \in n..(Len(s) - 1) /\ ~(f <= i)
            BY <1>1, <2>1, <3>1
        <3>. QED BY <1>2, <3>1, <3>2
    <2>7. \A k \in (n + 1)..f : s[k] # ch
        BY <1>3, <2>2, <2>6
    <2>. QED BY <2>1, <2>2, <2>5, <2>7 DEF d, f
<1>. QED BY <1>4, <1>5

\* The fields of query strings: their names are not empty and have no ampersand.
NamedFields == {f \in Fields : f.name # <<>> /\ \A j \in 1..Len(f.name) : f.name[j] # Amp}

\* A named field by itself,
LEMMA OneNamed ==
    ASSUME NEW n \in Texts, NEW v \in Texts, n # <<>>, \A j \in 1..Len(n) : n[j] # Amp
    PROVE  <<Field(n, v)>> \in Seq(NamedFields)
<1>1. Field(n, v).name = n
    BY DEF Field
<1> DEFINE f == Field(n, v)
<1>2. f \in Fields
    BY OneField
<1>. HIDE DEF f
<1>3. f \in NamedFields
    BY <1>1, <1>2 DEF NamedFields, f
<1>. HIDE DEF NamedFields
<1>4. <<f>> \in Seq(NamedFields)
    BY <1>3
<1>. QED BY <1>4 DEF f

\* and the field of a piece without ampersands.
LEMMA PieceFieldNamed ==
    ASSUME NEW p \in Texts, \A j \in 1..Len(p) : p[j] # Amp
    PROVE  PieceField(p) \in Seq(NamedFields)
<1>0. Len(p) \in Nat
    BY DEF Texts
<1>. HIDE DEF NamedFields
<1>1. CASE \A k \in 1..Len(p) : p[k] # Equal
    <2>1. PieceField(p) = IF p = <<>> THEN <<>> ELSE <<Field(p, <<>>)>>
        BY <1>1, PieceFieldNone
    <2>2. p # <<>> => <<Field(p, <<>>)>> \in Seq(NamedFields)
        BY NoText, OneNamed
    <2>. QED BY <2>1, <2>2, EmptySeq
<1>2. CASE ~ \A k \in 1..Len(p) : p[k] # Equal
    <2> DEFINE equals == {k \in 1..Len(p) : p[k] = Equal}
    <2>1. \E e \in equals : \A k \in equals : k <= e
        <3>1. equals \subseteq Nat /\ (\A n \in equals : n <= Len(p)) /\ equals # {}
            BY <1>0, <1>2
        <3>2. Len(p) \in Int
            BY <1>0
        <3>. HIDE DEF equals
        <3>. QED BY <3>1, <3>2, GreatestElement
    <2>2. PICK e \in equals : \A k \in equals : k <= e
        BY <2>1
    <2>3. e \in 1..Len(p) /\ p[e] = Equal /\ e \in Nat
        BY <1>0
    <2>4. \A k \in (e + 1)..Len(p) : p[k] # Equal
        <3>1. SUFFICES ASSUME NEW k \in (e + 1)..Len(p), p[k] = Equal PROVE FALSE
            OBVIOUS
        <3>2. k \in 1..Len(p) /\ ~(k <= e)
            BY <1>0, <2>3, <3>1
        <3>. QED BY <2>2, <3>1, <3>2
    <2> DEFINE name == SubSeq(p, 1, e - 1)
               value == SubSeq(p, e + 1, Len(p))
    <2>5. PieceField(p) = IF name = <<>> THEN <<>> ELSE <<Field(name, Decode(value))>>
        BY <2>3, <2>4, PieceFieldAt
    <2>6. 1 \in Nat /\ 1 >= 1 /\ e - 1 \in Int /\ e - 1 <= Len(p) /\ e + 1 \in Nat /\ e + 1 >= 1
          /\ Len(p) \in Int /\ Len(p) <= Len(p)
        BY <1>0, <2>3
    <2>7. name \in Texts /\ value \in Texts
        BY <2>6, PieceType
    <2>8. \A j \in 1..Len(name) : name[j] # Amp
        <3>1. Len(name) = (IF 1 <= e - 1 THEN e - 1 - 1 + 1 ELSE 0)
              /\ \A k \in 1..(e - 1 - 1 + 1) : name[k] = p[1 + k - 1]
            BY <2>6, PieceType
        <3>. HIDE DEF name
        <3>2. \A j \in 1..Len(name) : j \in 1..(e - 1 - 1 + 1) /\ 1 + j - 1 = j /\ j \in 1..Len(p)
            BY <1>0, <2>3, <3>1
        <3>3. \A j \in 1..Len(name) : name[j] = p[j]
            BY <3>1, <3>2
        <3>. QED BY <3>2, <3>3
    <2>. HIDE DEF name, value
    <2>9. Decode(value) \in Texts
        BY <2>7, DecodeType
    <2>10. name # <<>> => <<Field(name, Decode(value))>> \in Seq(NamedFields)
        BY <2>7, <2>8, <2>9, OneNamed
    <2>. QED BY <2>5, <2>10, EmptySeq
<1>. QED BY <1>1, <1>2

\* Those that were read are such.
LEMMA QueryNamed ==
    ASSUME NEW q \in Texts
    PROVE  QueryParse(q) \in Seq(NamedFields)
<1>1. Len(q) \in Nat /\ Len(q) + 1 \in Nat
    BY DEF Texts
<1>2. ASSUME NEW i \in 1..(Len(q) + 1) PROVE PieceAt(q, i) \in Seq(NamedFields)
    <2> DEFINE n == i - 1
    <2>1. n \in Nat /\ n <= Len(q) /\ n + 1 >= 1 /\ n + 1 \in Nat
        BY <1>1
    <2>2. PieceAt(q, i) = IF i = 1 \/ q[n] = Amp THEN PieceField(Substr(q, n, Find(q, Amp, n) - n))
                          ELSE <<>>
        BY DEF PieceAt
    <2>. HIDE DEF n
    <2>3. PICK c \in n..Len(q) :
              /\ Substr(q, n, Find(q, Amp, n) - n) = SubSeq(q, n + 1, c)
              /\ \A k \in (n + 1)..c : q[k] # Amp
        BY <2>1, UntilFound
    <2> DEFINE p == SubSeq(q, n + 1, c)
    <2>4. c \in Int /\ c <= Len(q)
        BY <1>1, <2>1, <2>3
    <2>5. p \in Texts /\ Len(p) = (IF n + 1 <= c THEN c - (n + 1) + 1 ELSE 0)
          /\ \A k \in 1..(c - (n + 1) + 1) : p[k] = q[n + 1 + k - 1]
        BY <2>1, <2>4, PieceType
    <2>. HIDE DEF p
    <2>6. ASSUME NEW j \in 1..Len(p) PROVE p[j] # Amp
        <3>1. j \in 1..(c - (n + 1) + 1) /\ n + 1 + j - 1 \in (n + 1)..c
            BY <2>1, <2>4, <2>5, <2>6
        <3>. QED BY <2>3, <2>5, <3>1
    <2>7. PieceField(p) \in Seq(NamedFields)
        BY <2>5, <2>6, PieceFieldNamed
    <2>. HIDE DEF NamedFields
    <2>. QED BY <2>2, <2>3, <2>7, EmptySeq DEF p
<1> DEFINE g == Pieces(q)
           A == Seq(NamedFields)
           m == Len(q) + 1
<1>3. g \in [1..m -> A] /\ m \in Nat
    BY <1>1, <1>2 DEF Pieces
<1>. HIDE DEF g, A, m
<1>4. g \in Seq(A)
    BY <1>3, IsASeq
<1>5. FlattenSeq(g) \in Seq(NamedFields)
    <2>. HIDE DEF NamedFields
    <2>. QED BY <1>4, FlattenType DEF A
<1>. QED BY <1>5, QuerySplit DEF g

\* A field as it is written.
Written(f) == f.name \o <<Equal>> \o Encode(f.value)

\* It is read as this field.
LEMMA WrittenIs ==
    ASSUME NEW f \in NamedFields
    PROVE  /\ Written(f) \in Texts /\ Len(Written(f)) >= 1
           /\ \A j \in 1..Len(Written(f)) : Written(f)[j] # Amp
           /\ PieceField(Written(f)) = <<f>>
<1> DEFINE n == f.name
           v == f.value
           e == <<Equal>>
           c == Encode(v)
           a == n \o e
           p == a \o c
           d == Len(n) + 1
<1>1. n \in Texts /\ v \in Texts /\ n # <<>> /\ (\A j \in 1..Len(n) : n[j] # Amp)
      /\ f = Field(n, v)
    BY DEF NamedFields, Fields, Field
<1>2. c \in Texts /\ (\A j \in 1..Len(c) : c[j] # Amp /\ c[j] # Equal)
    BY <1>1, EncodeType, NeutralTexts
<1>3. Decode(c) = v
    BY <1>1, DecodeEncode
<1>4. e \in Texts /\ Len(e) = 1 /\ e[1] = Equal /\ Amp # Equal
    BY DEF Texts, Char, Equal, Amp
<1>. HIDE DEF n, v, e, c
<1>5. a \in Seq(Char) /\ Len(a) = d /\ Len(n) \in Nat
      /\ \A j \in 1..d : a[j] = IF j <= Len(n) THEN n[j] ELSE e[j - Len(n)]
    <2>1. n \in Seq(Char) /\ e \in Seq(Char) /\ Len(n) \in Nat
        BY <1>1, <1>4 DEF Texts
    <2>2. a \in Seq(Char) /\ Len(a) = Len(n) + Len(e)
          /\ \A j \in 1..(Len(n) + Len(e)) : a[j] = IF j <= Len(n) THEN n[j] ELSE e[j - Len(n)]
        <3>. HIDE DEF Char
        <3>. QED BY <2>1, ConcatProperties
    <2>. HIDE DEF a
    <2>. QED BY <1>4, <2>1, <2>2
<1>. HIDE DEF a, d
<1>6. d = Len(n) + 1
    BY DEF d
<1>7. p \in Seq(Char) /\ Len(p) = d + Len(c) /\ Len(c) \in Nat
      /\ \A j \in 1..(d + Len(c)) : p[j] = IF j <= d THEN a[j] ELSE c[j - d]
    <2>1. c \in Seq(Char) /\ Len(c) \in Nat
        BY <1>2 DEF Texts
    <2>2. p \in Seq(Char) /\ Len(p) = Len(a) + Len(c)
          /\ \A j \in 1..(Len(a) + Len(c)) : p[j] = IF j <= Len(a) THEN a[j] ELSE c[j - Len(a)]
        <3>. HIDE DEF Char
        <3>. QED BY <1>5, <2>1, ConcatProperties
    <2>. HIDE DEF p
    <2>. QED BY <1>5, <2>1, <2>2
<1>. HIDE DEF p
<1>8. p \in Texts
    BY <1>7 DEF Texts
<1>9. /\ d \in Nat /\ d \in 1..Len(p) /\ Len(p) \in Nat
      /\ \A j \in 1..Len(n) : p[j] = n[j]
      /\ p[d] = Equal
      /\ \A j \in 1..Len(c) : p[d + j] = c[j]
    <2>1. d \in Nat /\ d \in 1..Len(p) /\ Len(p) \in Nat
        BY <1>5, <1>6, <1>7
    <2>2. ASSUME NEW j \in 1..Len(n) PROVE p[j] = n[j]
        <3>1. j \in 1..(d + Len(c)) /\ j <= d /\ j \in 1..d /\ j <= Len(n)
            BY <1>5, <1>6, <1>7
        <3>. QED BY <1>5, <1>7, <3>1
    <2>3. p[d] = Equal
        <3>1. d \in 1..(d + Len(c)) /\ d <= d /\ d \in 1..d /\ ~(d <= Len(n)) /\ d - Len(n) = 1
            BY <1>5, <1>6, <1>7
        <3>2. a[d] = e[1]
            BY <1>5, <3>1
        <3>. QED BY <1>4, <1>7, <3>1, <3>2
    <2>4. ASSUME NEW j \in 1..Len(c) PROVE p[d + j] = c[j]
        <3> DEFINE k == d + j
        <3>1. k \in 1..(d + Len(c)) /\ ~(k <= d) /\ k - d = j
            BY <1>7, <2>1
        <3>. HIDE DEF k
        <3>2. p[k] = c[j]
            BY <1>7, <3>1
        <3>. QED BY <3>2 DEF k
    <2>. QED BY <2>1, <2>2, <2>3, <2>4
<1>10. \A j \in 1..Len(p) : j \in 1..Len(n) \/ j = d \/ (j - d \in 1..Len(c) /\ d + (j - d) = j)
    BY <1>5, <1>6, <1>7
<1>11. ASSUME NEW j \in 1..Len(p) PROVE p[j] # Amp
    <2>1. CASE j \in 1..Len(n)
        BY <1>1, <1>9, <2>1
    <2>2. CASE j = d
        BY <1>4, <1>9, <2>2
    <2>3. CASE j - d \in 1..Len(c) /\ d + (j - d) = j
        <3> DEFINE k == j - d
        <3>1. k \in 1..Len(c) /\ d + k = j
            BY <2>3
        <3>. HIDE DEF k
        <3>. QED BY <1>2, <1>9, <3>1
    <2>. QED BY <1>10, <2>1, <2>2, <2>3
<1>12. \A k \in (d + 1)..Len(p) : p[k] # Equal
    <2>1. SUFFICES ASSUME NEW k \in (d + 1)..Len(p) PROVE p[k] # Equal
        OBVIOUS
    <2> DEFINE j == k - d
    <2>2. j \in 1..Len(c) /\ d + j = k
        BY <1>7, <1>9, <2>1
    <2>. HIDE DEF j
    <2>. QED BY <1>2, <1>9, <2>2
<1>13. PieceField(p) =
               IF SubSeq(p, 1, d - 1) = <<>> THEN <<>>
               ELSE <<Field(SubSeq(p, 1, d - 1), Decode(SubSeq(p, d + 1, Len(p))))>>
    BY <1>8, <1>9, <1>12, PieceFieldAt
<1>14. SubSeq(p, 1, d - 1) = n
    <2>1. 0 \in Nat /\ 0 + Len(n) <= Len(p) /\ 0 + 1 = 1 /\ 0 + Len(n) = d - 1
          /\ \A j \in 1..Len(n) : 0 + j = j
        BY <1>5, <1>6, <1>7
    <2>2. \A j \in 1..Len(n) : p[0 + j] = n[j]
        BY <1>9, <2>1
    <2>3. SubSeq(p, 0 + 1, 0 + Len(n)) = n
        BY <1>1, <1>8, <2>1, <2>2, PieceEquals
    <2>. QED BY <2>1, <2>3
<1>15. SubSeq(p, d + 1, Len(p)) = c
    <2>1. d + Len(c) <= Len(p) /\ d + Len(c) = Len(p)
        BY <1>7, <1>9
    <2>2. SubSeq(p, d + 1, d + Len(c)) = c
        BY <1>2, <1>8, <1>9, <2>1, PieceEquals
    <2>. QED BY <2>1, <2>2
<1>16. PieceField(p) = <<f>>
    BY <1>1, <1>3, <1>13, <1>14, <1>15
<1>17. Len(p) >= 1
    BY <1>9
<1>18. Written(f) = p
    BY DEF Written, p, a, c, e, n, v
<1>. QED BY <1>8, <1>11, <1>16, <1>17, <1>18

\* Before the second field and each after it there is an ampersand.
CreatedPart(fields, i) ==
    (IF i = 1 THEN <<>> ELSE <<Amp>>) \o fields[i].name \o <<Equal>> \o Encode(fields[i].value)

Created(fields) == [i \in 1..Len(fields) |-> CreatedPart(fields, i)]

\* They are texts, and they make up the query string that is created.
LEMMA CreatedType ==
    ASSUME NEW fields \in Seq(NamedFields)
    PROVE  /\ Created(fields) \in Seq(Seq(Char)) /\ Len(Created(fields)) = Len(fields)
           /\ QueryCreate(fields) = FlattenSeq(Created(fields))
           /\ \A i \in 1..Len(fields) :
                 Created(fields)[i] = IF i = 1 THEN Written(fields[i])
                                      ELSE <<Amp>> \o Written(fields[i])
<1>1. Len(fields) \in Nat
    OBVIOUS
<1>2. <<Amp>> \in Texts
    BY DEF Texts, Char, Amp
<1>3. ASSUME NEW i \in 1..Len(fields)
      PROVE  /\ CreatedPart(fields, i) = IF i = 1 THEN Written(fields[i])
                                         ELSE <<Amp>> \o Written(fields[i])
             /\ CreatedPart(fields, i) \in Seq(Char)
    <2> DEFINE f == fields[i]
               n == f.name
               e == <<Equal>>
               c == Encode(f.value)
               a == <<Amp>>
    <2>1. f \in NamedFields
        <3>. HIDE DEF NamedFields
        <3>. QED OBVIOUS
    <2>2. n \in Texts /\ c \in Texts
        <3>1. f.name \in Texts /\ f.value \in Texts
            BY <2>1 DEF NamedFields, Fields
        <3>. QED BY <3>1, EncodeType, NeutralTexts
    <2>3. e \in Texts
        BY ProtocolIs DEF Texts, Char, Equal
    <2>4. Written(f) = n \o e \o c /\ Written(f) \in Texts
        BY <2>1, WrittenIs DEF Written
    <2>5. CreatedPart(fields, i) = (IF i = 1 THEN <<>> ELSE a) \o n \o e \o c
        BY DEF CreatedPart
    <2>. HIDE DEF f, n, e, c, a
    <2>6. n \in Seq(Char) /\ e \in Seq(Char) /\ c \in Seq(Char) /\ a \in Seq(Char)
          /\ Written(f) \in Seq(Char)
        BY <1>2, <2>2, <2>3, <2>4 DEF Texts, a
    <2>. HIDE DEF Char
    <2>7. <<>> \o n = n
        BY <2>6, ConcatEmptySeq
    <2>8. a \o n \o e \o c = a \o (n \o e \o c)
        <3> DEFINE b == n \o e
        <3>1. b \in Seq(Char)
            BY <2>6, ConcatProperties
        <3>2. (a \o n) \o e = a \o b
            BY <2>6, ConcatAssociative
        <3>. HIDE DEF b
        <3>3. a \in Seq(Char) /\ b \in Seq(Char) /\ c \in Seq(Char)
            BY <2>6, <3>1
        <3>4. (a \o b) \o c = a \o (b \o c)
            BY <3>3, ConcatAssociative
        <3>. QED BY <3>2, <3>4 DEF b
    <2>9. a \o Written(f) \in Seq(Char)
        BY <2>6, ConcatProperties
    <2>10. CreatedPart(fields, i) = IF i = 1 THEN Written(f) ELSE a \o Written(f)
        BY <2>4, <2>5, <2>7, <2>8
    <2>11. CreatedPart(fields, i) \in Seq(Char)
        BY <2>6, <2>9, <2>10
    <2>. QED BY <2>10, <2>11 DEF f, a
<1>4. Created(fields) \in [1..Len(fields) -> Seq(Char)]
    <2>1. \A i \in 1..Len(fields) : CreatedPart(fields, i) \in Seq(Char)
        BY <1>3
    <2>. HIDE DEF Char
    <2>. QED BY <2>1 DEF Created
<1>5. \A i \in 1..Len(fields) : Created(fields)[i] = CreatedPart(fields, i)
    BY DEF Created
<1>6. QueryCreate(fields) = FlattenSeq(Created(fields))
    BY DEF QueryCreate, Created, CreatedPart
<1> DEFINE g == Created(fields)
           n == Len(fields)
           A == Seq(Char)
<1>. HIDE DEF g, n, A
<1>7. n \in Nat /\ g \in [1..n -> A]
    BY <1>1, <1>4 DEF g, n, A
<1>8. g \in Seq(A)
    BY <1>7, IsASeq
<1>9. Len(g) = n
    BY <1>7, <1>8, LenProperties
<1>. QED BY <1>3, <1>5, <1>6, <1>8, <1>9 DEF g, n, A

\* No piece begins behind characters that are no ampersands.
LEMMA NoPiecesBegin ==
    ASSUME NEW q \in Texts, NEW a \in Nat, NEW b \in Nat, a <= b, b <= Len(q),
           \A k \in (a + 1)..b : q[k] # Amp
    PROVE  Before(q, b + 1) = Before(q, a + 1)
<1>1. Len(q) \in Nat
    BY DEF Texts
<1> DEFINE x == Before(q, a + 1)
           f == [d \in 0..(b - a) |-> Before(q, a + d + 1)]
<1>2. b - a \in Nat
    OBVIOUS
<1>3. f[0] = x
    <2>1. 0 \in 0..(b - a) /\ a + 0 + 1 = a + 1
        BY <1>2
    <2>. QED BY <2>1
<1>4. ASSUME NEW d \in 1..(b - a), f[d - 1] \in {x} PROVE f[d] \in {x}
    <2> DEFINE i == a + d
    <2>1. d - 1 \in 0..(b - a) /\ d \in 0..(b - a) /\ a + (d - 1) + 1 = i /\ i \in 1..Len(q)
          /\ i \in (a + 1)..b
        BY <1>1
    <2>2. f[d - 1] = Before(q, i) /\ f[d] = Before(q, i + 1)
        BY <2>1
    <2>. HIDE DEF i, f, x
    <2>3. q[i] # Amp
        BY <2>1
    <2>4. Before(q, i + 1) = Before(q, i)
        BY <2>1, <2>3, NoPieceBegins
    <2>. QED BY <1>4, <2>2, <2>4
<1>5. \A d \in 0..(b - a) : f[d] \in {x}
    <2>. HIDE DEF f, x
    <2> DEFINE m == b - a
               A == {x}
    <2>1. m \in Nat /\ f[0] \in A /\ \A d \in 1..m : f[d - 1] \in A => f[d] \in A
        BY <1>2, <1>3, <1>4
    <2>. HIDE DEF m, A
    <2>2. \A d \in 0..m : f[d] \in A
        BY <2>1, LoopStays
    <2>. QED BY <2>2 DEF m, A
<1>6. b - a \in 0..(b - a) /\ a + (b - a) + 1 = b + 1
    BY <1>2
<1>7. f[b - a] = Before(q, b + 1)
    BY <1>6
<1>. HIDE DEF f, x
<1>8. f[b - a] = x
    BY <1>5, <1>6
<1>. QED BY <1>7, <1>8 DEF x

\* Where a field is, in the query string that is created.
BeginsAt(fields, k) == IF k = 1 THEN 0 ELSE Len(Upto(Created(fields), k - 1)) + 1

EndsAt(fields, k) == Len(Upto(Created(fields), k))

\* A field that is created is a piece between ampersands, as it was written.
LEMMA CreatedPiece ==
    ASSUME NEW fields \in Seq(NamedFields), NEW k \in 1..Len(fields), NEW q \in Texts,
           q = QueryCreate(fields), NEW n, NEW c,
           n = BeginsAt(fields, k), c = EndsAt(fields, k)
    PROVE  /\ n \in Nat /\ c \in Nat /\ n <= c /\ c <= Len(q)
           /\ n = 0 \/ q[n] = Amp
           /\ \A j \in (n + 1)..c : q[j] # Amp
           /\ SubSeq(q, n + 1, c) = Written(fields[k])
<1> DEFINE g == Created(fields)
           m == k - 1
           b == Len(Upto(g, m))
           w == Written(fields[k])
           p == g[k]
<1>. USE DEF BeginsAt, EndsAt
<1>1. g \in Seq(Seq(Char)) /\ Len(g) = Len(fields) /\ q = FlattenSeq(g)
      /\ p = IF k = 1 THEN w ELSE <<Amp>> \o w
    BY CreatedType
<1>2. w \in Texts /\ Len(w) \in Nat /\ \A j \in 1..Len(w) : w[j] # Amp
    <2>1. fields[k] \in NamedFields
        <3>. HIDE DEF NamedFields
        <3>. QED OBVIOUS
    <2>. QED BY <2>1, WrittenIs DEF Texts
<1>3. m \in 0..(Len(g) - 1) /\ m + 1 = k /\ k \in Nat
    BY <1>1
<1>. HIDE DEF g, w
<1>4. /\ b \in Nat /\ Len(p) \in Nat /\ c = b + Len(p) /\ c <= Len(q)
      /\ \A j \in 1..Len(p) : q[b + j] = p[j]
    <2>1. /\ Len(Upto(g, m)) \in Nat /\ Len(g[m + 1]) \in Nat
          /\ Len(Upto(g, m + 1)) = Len(Upto(g, m)) + Len(g[m + 1])
          /\ Len(Upto(g, m + 1)) <= Len(FlattenSeq(g))
          /\ \A j \in 1..Len(g[m + 1]) : FlattenSeq(g)[Len(Upto(g, m)) + j] = g[m + 1][j]
        <3>. HIDE DEF m, Char
        <3>. QED BY <1>1, <1>3, UptoPiece
    <2>. HIDE DEF m
    <2>. QED BY <1>1, <1>3, <2>1 DEF g
<1>5. Len(q) \in Nat
    BY DEF Texts
<1>6. ASSUME n \in Nat, n + Len(w) = c, \A j \in 1..Len(w) : q[n + j] = w[j]
      PROVE  SubSeq(q, n + 1, c) = w /\ \A j \in (n + 1)..c : q[j] # Amp
    <2>1. n + Len(w) <= Len(q)
        BY <1>4, <1>6
    <2>2. SubSeq(q, n + 1, n + Len(w)) = w
        BY <1>2, <1>6, <2>1, PieceEquals
    <2>3. ASSUME NEW j \in (n + 1)..c PROVE q[j] # Amp
        <3> DEFINE i == j - n
        <3>1. i \in 1..Len(w) /\ n + i = j
            BY <1>2, <1>6, <2>3
        <3>. HIDE DEF i
        <3>. QED BY <1>2, <1>6, <3>1
    <2>. QED BY <1>6, <2>2, <2>3
<1>7. CASE k = 1
    <2>1. m = 0 /\ b = 0 /\ n = 0 /\ p = w
        <3>1. m = 0
            BY <1>7
        <3>2. Upto(g, 0) = <<>>
            BY DEF Upto
        <3>. QED BY <1>1, <1>7, <3>1, <3>2
    <2>2. n \in Nat /\ n + Len(w) = c
        BY <1>2, <1>4, <2>1
    <2>3. \A j \in 1..Len(w) : q[n + j] = w[j]
        BY <1>4, <2>1
    <2>. QED BY <1>2, <1>4, <1>6, <2>1, <2>2, <2>3 DEF w
<1>8. CASE k # 1
    <2> DEFINE a == <<Amp>>
    <2>1. n = b + 1 /\ p = a \o w
        BY <1>1, <1>8 DEF g
    <2>2. a \in Seq(Char) /\ Len(a) = 1 /\ a[1] = Amp
        BY DEF Char, Amp
    <2>3. w \in Seq(Char)
        BY <1>2 DEF Texts
    <2>. HIDE DEF a
    <2>4. Len(p) = 1 + Len(w) /\ \A j \in 1..(1 + Len(w)) : p[j] = IF j <= 1 THEN a[j] ELSE w[j - 1]
        <3>1. Len(a \o w) = Len(a) + Len(w)
              /\ \A j \in 1..(Len(a) + Len(w)) : (a \o w)[j] = IF j <= Len(a) THEN a[j]
                                                             ELSE w[j - Len(a)]
            <4>. HIDE DEF Char
            <4>. QED BY <2>2, <2>3, ConcatProperties
        <3>. QED BY <2>1, <2>2, <3>1
    <2>. HIDE DEF b, p
    <2>5. n \in Nat /\ n + Len(w) = c /\ n <= c
        <3> DEFINE x == Len(w)
        <3>1. b \in Nat /\ c = b + Len(p) /\ Len(p) = 1 + x /\ x \in Nat /\ n = b + 1
            BY <1>2, <1>4, <2>1, <2>4
        <3>. HIDE DEF x
        <3>2. n \in Nat /\ n + x = c /\ n <= c
            BY <3>1
        <3>. QED BY <3>2 DEF x
    <2>6. q[n] = Amp
        <3>1. 1 \in 1..(1 + Len(w)) /\ 1 <= 1
            BY <1>2
        <3>2. p[1] = Amp
            BY <2>2, <2>4, <3>1
        <3>3. 1 \in 1..Len(p)
            BY <2>4, <3>1
        <3>4. q[b + 1] = p[1]
            BY <1>4, <3>3
        <3>. QED BY <2>1, <3>2, <3>4
    <2>7. ASSUME NEW j \in 1..Len(w) PROVE q[n + j] = w[j]
        <3> DEFINE i == 1 + j
        <3>0. b \in Nat /\ n = b + 1 /\ Len(w) \in Nat
            BY <1>2, <1>4, <2>1
        <3>1. i \in 1..(1 + Len(w)) /\ ~(i <= 1) /\ i - 1 = j /\ n + j = b + i
            BY <3>0
        <3>. HIDE DEF i
        <3>2. q[b + i] = p[i]
            BY <1>4, <2>4, <3>1
        <3>. QED BY <2>4, <3>1, <3>2
    <2>8. SubSeq(q, n + 1, c) = w /\ \A j \in (n + 1)..c : q[j] # Amp
        BY <1>6, <2>5, <2>7
    <2>9. c \in Nat /\ c <= Len(q)
        <3>1. b \in Nat /\ c = b + Len(p) /\ Len(p) \in Nat
            BY <1>4
        <3>. QED BY <1>4, <3>1
    <2>. QED BY <2>5, <2>6, <2>8, <2>9 DEF w
<1>. QED BY <1>7, <1>8

\* Up to its end, the fields are found that were written.
LEMMA CreatedStep ==
    ASSUME NEW fields \in Seq(NamedFields), NEW k \in 1..Len(fields), NEW q \in Texts,
           q = QueryCreate(fields), NEW n, NEW c,
           n = BeginsAt(fields, k), c = EndsAt(fields, k)
    PROVE  Before(q, c + 1) = Before(q, n) \o <<fields[k]>>
<1>1. /\ n \in Nat /\ c \in Nat /\ n <= c /\ c <= Len(q)
      /\ n = 0 \/ q[n] = Amp
      /\ \A j \in (n + 1)..c : q[j] # Amp
      /\ SubSeq(q, n + 1, c) = Written(fields[k])
    BY CreatedPiece
<1>2. Len(q) \in Nat
    BY DEF Texts
<1>3. c = Len(q) \/ q[c + 1] = Amp
    <2>1. CASE k = Len(fields)
        <3>1. Created(fields) \in Seq(Seq(Char)) /\ Len(Created(fields)) = k
              /\ q = FlattenSeq(Created(fields))
            BY <2>1, CreatedType
        <3>2. FlattenSeq(Created(fields)) = Upto(Created(fields), Len(Created(fields)))
            BY <3>1, UptoIs
        <3>. QED BY <3>1, <3>2 DEF EndsAt
    <2>2. CASE k # Len(fields)
        <3> DEFINE l == k + 1
                   m == BeginsAt(fields, l)
        <3>1. l \in 1..Len(fields) /\ l # 1 /\ l - 1 = k
            BY <2>2
        <3>2. m = c + 1
            BY <3>1 DEF BeginsAt, EndsAt
        <3>3. m # 0
            BY <1>1, <3>2
        <3>. HIDE DEF l
        <3>4. m = 0 \/ q[m] = Amp
            BY <3>1, CreatedPiece
        <3>. QED BY <3>2, <3>3, <3>4
    <2>. QED BY <2>1, <2>2
<1>4. PieceAt(q, n + 1) = PieceField(SubSeq(q, n + 1, c))
    BY <1>1, <1>3, PieceAtIs
<1>5. PieceField(Written(fields[k])) = <<fields[k]>>
    <2>1. fields[k] \in NamedFields
        <3>. HIDE DEF NamedFields
        <3>. QED OBVIOUS
    <2>. QED BY <2>1, WrittenIs
<1>6. n \in 0..Len(q) /\ n + 1 \in 1..(Len(q) + 1)
    BY <1>1, <1>2
<1>7. Pieces(q)[n + 1] = <<fields[k]>>
    BY <1>1, <1>4, <1>5, <1>6, PiecesType
<1>8. Before(q, n + 1) = Before(q, n) \o <<fields[k]>>
    BY <1>6, <1>7, BeforeIs
<1>9. Before(q, c + 1) = Before(q, n + 1)
    BY <1>1, NoPiecesBegin
<1>. QED BY <1>8, <1>9

\* A query string that is created is a text,
LEMMA CreatedText ==
    ASSUME NEW fields \in Seq(NamedFields)
    PROVE  QueryCreate(fields) \in Texts
<1>1. Created(fields) \in Seq(Seq(Char)) /\ QueryCreate(fields) = FlattenSeq(Created(fields))
    BY CreatedType
<1>2. FlattenSeq(Created(fields)) \in Seq(Char)
    <2>. HIDE DEF Char
    <2>. QED BY <1>1, FlattenType
<1>. QED BY <1>1, <1>2 DEF Texts

\* of which the fields are read that were written.
LEMMA CreatedRead ==
    ASSUME NEW fields \in Seq(NamedFields)
    PROVE  QueryParse(QueryCreate(fields)) = fields
<1> DEFINE q == QueryCreate(fields)
           N == Len(fields)
           c(k) == EndsAt(fields, k)
<1>1. q \in Texts /\ N \in Nat /\ q = FlattenSeq(Created(fields))
      /\ Created(fields) \in Seq(Seq(Char)) /\ Len(Created(fields)) = N
    BY CreatedText, CreatedType
<1>2. QueryParse(q) = Before(q, Len(q) + 1)
    BY <1>1, QuerySplit, BeforeIs
<1>3. Len(q) = c(N)
    <2>1. FlattenSeq(Created(fields)) = Upto(Created(fields), Len(Created(fields)))
        BY <1>1, UptoIs
    <2>. QED BY <1>1, <2>1 DEF EndsAt
<1>4. Before(q, 0) = <<>>
    BY <1>1, BeforeIs
<1>. HIDE DEF q
<1>5. ASSUME NEW k \in 1..N PROVE Before(q, c(k) + 1)
              = Before(q, IF k = 1 THEN 0 ELSE c(k - 1) + 1) \o <<fields[k]>>
    <2> DEFINE n == BeginsAt(fields, k)
               d == EndsAt(fields, k)
    <2>1. Before(q, d + 1) = Before(q, n) \o <<fields[k]>>
        BY <1>1, CreatedStep DEF q
    <2>. QED BY <2>1 DEF BeginsAt, EndsAt
<1> DEFINE Good == {k \in Nat : k + 1 <= N => Before(q, c(k + 1) + 1) = SubSeq(fields, 1, k + 1)}
<1>6. 0 \in Good
    <2>1. SUFFICES ASSUME 1 <= N PROVE Before(q, c(1) + 1) = SubSeq(fields, 1, 1)
        OBVIOUS
    <2>2. Before(q, c(1) + 1) = <<>> \o <<fields[1]>>
        <3>1. 1 \in 1..N
            BY <1>1, <2>1
        <3>. HIDE DEF c, N
        <3>2. Before(q, c(1) + 1) = Before(q, 0) \o <<fields[1]>>
            BY <1>5, <3>1
        <3>. QED BY <1>4, <3>2
    <2>3. SubSeq(fields, 1, 0) \o <<fields[0 + 1]>> = SubSeq(fields, 1, 0 + 1)
        <3>1. 0 \in 0..(Len(fields) - 1)
            BY <1>1, <2>1
        <3>. HIDE DEF NamedFields
        <3>. QED BY <3>1, BeginAppend
    <2>4. SubSeq(fields, 1, 0) = <<>>
        <3>. HIDE DEF NamedFields
        <3>. QED OBVIOUS
    <2>. QED BY <2>2, <2>3, <2>4
<1>7. ASSUME NEW k \in Nat, k \in Good PROVE k + 1 \in Good
    <2> DEFINE l == k + 1
    <2>1. SUFFICES ASSUME l + 1 <= N PROVE Before(q, c(l + 1) + 1) = SubSeq(fields, 1, l + 1)
        OBVIOUS
    <2>2. l + 1 \in 1..N /\ l + 1 # 1 /\ l + 1 - 1 = l /\ l <= N /\ l \in 0..(Len(fields) - 1)
        BY <1>1, <2>1
    <2>3. Before(q, c(l) + 1) = SubSeq(fields, 1, l)
        BY <1>7, <2>2
    <2>. HIDE DEF l, c
    <2>4. Before(q, c(l + 1) + 1) = Before(q, c(l) + 1) \o <<fields[l + 1]>>
        BY <1>5, <2>2
    <2>5. SubSeq(fields, 1, l) \o <<fields[l + 1]>> = SubSeq(fields, 1, l + 1)
        <3>. HIDE DEF NamedFields
        <3>. QED BY <2>2, BeginAppend
    <2>. QED BY <2>3, <2>4, <2>5
<1>8. \A k \in Nat : k \in Good
    <2>. HIDE DEF Good
    <2>. QED BY <1>6, <1>7, Induction
<1>9. CASE N # 0
    <2> DEFINE k == N - 1
    <2>1. k \in Nat /\ k + 1 = N /\ k + 1 <= N
        BY <1>1, <1>9
    <2>. HIDE DEF k
    <2>2. Before(q, c(N) + 1) = SubSeq(fields, 1, N)
        BY <1>8, <2>1
    <2>3. SubSeq(fields, 1, N) = fields
        <3>. HIDE DEF NamedFields
        <3>. QED OBVIOUS
    <2>. QED BY <1>2, <1>3, <2>2, <2>3 DEF q
<1>10. CASE N = 0
    <2>1. fields = <<>>
        <3>. HIDE DEF NamedFields
        <3>. QED BY <1>10, EmptySeq
    <2>2. Upto(Created(fields), 0) = <<>>
        BY DEF Upto
    <2>3. Len(q) = 0
        BY <1>3, <1>10, <2>2 DEF EndsAt
    <2>4. q = <<>>
        <3>1. q \in Seq(Char)
            BY <1>1 DEF Texts
        <3>. HIDE DEF Char
        <3>. QED BY <2>3, <3>1, EmptySeq
    <2>5. Before(q, 0 + 1) = Before(q, 0) \o Pieces(q)[0 + 1]
        BY <1>1, <2>3, BeforeIs
    <2>6. Pieces(q)[0 + 1] = <<>>
        <3>1. 0 + 1 \in 1..(Len(q) + 1)
            BY <2>3
        <3>2. Pieces(q)[0 + 1] = PieceAt(q, 0 + 1)
            BY <1>1, <3>1, PiecesType
        <3>3. PieceAt(q, 0 + 1) = PieceField(SubSeq(q, 0 + 1, 0))
            <4>1. /\ 0 \in Nat /\ 0 <= 0 /\ 0 <= Len(q) /\ 0 = Len(q)
                  /\ \A j \in (0 + 1)..0 : q[j] # Amp
                BY <2>3
            <4>. QED BY <1>1, <4>1, PieceAtIs
        <3>4. SubSeq(q, 0 + 1, 0) = <<>>
            BY <2>4
        <3>5. PieceField(<<>>) = <<>>
            BY NoText, PieceFieldNone
        <3>. QED BY <3>2, <3>3, <3>4, <3>5
    <2>. QED BY <1>2, <1>4, <2>1, <2>3, <2>5, <2>6 DEF q
<1>. QED BY <1>9, <1>10

\* QueryRoundTrip, of any text.
LEMMA QueryReadAgain ==
    ASSUME text \in Texts
    PROVE  QueryRoundTrip
<1>1. QueryParse(text) \in Seq(NamedFields)
    BY QueryNamed
<1>. QED BY <1>1, CreatedRead DEF QueryRoundTrip

-----------------------------------------------------------------------------
(* Header fields that are written and read again.                          *)

\* Parts that are empty add nothing.
LEMMA UptoSame ==
    ASSUME NEW S, NEW s \in Seq(Seq(S)), NEW a \in Nat, NEW b \in Nat, a <= b, b <= Len(s),
           \A k \in (a + 1)..b : s[k] = <<>>
    PROVE  Upto(s, b) = Upto(s, a)
<1> DEFINE Good == {d \in Nat : a + d <= b => Upto(s, a + d) = Upto(s, a)}
<1>1. 0 \in Good
    <2>1. a + 0 = a
        OBVIOUS
    <2>. QED BY <2>1
<1>2. ASSUME NEW d \in Nat, d \in Good PROVE d + 1 \in Good
    <2> DEFINE m == a + d
    <2>1. SUFFICES ASSUME a + (d + 1) <= b PROVE Upto(s, a + (d + 1)) = Upto(s, a)
        OBVIOUS
    <2>2. m \in 0..(Len(s) - 1) /\ a + (d + 1) = m + 1 /\ a + d <= b /\ m + 1 \in (a + 1)..b
          /\ m \in 0..Len(s)
        <3>1. Len(s) \in Nat
            OBVIOUS
        <3>. QED BY <2>1, <3>1
    <2>3. Upto(s, m) = Upto(s, a)
        BY <1>2, <2>2
    <2>. HIDE DEF m
    <2>4. Upto(s, m + 1) = Upto(s, m) \o s[m + 1] /\ Upto(s, m) \in Seq(S)
        BY <2>2, UptoIs
    <2>5. s[m + 1] = <<>>
        BY <2>2
    <2>6. Upto(s, m) \o <<>> = Upto(s, m)
        BY <2>4, ConcatEmptySeq
    <2>. QED BY <2>2, <2>3, <2>4, <2>5, <2>6
<1>3. \A d \in Nat : d \in Good
    <2>. HIDE DEF Good
    <2>. QED BY <1>1, <1>2, Induction
<1> DEFINE e == b - a
<1>4. e \in Nat /\ a + e = b /\ a + e <= b
    OBVIOUS
<1>. HIDE DEF e
<1>. QED BY <1>3, <1>4

\* What has no line feed.
LineTexts == {t \in Texts : \A j \in 1..Len(t) : t[j] # LF}

\* A piece without a certain character has none at any place.
LEMMA PieceWithout ==
    ASSUME NEW s \in Texts, NEW ch, NEW n \in Nat, NEW c \in Int, c <= Len(s),
           \A k \in (n + 1)..c : s[k] # ch
    PROVE  /\ SubSeq(s, n + 1, c) \in Texts
           /\ \A j \in 1..Len(SubSeq(s, n + 1, c)) : SubSeq(s, n + 1, c)[j] # ch
<1> DEFINE p == SubSeq(s, n + 1, c)
<1>1. n + 1 \in Nat /\ n + 1 >= 1
    OBVIOUS
<1>2. p \in Texts /\ Len(p) = (IF n + 1 <= c THEN c - (n + 1) + 1 ELSE 0)
      /\ \A k \in 1..(c - (n + 1) + 1) : p[k] = s[n + 1 + k - 1]
    BY <1>1, PieceType
<1>. HIDE DEF p
<1>3. ASSUME NEW j \in 1..Len(p) PROVE p[j] # ch
    <2>1. j \in 1..(c - (n + 1) + 1) /\ n + 1 + j - 1 \in (n + 1)..c
        BY <1>2
    <2>. QED BY <1>2, <2>1
<1>. QED BY <1>2, <1>3 DEF p

\* The line that begins with character i, if one does.
LineAt(s, i) ==
    IF i = 1 \/ s[i - 1] = LF
    THEN <<Substr(s, i - 1, Find(s, LF, i - 1) - (i - 1))>>
    ELSE <<>>

LineParts(s) == [i \in 1..Len(s) |-> LineAt(s, i)]

\* Lines have no line feeds.
LEMMA LinePartsType ==
    ASSUME NEW s \in Texts
    PROVE  /\ LineParts(s) \in Seq(Seq(LineTexts)) /\ Len(LineParts(s)) = Len(s)
           /\ Lines(s) = FlattenSeq(LineParts(s))
           /\ \A i \in 1..Len(s) : LineParts(s)[i] = LineAt(s, i)
<1>1. Len(s) \in Nat
    BY DEF Texts
<1>2. ASSUME NEW i \in 1..Len(s) PROVE LineAt(s, i) \in Seq(LineTexts)
    <2> DEFINE n == i - 1
    <2>1. n \in Nat /\ n <= Len(s)
        BY <1>1
    <2>2. LineAt(s, i) = IF i = 1 \/ s[n] = LF THEN <<Substr(s, n, Find(s, LF, n) - n)>> ELSE <<>>
        BY DEF LineAt
    <2>. HIDE DEF n
    <2>3. PICK c \in n..Len(s) :
              /\ Substr(s, n, Find(s, LF, n) - n) = SubSeq(s, n + 1, c)
              /\ \A k \in (n + 1)..c : s[k] # LF
        BY <2>1, UntilFound
    <2>4. c \in Int /\ c <= Len(s)
        BY <1>1, <2>1
    <2> DEFINE p == SubSeq(s, n + 1, c)
    <2>5. p \in Texts /\ \A j \in 1..Len(p) : p[j] # LF
        BY <2>1, <2>3, <2>4, PieceWithout
    <2>. HIDE DEF p
    <2>6. p \in LineTexts
        BY <2>5 DEF LineTexts
    <2>. HIDE DEF LineTexts
    <2>7. <<p>> \in Seq(LineTexts) /\ <<>> \in Seq(LineTexts)
        BY <2>6
    <2>. QED BY <2>2, <2>3, <2>7 DEF p
<1>3. LineParts(s) \in [1..Len(s) -> Seq(LineTexts)]
    BY <1>2 DEF LineParts
<1>4. \A i \in 1..Len(s) : LineParts(s)[i] = LineAt(s, i)
    BY DEF LineParts
<1>5. Lines(s) = FlattenSeq(LineParts(s))
    BY DEF Lines, LineParts, LineAt
<1> DEFINE g == LineParts(s)
           n == Len(s)
           A == Seq(LineTexts)
<1>. HIDE DEF g, n, A
<1>6. n \in Nat /\ g \in [1..n -> A]
    BY <1>1, <1>3 DEF g, n, A
<1>7. g \in Seq(A)
    BY <1>6, IsASeq
<1>8. Len(g) = n
    BY <1>6, <1>7, LenProperties
<1>. QED BY <1>4, <1>5, <1>7, <1>8 DEF g, n, A

\* The lines that begin with the first n characters.
LinesUpto(s, n) == Upto(LineParts(s), n)

\* A line is found where it is, and nothing else before the next.
LEMMA LineStep ==
    ASSUME NEW t \in Texts, NEW n \in Nat, NEW w \in LineTexts, n + Len(w) + 1 <= Len(t),
           \A j \in 1..Len(w) : t[n + j] = w[j], t[n + Len(w) + 1] = LF, n = 0 \/ t[n] = LF
    PROVE  LinesUpto(t, n + Len(w) + 1) = LinesUpto(t, n) \o <<w>>
<1>1. Len(t) \in Nat /\ Len(w) \in Nat /\ w \in Texts /\ \A j \in 1..Len(w) : w[j] # LF
    BY DEF LineTexts, Texts
<1> DEFINE c == n + Len(w)
           g == LineParts(t)
<1>2. c \in Nat /\ n <= c /\ c + 1 <= Len(t) /\ c \in n..(Len(t) - 1) /\ n <= Len(t)
      /\ n \in 0..(Len(t) - 1) /\ n + 1 \in 1..Len(t) /\ n + 1 - 1 = n /\ (n + 1 = 1 <=> n = 0)
    BY <1>1
<1>3. t[c + 1] = LF
    OBVIOUS
<1>4. SubSeq(t, n + 1, c) = w
    BY <1>1, <1>2, PieceEquals
<1>5. \A k \in (n + 1)..c : t[k] # LF
    <2>1. SUFFICES ASSUME NEW k \in (n + 1)..c PROVE t[k] # LF
        OBVIOUS
    <2> DEFINE j == k - n
    <2>2. j \in 1..Len(w) /\ n + j = k
        BY <1>1, <2>1
    <2>. HIDE DEF j
    <2>. QED BY <1>1, <2>2
<1>. HIDE DEF c
<1>6. Find(t, LF, n) = c
    <2>1. At(t, c) = LF
        BY <1>3 DEF At
    <2>2. \A i \in n..(c - 1) : At(t, i) # LF
        <3>1. \A i \in n..(c - 1) : i + 1 \in (n + 1)..c
            BY <1>2
        <3>. QED BY <1>5, <3>1 DEF At
    <2>. QED BY <1>2, <2>1, <2>2, FindIs
<1>7. LineAt(t, n + 1) = <<w>>
    <2>1. LineAt(t, n + 1) = <<Substr(t, n, Find(t, LF, n) - n)>>
        BY <1>2 DEF LineAt
    <2>2. c - n \in Int /\ c - n >= 0 /\ n + (c - n) = c /\ n + (c - n) <= Len(t)
        BY <1>1, <1>2
    <2>3. Substr(t, n, c - n) = SubSeq(t, n + 1, c)
        BY <1>2, <2>2, SubstrIs
    <2>. QED BY <1>4, <1>6, <2>1, <2>3
<1>8. \A k \in (n + 2)..(c + 1) : LineAt(t, k) = <<>>
    <2>1. SUFFICES ASSUME NEW k \in (n + 2)..(c + 1) PROVE LineAt(t, k) = <<>>
        OBVIOUS
    <2>2. k # 1 /\ k - 1 \in (n + 1)..c
        BY <1>2
    <2>. QED BY <1>5, <2>2 DEF LineAt
<1>9. g \in Seq(Seq(LineTexts)) /\ Len(g) = Len(t) /\ \A i \in 1..Len(t) : g[i] = LineAt(t, i)
    BY LinePartsType
<1>. HIDE DEF g
<1>10. Upto(g, n + 1) = Upto(g, n) \o <<w>>
    <2>1. Upto(g, n + 1) = Upto(g, n) \o g[n + 1]
        <3>. HIDE DEF LineTexts
        <3>. QED BY <1>2, <1>9, UptoIs
    <2>. QED BY <1>2, <1>7, <1>9, <2>1
<1>11. Upto(g, c + 1) = Upto(g, n + 1)
    <2> DEFINE a == n + 1
               b == c + 1
    <2>1. a \in Nat /\ b \in Nat /\ a <= b /\ b <= Len(g)
        BY <1>2, <1>9
    <2>2. \A k \in (a + 1)..b : g[k] = <<>>
        <3>1. \A k \in (a + 1)..b : k \in (n + 2)..(c + 1) /\ k \in 1..Len(t)
            BY <1>1, <1>2
        <3>. QED BY <1>8, <1>9, <3>1
    <2>. HIDE DEF a, b, LineTexts
    <2>3. Upto(g, b) = Upto(g, a)
        BY <1>9, <2>1, <2>2, UptoSame
    <2>. QED BY <2>3 DEF a, b
<1>. QED BY <1>10, <1>11 DEF LinesUpto, g, c

\* Lines, each with its line feed.
Terminated(ls) == [i \in 1..Len(ls) |-> ls[i] \o <<LF>>]

\* They are texts, and a line feed is their last character and no other.
LEMMA TerminatedType ==
    ASSUME NEW ls \in Seq(LineTexts)
    PROVE  /\ Terminated(ls) \in Seq(Seq(Char)) /\ Len(Terminated(ls)) = Len(ls)
           /\ FlattenSeq(Terminated(ls)) \in Texts
           /\ \A i \in 1..Len(ls) :
                 LET p == Terminated(ls)[i]  w == ls[i] IN
                 /\ w \in LineTexts /\ Len(w) \in Nat /\ Len(p) = Len(w) + 1
                 /\ p[Len(w) + 1] = LF /\ \A j \in 1..Len(w) : p[j] = w[j]
<1>1. Len(ls) \in Nat
    OBVIOUS
<1>2. ASSUME NEW w \in LineTexts
      PROVE  /\ w \o <<LF>> \in Seq(Char) /\ Len(w) \in Nat /\ Len(w \o <<LF>>) = Len(w) + 1
             /\ (w \o <<LF>>)[Len(w) + 1] = LF /\ \A j \in 1..Len(w) : (w \o <<LF>>)[j] = w[j]
    <2> DEFINE e == <<LF>>
               p == w \o e
    <2>1. e \in Seq(Char) /\ Len(e) = 1 /\ e[1] = LF
        BY DEF Char, LF
    <2>. HIDE DEF e
    <2>2. w \in Seq(Char) /\ e \in Seq(Char) /\ Len(w) \in Nat
        BY <2>1 DEF LineTexts, Texts
    <2>3. p \in Seq(Char) /\ Len(p) = Len(w) + Len(e) /\ Len(w) \in Nat
          /\ \A j \in 1..(Len(w) + Len(e)) : p[j] = IF j <= Len(w) THEN w[j] ELSE e[j - Len(w)]
        <3>. HIDE DEF Char, LineTexts
        <3>. QED BY <2>2, ConcatProperties
    <2>. HIDE DEF p
    <2>4. Len(p) = Len(w) + 1
        BY <2>1, <2>3
    <2>5. p[Len(w) + 1] = LF
        <3>1. Len(w) + 1 \in 1..(Len(w) + Len(e)) /\ ~(Len(w) + 1 <= Len(w))
              /\ Len(w) + 1 - Len(w) = 1
            BY <2>1, <2>3
        <3>. QED BY <2>1, <2>3, <3>1
    <2>6. \A j \in 1..Len(w) : p[j] = w[j]
        <3>1. \A j \in 1..Len(w) : j \in 1..(Len(w) + Len(e)) /\ j <= Len(w)
            BY <2>1, <2>3
        <3>. QED BY <2>3, <3>1
    <2>. QED BY <2>3, <2>4, <2>5, <2>6 DEF p, e
<1> DEFINE g == Terminated(ls)
           n == Len(ls)
           A == Seq(Char)
<1>3. ASSUME NEW i \in 1..n PROVE ls[i] \in LineTexts
    <2>. HIDE DEF LineTexts
    <2>. QED OBVIOUS
<1>4. g \in [1..n -> A] /\ \A i \in 1..n : g[i] = ls[i] \o <<LF>>
    BY <1>2, <1>3 DEF Terminated
<1>. HIDE DEF g, n, A
<1>5. n \in Nat /\ g \in [1..n -> A]
    BY <1>1, <1>4 DEF n
<1>6. g \in Seq(A)
    BY <1>5, IsASeq
<1>7. Len(g) = n
    BY <1>5, <1>6, LenProperties
<1>8. FlattenSeq(g) \in Texts
    <2>. HIDE DEF Char
    <2>. QED BY <1>6, FlattenType DEF A, Texts
<1>9. ASSUME NEW i \in 1..n
      PROVE  LET p == g[i]  w == ls[i] IN
             /\ w \in LineTexts /\ Len(w) \in Nat /\ Len(p) = Len(w) + 1
             /\ p[Len(w) + 1] = LF /\ \A j \in 1..Len(w) : p[j] = w[j]
    BY <1>2, <1>3, <1>4
<1>. QED BY <1>6, <1>7, <1>8, <1>9 DEF g, n, A

\* They are the lines of the text that they make up.
LEMMA LinesJoined ==
    ASSUME NEW ls \in Seq(LineTexts)
    PROVE  Lines(FlattenSeq(Terminated(ls))) = ls
<1> DEFINE g == Terminated(ls)
           t == FlattenSeq(g)
           N == Len(ls)
           c(k) == Len(Upto(g, k))
<1>1. /\ g \in Seq(Seq(Char)) /\ Len(g) = N /\ t \in Texts /\ N \in Nat
      /\ \A i \in 1..N :
            LET p == g[i]  w == ls[i] IN
            /\ w \in LineTexts /\ Len(w) \in Nat /\ Len(p) = Len(w) + 1
            /\ p[Len(w) + 1] = LF /\ \A j \in 1..Len(w) : p[j] = w[j]
    BY TerminatedType
<1>2. t = Upto(g, N) /\ Upto(g, 0) = <<>>
    <2>. HIDE DEF g, Char
    <2>. QED BY <1>1, UptoIs
<1>3. Len(t) \in Nat /\ Len(t) = c(N) /\ c(0) = 0
    BY <1>1, <1>2 DEF Texts
<1> DEFINE m == LineParts(t)
<1>4. m \in Seq(Seq(LineTexts)) /\ Len(m) = Len(t) /\ Lines(t) = FlattenSeq(m)
    BY <1>1, LinePartsType
<1>5. Lines(t) = LinesUpto(t, Len(t)) /\ LinesUpto(t, 0) = <<>>
    <2>1. FlattenSeq(m) = Upto(m, Len(m)) /\ Upto(m, 0) = <<>>
        <3>. HIDE DEF m, LineTexts
        <3>. QED BY <1>4, UptoIs
    <2>. QED BY <1>4, <2>1 DEF LinesUpto
<1>. HIDE DEF g, t, m
<1>6. ASSUME NEW k \in 0..(N - 1), c(k) = 0 \/ t[c(k)] = LF
      PROVE  /\ LinesUpto(t, c(k + 1)) = LinesUpto(t, c(k)) \o <<ls[k + 1]>>
             /\ t[c(k + 1)] = LF
    <2> DEFINE i == k + 1
               n == Len(Upto(g, k))
               p == g[i]
               w == ls[i]
    <2>1. /\ n \in Nat /\ Len(p) \in Nat
          /\ Len(Upto(g, i)) = n + Len(p)
          /\ Len(Upto(g, i)) <= Len(t)
          /\ \A j \in 1..Len(p) : t[n + j] = p[j]
        <3>1. k \in 0..(Len(g) - 1) /\ g \in Seq(Seq(Char)) /\ t = FlattenSeq(g)
            BY <1>1 DEF t
        <3>. HIDE DEF Char, LineTexts, N
        <3>. QED BY <3>1, UptoPiece
    <2>2. i \in 1..N
        BY <1>1
    <2>. HIDE DEF i
    <2>3. w \in LineTexts /\ Len(w) \in Nat /\ Len(p) = Len(w) + 1
          /\ p[Len(w) + 1] = LF /\ \A j \in 1..Len(w) : p[j] = w[j]
        BY <1>1, <2>2
    <2>4. n = 0 \/ t[n] = LF
        BY <1>6
    <2>. HIDE DEF n, w, p
    <2>5. n + Len(w) + 1 <= Len(t) /\ Len(Upto(g, i)) = n + Len(w) + 1
        <3> DEFINE x == Len(w)
                   y == Len(p)
                   z == Len(Upto(g, i))
        <3>1. n \in Nat /\ x \in Nat /\ y = x + 1 /\ z = n + y /\ z <= Len(t)
            BY <2>1, <2>3
        <3>. HIDE DEF x, y, z
        <3>2. n + x + 1 <= Len(t) /\ z = n + x + 1
            BY <1>3, <3>1
        <3>. QED BY <3>2 DEF x, y, z
    <2>6. \A j \in 1..Len(w) : t[n + j] = w[j]
        <3>1. \A j \in 1..Len(w) : j \in 1..Len(p)
            BY <2>3
        <3>. QED BY <2>1, <2>3, <3>1
    <2>7. t[n + Len(w) + 1] = LF
        <3> DEFINE j == Len(w) + 1
        <3>1. j \in 1..Len(p) /\ n + j = n + Len(w) + 1
            BY <2>1, <2>3
        <3>2. p[j] = LF
            BY <2>3
        <3>. HIDE DEF j
        <3>. QED BY <2>1, <3>1, <3>2
    <2>8. LinesUpto(t, n + Len(w) + 1) = LinesUpto(t, n) \o <<w>>
        BY <1>1, <2>1, <2>3, <2>4, <2>5, <2>6, <2>7, LineStep
    <2>. QED BY <2>5, <2>7, <2>8 DEF n, w, i
<1> DEFINE Good == {k \in Nat : k <= N => /\ c(k) = 0 \/ t[c(k)] = LF
                                          /\ LinesUpto(t, c(k)) = SubSeq(ls, 1, k)}
<1>7. 0 \in Good
    <2>1. SubSeq(ls, 1, 0) = <<>>
        <3>. HIDE DEF LineTexts
        <3>. QED OBVIOUS
    <2>. QED BY <1>3, <1>5, <2>1
<1>8. ASSUME NEW k \in Nat, k \in Good PROVE k + 1 \in Good
    <2>1. SUFFICES ASSUME k + 1 <= N PROVE /\ t[c(k + 1)] = LF
                                           /\ LinesUpto(t, c(k + 1)) = SubSeq(ls, 1, k + 1)
        OBVIOUS
    <2>2. k \in 0..(N - 1) /\ k <= N /\ k \in 0..(Len(ls) - 1)
        BY <1>1, <2>1
    <2>3. (c(k) = 0 \/ t[c(k)] = LF) /\ LinesUpto(t, c(k)) = SubSeq(ls, 1, k)
        BY <1>8, <2>2
    <2>. HIDE DEF c
    <2>4. LinesUpto(t, c(k + 1)) = LinesUpto(t, c(k)) \o <<ls[k + 1]>> /\ t[c(k + 1)] = LF
        BY <1>6, <2>2, <2>3
    <2>5. SubSeq(ls, 1, k) \o <<ls[k + 1]>> = SubSeq(ls, 1, k + 1)
        <3>. HIDE DEF LineTexts
        <3>. QED BY <2>2, BeginAppend
    <2>. QED BY <2>3, <2>4, <2>5
<1>9. \A k \in Nat : k \in Good
    <2>. HIDE DEF Good
    <2>. QED BY <1>7, <1>8, Induction
<1>10. LinesUpto(t, c(N)) = SubSeq(ls, 1, N)
    <2>1. N \in Good
        <3>. HIDE DEF Good
        <3>. QED BY <1>1, <1>9
    <2>2. N <= N
        BY <1>1
    <2>. HIDE DEF c
    <2>. QED BY <2>1, <2>2
<1>11. SubSeq(ls, 1, N) = ls
    <2>. HIDE DEF LineTexts
    <2>. QED OBVIOUS
<1>. QED BY <1>3, <1>5, <1>10, <1>11 DEF t, g

\* Where the characters of two texts are in both together.
LEMMA JoinAt ==
    ASSUME NEW a \in Texts, NEW b \in Texts
    PROVE  /\ a \o b \in Texts /\ Len(a \o b) = Len(a) + Len(b)
           /\ Len(a) \in Nat /\ Len(b) \in Nat
           /\ \A j \in 1..Len(a) : (a \o b)[j] = a[j]
           /\ \A j \in 1..Len(b) : (a \o b)[Len(a) + j] = b[j]
<1> DEFINE c == a \o b
<1>1. a \in Seq(Char) /\ b \in Seq(Char) /\ Len(a) \in Nat /\ Len(b) \in Nat
    BY DEF Texts
<1>2. c \in Seq(Char) /\ Len(c) = Len(a) + Len(b)
      /\ \A j \in 1..(Len(a) + Len(b)) : c[j] = IF j <= Len(a) THEN a[j] ELSE b[j - Len(a)]
    <2>. HIDE DEF Char
    <2>. QED BY <1>1, ConcatProperties
<1>. HIDE DEF c
<1>3. \A j \in 1..Len(a) : c[j] = a[j]
    <2>1. \A j \in 1..Len(a) : j \in 1..(Len(a) + Len(b)) /\ j <= Len(a)
        BY <1>1
    <2>. QED BY <1>2, <2>1
<1>4. ASSUME NEW j \in 1..Len(b) PROVE c[Len(a) + j] = b[j]
    <2> DEFINE k == Len(a) + j
    <2>1. k \in 1..(Len(a) + Len(b)) /\ ~(k <= Len(a)) /\ k - Len(a) = j
        BY <1>1
    <2>. HIDE DEF k
    <2>2. c[k] = b[j]
        BY <1>2, <2>1
    <2>. QED BY <2>2 DEF k
<1>. QED BY <1>1, <1>2, <1>3, <1>4 DEF c, Texts

\* The field of a line, of which the value begins where it should.
LEMMA HeaderFieldIs ==
    ASSUME NEW line \in Texts, NEW colon \in Nat, NEW start \in (colon + 1)..(Len(line) - 1),
           NEW e, e = (IF EndsInCR(line) THEN Len(line) - 1 ELSE Len(line)),
           Find(line, Colon, 0) = colon,
           \A j \in (colon + 1)..(start - 1) : At(line, j) = SP,
           At(line, start) # SP \/ start = Len(line) - 1
    PROVE  HeaderField(line) = <<Field(SubSeq(line, 1, colon), SubSeq(line, start + 1, e))>>
<1> DEFINE c == Find(line, Colon, 0)
           starts == {i \in (c + 1)..(Len(line) - 1) :
                         \A j \in (c + 1)..(i - 1) : At(line, j) = SP}
           s == CHOOSE i \in starts : At(line, i) # SP \/ i = Len(line) - 1
           cr == IF EndsInCR(line) THEN 1 ELSE 0
<1>1. Len(line) \in Nat /\ c = colon /\ cr \in {0, 1} /\ e = Len(line) - cr
    BY DEF Texts
<1>2. HeaderField(line) = IF c = Npos \/ c + 1 >= Len(line) THEN <<>>
          ELSE <<Field(Substr(line, 0, c), Substr(line, s, Len(line) - s - cr))>>
    BY DEF HeaderField
<1>. HIDE DEF c, cr
<1>3. c # Npos /\ ~(c + 1 >= Len(line)) /\ c \in Nat
    BY <1>1 DEF Npos
<1>4. s = start
    <2>1. start \in starts /\ (At(line, start) # SP \/ start = Len(line) - 1)
        BY <1>1
    <2>2. ASSUME NEW i \in starts, At(line, i) # SP \/ i = Len(line) - 1 PROVE i = start
        <3>1. i \in (colon + 1)..(Len(line) - 1) /\ \A j \in (colon + 1)..(i - 1) : At(line, j) = SP
            BY <1>1
        <3>2. ~(i < start)
            <4>1. SUFFICES ASSUME i < start PROVE FALSE
                OBVIOUS
            <4>2. i \in (colon + 1)..(start - 1) /\ i # Len(line) - 1
                BY <1>1, <3>1, <4>1
            <4>3. At(line, i) = SP
                BY <4>2
            <4>. QED BY <2>2, <4>2, <4>3
        <3>3. ~(start < i)
            <4>1. SUFFICES ASSUME start < i PROVE FALSE
                OBVIOUS
            <4>2. start \in (colon + 1)..(i - 1) /\ start # Len(line) - 1
                BY <1>1, <3>1, <4>1
            <4>3. At(line, start) = SP
                BY <3>1, <4>2
            <4>. QED BY <4>2, <4>3
        <3>. QED BY <1>1, <3>1, <3>2, <3>3
    <2>. HIDE DEF starts
    <2>. QED BY <2>1, <2>2
<1>. HIDE DEF s
<1>5. Substr(line, 0, c) = SubSeq(line, 1, colon)
    <2>1. 0 \in Nat /\ 0 <= Len(line) /\ c \in Int /\ c >= 0 /\ 0 + c <= Len(line)
          /\ 0 + 1 = 1 /\ 0 + c = colon
        BY <1>1, <1>3
    <2>2. Substr(line, 0, c) = SubSeq(line, 0 + 1, 0 + c)
        BY <2>1, SubstrIs
    <2>. QED BY <2>1, <2>2
<1>6. Substr(line, s, Len(line) - s - cr) = SubSeq(line, start + 1, e)
    <2> DEFINE n == Len(line) - start - cr
    <2>1. start \in Nat /\ start <= Len(line) /\ n \in Int /\ n >= 0 /\ start + n <= Len(line)
          /\ start + n = e
        BY <1>1
    <2>. HIDE DEF n
    <2>2. Substr(line, start, n) = SubSeq(line, start + 1, start + n)
        BY <2>1, SubstrIs
    <2>. QED BY <1>4, <2>1, <2>2 DEF n
<1>. QED BY <1>2, <1>3, <1>5, <1>6

\* Fields as they are read: a name ends before a colon, and a value begins with
\* no blank, unless it is one.
HeadFields ==
    {f \in Fields :
        /\ \A j \in 1..Len(f.name) : f.name[j] # Colon /\ f.name[j] # LF
        /\ \A j \in 1..Len(f.value) : f.value[j] # LF
        /\ f.value \in {<<>>, <<SP>>} \/ f.value[1] # SP}

\* So is the field of any line.
LEMMA HeaderFieldHead ==
    ASSUME NEW line \in LineTexts
    PROVE  HeaderField(line) \in Seq(HeadFields)
<1> DEFINE colon == Find(line, Colon, 0)
           L == Len(line)
<1>1. line \in Texts /\ L \in Nat /\ \A j \in 1..L : line[j] # LF
    BY DEF LineTexts, Texts
<1>2. /\ colon \in Int
      /\ colon # Npos => colon \in 0..(L - 1)
      /\ \A i \in 0..(L - 1) : At(line, i) = Colon => colon <= i
    BY <1>1, FindIsAt
<1>3. CASE colon = Npos \/ colon + 1 >= L
    BY <1>3 DEF HeaderField
<1>4. CASE colon # Npos /\ colon + 1 < L
    <2> DEFINE stops == {i \in (colon + 1)..(L - 1) : At(line, i) # SP \/ i = L - 1}
               e == IF EndsInCR(line) THEN L - 1 ELSE L
    <2>0. colon \in Nat /\ colon + 1 < L /\ colon <= L
        BY <1>1, <1>2, <1>4
    <2>1. stops \subseteq Nat /\ L - 1 \in stops
        BY <1>1, <2>0
    <2>2. PICK start \in stops : \A j \in stops : start <= j
        <3>. HIDE DEF stops
        <3>. QED BY <2>1, LeastElement
    <2>3. start \in (colon + 1)..(L - 1) /\ (At(line, start) # SP \/ start = L - 1)
          /\ start \in Nat /\ start + 1 <= L /\ start + 1 >= 1
        BY <1>1, <2>0
    <2>4. \A j \in (colon + 1)..(start - 1) : At(line, j) = SP
        <3>1. \A j \in (colon + 1)..(start - 1) : j \in (colon + 1)..(L - 1) /\ ~(start <= j)
            BY <1>1, <2>0, <2>3
        <3>. QED BY <2>2, <3>1
    <2> DEFINE n == SubSeq(line, 1, colon)
               v == SubSeq(line, start + 1, e)
    <2>5. HeaderField(line) = <<Field(n, v)>>
        BY <1>1, <2>0, <2>3, <2>4, HeaderFieldIs
    <2>6. n \in Texts /\ (\A j \in 1..Len(n) : n[j] # Colon /\ n[j] # LF)
        <3>1. 0 \in Nat /\ 0 + 1 = 1 /\ colon \in Int /\ colon <= Len(line)
            BY <2>0
        <3>2. \A k \in (0 + 1)..colon : line[k] # Colon /\ line[k] # LF
            <4>1. SUFFICES ASSUME NEW k \in 1..colon PROVE line[k] # Colon /\ line[k] # LF
                OBVIOUS
            <4>2. k \in 1..L /\ k - 1 \in 0..(L - 1) /\ ~(colon <= k - 1) /\ k - 1 + 1 = k
                BY <1>1, <2>0
            <4>3. At(line, k - 1) # Colon
                BY <1>2, <4>2
            <4>. QED BY <1>1, <4>2, <4>3 DEF At
        <3>3. SubSeq(line, 0 + 1, colon) = n
            BY <3>1
        <3>4. n \in Texts /\ \A j \in 1..Len(n) : n[j] # Colon
            BY <1>1, <3>1, <3>2, <3>3, PieceWithout
        <3>5. \A j \in 1..Len(n) : n[j] # LF
            BY <1>1, <3>1, <3>2, <3>3, PieceWithout
        <3>. QED BY <3>4, <3>5
    <2>7. e \in Int /\ e <= L /\ e >= start
        BY <1>1, <2>3
    <2>8. v \in Texts /\ \A j \in 1..Len(v) : v[j] # LF
        <3>1. \A k \in (start + 1)..e : line[k] # LF
            <4>1. \A k \in (start + 1)..e : k \in 1..L
                BY <1>1, <2>3, <2>7
            <4>. QED BY <1>1, <4>1
        <3>2. e \in Int /\ e <= Len(line)
            BY <2>7
        <3>. HIDE DEF e
        <3>. QED BY <1>1, <2>3, <3>1, <3>2, PieceWithout
    <2>9. Len(v) = e - start /\ (Len(v) >= 1 => v[1] = line[start + 1])
        <3> DEFINE i == start + 1
        <3>1. i \in Nat /\ i >= 1 /\ e \in Int /\ e <= Len(line)
            BY <2>3, <2>7
        <3>2. i <= e + 1 /\ e - i + 1 = e - start /\ i + 1 - 1 = i /\ (i <= e <=> e - start >= 1)
            BY <1>1, <2>3, <2>7
        <3>. HIDE DEF e, i
        <3>3. Len(SubSeq(line, i, e)) = (IF i <= e THEN e - i + 1 ELSE 0)
              /\ \A k \in 1..(e - i + 1) : SubSeq(line, i, e)[k] = line[i + k - 1]
            BY <1>1, <3>1, PieceType
        <3>4. Len(v) = (IF i <= e THEN e - i + 1 ELSE 0)
              /\ \A k \in 1..(e - i + 1) : v[k] = line[i + k - 1]
            BY <3>3 DEF i
        <3>. HIDE DEF v
        <3>5. Len(v) = e - start
            BY <2>3, <3>1, <3>2, <3>4
        <3>6. Len(v) >= 1 => v[1] = line[i]
            <4>1. Len(v) >= 1 => 1 \in 1..(e - i + 1)
                BY <2>3, <3>1, <3>2, <3>5
            <4>. QED BY <3>2, <3>4, <4>1
        <3>. QED BY <3>5, <3>6 DEF i
    <2>10. v \in {<<>>, <<SP>>} \/ v[1] # SP
        <3>0. v \in Seq(Char)
            BY <2>8 DEF Texts
        <3>1. CASE Len(v) = 0
            <4>. HIDE DEF v, Char
            <4>. QED BY <3>0, <3>1, EmptySeq
        <3>2. CASE Len(v) >= 1 /\ At(line, start) # SP
            BY <2>9, <3>2 DEF At
        <3>3. CASE Len(v) >= 1 /\ At(line, start) = SP
            <4>1. start = L - 1
                BY <2>3, <3>3
            <4>2. v[1] = SP /\ e - start >= 1
                BY <2>9, <3>3 DEF At
            <4>3. e = L /\ Len(v) = 1
                BY <1>1, <2>9, <4>1, <4>2
            <4>. HIDE DEF v, e
            <4>4. v = <<SP>>
                BY <3>0, <4>2, <4>3
            <4>. QED BY <4>4
        <3>4. Len(v) \in Nat
            BY <3>0
        <3>. HIDE DEF v
        <3>. QED BY <3>1, <3>2, <3>3, <3>4
    <2>. HIDE DEF n, v
    <2>11. Field(n, v) \in HeadFields
        <3>1. Field(n, v) \in Fields
            BY <2>6, <2>8, OneField
        <3>2. Field(n, v).name = n /\ Field(n, v).value = v
            BY DEF Field
        <3>. HIDE DEF Fields
        <3>. QED BY <2>6, <2>8, <2>10, <3>1, <3>2 DEF HeadFields
    <2>. HIDE DEF HeadFields
    <2>. QED BY <2>5, <2>11
<1>. QED BY <1>1, <1>2, <1>3, <1>4

\* A name and a value, with two characters between and one behind them.
Framed(n, v, a, b, d) == n \o <<a, b>> \o v \o <<d>>

\* Where their characters are.
IsFramed(w, n, v, a, b, d) ==
    /\ w \in Texts /\ Len(n) \in Nat /\ Len(v) \in Nat /\ Len(w) = Len(n) + Len(v) + 3
    /\ \A j \in 1..Len(n) : w[j] = n[j]
    /\ w[Len(n) + 1] = a /\ w[Len(n) + 2] = b
    /\ \A j \in 1..Len(v) : w[Len(n) + 2 + j] = v[j]
    /\ w[Len(w)] = d

\* They are there.
LEMMA FramedAt ==
    ASSUME NEW n \in Texts, NEW v \in Texts, NEW a \in Char, NEW b \in Char, NEW d \in Char
    PROVE  IsFramed(Framed(n, v, a, b, d), n, v, a, b, d)
<1> DEFINE c == <<a, b>>
           r == <<d>>
           x == n \o c
           y == x \o v
           w == Framed(n, v, a, b, d)
           l == Len(n)
           m == Len(v)
<1>1. c \in Texts /\ Len(c) = 2 /\ c[1] = a /\ c[2] = b
    <2>. HIDE DEF Char
    <2>. QED BY DEF Texts
<1>2. r \in Texts /\ Len(r) = 1 /\ r[1] = d
    <2>. HIDE DEF Char
    <2>. QED BY DEF Texts
<1>3. w = y \o r
    BY DEF Framed
<1>. HIDE DEF c, r, w
<1>4. /\ x \in Texts /\ Len(x) = l + 2 /\ l \in Nat
      /\ \A j \in 1..l : x[j] = n[j]
      /\ x[l + 1] = a /\ x[l + 2] = b
    <2>1. /\ x \in Texts /\ Len(x) = Len(n) + Len(c) /\ Len(n) \in Nat
          /\ \A j \in 1..Len(n) : x[j] = n[j]
          /\ \A j \in 1..Len(c) : x[Len(n) + j] = c[j]
        BY <1>1, JoinAt
    <2>. HIDE DEF x
    <2>2. 1 \in 1..Len(c) /\ 2 \in 1..Len(c)
        BY <1>1
    <2>. QED BY <1>1, <2>1, <2>2
<1>. HIDE DEF x, l
<1>5. /\ y \in Texts /\ Len(y) = l + 2 + m /\ m \in Nat
      /\ \A j \in 1..(l + 2) : y[j] = x[j]
      /\ \A j \in 1..m : y[l + 2 + j] = v[j]
    <2>1. /\ y \in Texts /\ Len(y) = Len(x) + Len(v) /\ Len(v) \in Nat
          /\ \A j \in 1..Len(x) : y[j] = x[j]
          /\ \A j \in 1..Len(v) : y[Len(x) + j] = v[j]
        BY <1>4, JoinAt
    <2>. HIDE DEF y
    <2>. QED BY <1>4, <2>1
<1>. HIDE DEF y, m
<1>6. /\ w \in Texts /\ Len(w) = l + 2 + m + 1
      /\ \A j \in 1..(l + 2 + m) : w[j] = y[j]
      /\ w[l + 2 + m + 1] = d
    <2>1. /\ w \in Texts /\ Len(w) = Len(y) + Len(r)
          /\ \A j \in 1..Len(y) : w[j] = y[j]
          /\ \A j \in 1..Len(r) : w[Len(y) + j] = r[j]
        <3>1. y \in Texts /\ r \in Texts
            BY <1>2, <1>5
        <3> DEFINE u == y \o r
        <3>2. /\ u \in Texts /\ Len(u) = Len(y) + Len(r)
              /\ \A j \in 1..Len(y) : u[j] = y[j]
              /\ \A j \in 1..Len(r) : u[Len(y) + j] = r[j]
            BY <3>1, JoinAt
        <3>3. u = w
            BY <1>3
        <3>. HIDE DEF u
        <3>. QED BY <3>2, <3>3
    <2>2. 1 \in 1..Len(r)
        BY <1>2
    <2>. QED BY <1>2, <1>5, <2>1, <2>2
<1>7. /\ Len(w) = l + m + 3 /\ l + 2 + m + 1 = l + m + 3
      /\ \A j \in 1..l : j \in 1..(l + 2) /\ j \in 1..(l + 2 + m)
      /\ l + 1 \in 1..(l + 2) /\ l + 1 \in 1..(l + 2 + m)
      /\ l + 2 \in 1..(l + 2) /\ l + 2 \in 1..(l + 2 + m)
      /\ \A j \in 1..m : l + 2 + j \in 1..(l + 2 + m)
    BY <1>4, <1>5, <1>6
<1>8. \A j \in 1..l : w[j] = n[j]
    BY <1>4, <1>5, <1>6, <1>7
<1>9. w[l + 1] = a /\ w[l + 2] = b
    BY <1>4, <1>5, <1>6, <1>7
<1>10. \A j \in 1..m : w[l + 2 + j] = v[j]
    BY <1>5, <1>6, <1>7
<1>11. w[Len(w)] = d
    BY <1>6
<1>12. IsFramed(w, n, v, a, b, d)
    BY <1>4, <1>5, <1>6, <1>7, <1>8, <1>9, <1>10, <1>11 DEF IsFramed, l, m
<1>. QED BY <1>12 DEF w

\* The line of a field, as it is written.
HeadLine(f) == Framed(f.name, f.value, Colon, SP, CR)

\* What is read of a field that was written: a blank by itself is lost.
AsRead(f) == IF f.value = <<SP>> THEN Field(f.name, <<>>) ELSE f

\* It is a line with a colon, and its field is the one written.
LEMMA HeadLineIs ==
    ASSUME NEW f \in HeadFields
    PROVE  /\ HeadLine(f) \in LineTexts
           /\ Find(HeadLine(f), Colon, 0) # Npos
           /\ HeaderField(HeadLine(f)) = <<AsRead(f)>>
<1> DEFINE n == f.name
           v == f.value
           w == HeadLine(f)
           l == Len(n)
           m == Len(v)
<1>1. /\ n \in Texts /\ v \in Texts /\ f = Field(n, v)
      /\ \A j \in 1..l : n[j] # Colon /\ n[j] # LF
      /\ \A j \in 1..m : v[j] # LF
      /\ v \in {<<>>, <<SP>>} \/ v[1] # SP
    BY DEF HeadFields, Fields, Field
<1>2. w = Framed(n, v, Colon, SP, CR)
    BY DEF HeadLine
<1>. HIDE DEF n, v, w
<1>3. /\ w \in Texts /\ l \in Nat /\ m \in Nat /\ Len(w) = l + m + 3
      /\ \A j \in 1..l : w[j] = n[j]
      /\ w[l + 1] = Colon /\ w[l + 2] = SP
      /\ \A j \in 1..m : w[l + 2 + j] = v[j]
      /\ w[Len(w)] = CR
    <2>1. n \in Texts /\ v \in Texts
        BY <1>1
    <2>0. Colon \in Char /\ SP \in Char /\ CR \in Char
        BY DEF Char, Colon, SP, CR
    <2>2. IsFramed(Framed(n, v, Colon, SP, CR), n, v, Colon, SP, CR)
        BY <2>0, <2>1, FramedAt
    <2>. QED BY <1>2, <2>2 DEF IsFramed
<1>. HIDE DEF l, m
<1>4. w \in LineTexts
    <2>1. SUFFICES ASSUME NEW j \in 1..Len(w) PROVE w[j] # LF
        BY <1>3 DEF LineTexts
    <2>2. Colon # LF /\ SP # LF /\ CR # LF
        BY DEF Colon, SP, CR, LF
    <2>3. j \in 1..l \/ j = l + 1 \/ j = l + 2 \/ j - (l + 2) \in 1..m \/ j = Len(w)
        BY <1>3
    <2>4. CASE j \in 1..l
        BY <1>1, <1>3, <2>4
    <2>5. CASE j - (l + 2) \in 1..m
        <3> DEFINE k == j - (l + 2)
        <3>1. k \in 1..m /\ l + 2 + k = j
            BY <1>3, <2>5
        <3>. HIDE DEF k
        <3>. QED BY <1>1, <1>3, <3>1
    <2>. QED BY <1>3, <2>2, <2>3, <2>4, <2>5
<1>5. Find(w, Colon, 0) = l
    <2>1. 0 \in Nat /\ l \in 0..(Len(w) - 1) /\ At(w, l) = Colon
        BY <1>3 DEF At
    <2>2. \A i \in 0..(l - 1) : At(w, i) # Colon
        <3>1. \A i \in 0..(l - 1) : i + 1 \in 1..l
            BY <1>3
        <3>. QED BY <1>1, <1>3, <3>1 DEF At
    <2>. QED BY <1>3, <2>1, <2>2, FindIs
<1>6. EndsInCR(w)
    <2>1. w # <<>> /\ Last(w) = w[Len(w)]
        BY <1>3 DEF Last
    <2>. QED BY <1>3, <2>1 DEF EndsInCR
<1>7. SubSeq(w, 1, l) = n
    <2>1. 0 \in Nat /\ 0 + Len(n) <= Len(w) /\ 0 + 1 = 1 /\ 0 + Len(n) = l
          /\ \A j \in 1..Len(n) : 0 + j = j
        BY <1>3 DEF l
    <2>2. \A j \in 1..Len(n) : w[0 + j] = n[j]
        BY <1>3, <2>1 DEF l
    <2>3. SubSeq(w, 0 + 1, 0 + Len(n)) = n
        BY <1>1, <1>3, <2>1, <2>2, PieceEquals
    <2>. QED BY <2>1, <2>3
<1> DEFINE e == Len(w) - 1
<1>8. e = (IF EndsInCR(w) THEN Len(w) - 1 ELSE Len(w)) /\ e = l + m + 2
    BY <1>3, <1>6
<1>9. ASSUME NEW start \in (l + 1)..(Len(w) - 1),
             \A j \in (l + 1)..(start - 1) : At(w, j) = SP,
             At(w, start) # SP \/ start = Len(w) - 1
      PROVE  HeaderField(w) = <<Field(n, SubSeq(w, start + 1, e))>>
    <2>. HIDE DEF e
    <2>1. HeaderField(w) = <<Field(SubSeq(w, 1, l), SubSeq(w, start + 1, e))>>
        BY <1>3, <1>5, <1>8, <1>9, HeaderFieldIs
    <2>. QED BY <1>7, <2>1
<1>10. At(w, l + 1) = SP
    <2>1. l + 1 + 1 = l + 2
        BY <1>3
    <2>. QED BY <1>3, <2>1 DEF At
<1>. HIDE DEF e
<1>11. CASE v = <<SP>>
    <2> DEFINE start == l + 3
    <2>1. m = 1 /\ v[1] = SP
        BY <1>11 DEF m
    <2>2. start \in (l + 1)..(Len(w) - 1) /\ start = Len(w) - 1
          /\ \A j \in (l + 1)..(start - 1) : j = l + 1 \/ j = l + 2
        BY <1>3, <2>1
    <2>3. At(w, l + 2) = SP
        <3>1. 1 \in 1..m /\ l + 2 + 1 = l + 3
            BY <1>3, <2>1
        <3>2. w[l + 3] = SP
            BY <1>3, <2>1, <3>1
        <3>. QED BY <3>1, <3>2 DEF At
    <2>4. start + 1 > e /\ start + 1 \in Nat /\ start + 1 >= 1 /\ e \in Int /\ e <= Len(w)
        BY <1>3, <1>8, <2>1
    <2>. HIDE DEF start
    <2>5. HeaderField(w) = <<Field(n, SubSeq(w, start + 1, e))>>
        BY <1>9, <1>10, <2>2, <2>3
    <2>6. SubSeq(w, start + 1, e) = <<>>
        <3> DEFINE p == SubSeq(w, start + 1, e)
        <3>1. p \in Texts /\ Len(p) = 0
            BY <1>3, <2>4, PieceType
        <3>. HIDE DEF p, Char
        <3>2. p = <<>>
            BY <3>1, EmptySeq DEF Texts
        <3>. QED BY <3>2 DEF p
    <2>7. HeaderField(w) = <<Field(n, <<>>)>>
        BY <2>5, <2>6
    <2>8. AsRead(f) = Field(n, <<>>)
        BY <1>11 DEF AsRead, n, v
    <2>9. l # Npos
        BY <1>3 DEF Npos
    <2>. QED BY <1>4, <1>5, <2>7, <2>8, <2>9 DEF w
<1>12. CASE v # <<SP>>
    <2> DEFINE start == l + 2
    <2>1. start \in (l + 1)..(Len(w) - 1) /\ start \in Nat
          /\ \A j \in (l + 1)..(start - 1) : j = l + 1
          /\ start + m = e /\ start + m <= Len(w)
        BY <1>3, <1>8
    <2>2. At(w, start) # SP
        <3>1. CASE m = 0
            <4>1. Len(w) = start + 1
                BY <1>3, <3>1
            <4>. QED BY <1>3, <4>1 DEF At, SP, CR
        <3>2. CASE m # 0
            <4>1. v # <<>> /\ 1 \in 1..m /\ l + 2 + 1 = start + 1
                BY <1>3, <3>2 DEF m
            <4>2. v[1] # SP
                BY <1>1, <1>12, <4>1
            <4>3. w[start + 1] = v[1]
                BY <1>3, <4>1
            <4>. QED BY <4>2, <4>3 DEF At
        <3>. QED BY <3>1, <3>2
    <2>3. SubSeq(w, start + 1, e) = v
        <3>1. start \in Nat /\ start + Len(v) <= Len(w) /\ start + Len(v) = e
              /\ \A j \in 1..Len(v) : w[start + j] = v[j]
            BY <1>3, <2>1 DEF m
        <3>. HIDE DEF start
        <3>2. SubSeq(w, start + 1, start + Len(v)) = v
            BY <1>1, <1>3, <3>1, PieceEquals
        <3>. QED BY <3>1, <3>2
    <2>. HIDE DEF start
    <2>4. HeaderField(w) = <<Field(n, SubSeq(w, start + 1, e))>>
        BY <1>9, <1>10, <2>1, <2>2
    <2>5. HeaderField(w) = <<f>>
        BY <1>1, <2>3, <2>4
    <2>. QED BY <1>4, <1>5, <1>3, <1>12, <2>5 DEF AsRead, v, w, Npos
<1>. QED BY <1>11, <1>12

\* Parts of one element each make up their elements.
LEMMA FlattenSingles ==
    ASSUME NEW S, NEW h \in Seq(S), NEW g \in Seq(Seq(S)), Len(g) = Len(h),
           \A i \in 1..Len(h) : g[i] = <<h[i]>>
    PROVE  FlattenSeq(g) = h
<1> DEFINE Good == {k \in Nat : k <= Len(h) => Upto(g, k) = SubSeq(h, 1, k)}
<1>1. Len(h) \in Nat
    OBVIOUS
<1>2. 0 \in Good
    <2>1. SubSeq(h, 1, 0) = <<>> /\ Upto(g, 0) = <<>>
        BY UptoIs
    <2>. QED BY <2>1
<1>3. ASSUME NEW k \in Nat, k \in Good PROVE k + 1 \in Good
    <2>1. SUFFICES ASSUME k + 1 <= Len(h) PROVE Upto(g, k + 1) = SubSeq(h, 1, k + 1)
        OBVIOUS
    <2>2. k \in 0..(Len(h) - 1) /\ k \in 0..(Len(g) - 1) /\ k <= Len(h) /\ k + 1 \in 1..Len(h)
        BY <1>1, <2>1
    <2>3. Upto(g, k) = SubSeq(h, 1, k)
        BY <1>3, <2>2
    <2>4. Upto(g, k + 1) = Upto(g, k) \o g[k + 1]
        BY <2>2, UptoIs
    <2>5. g[k + 1] = <<h[k + 1]>>
        BY <2>2
    <2>6. SubSeq(h, 1, k) \o <<h[k + 1]>> = SubSeq(h, 1, k + 1)
        BY <2>2, BeginAppend
    <2>. QED BY <2>3, <2>4, <2>5, <2>6
<1>4. \A k \in Nat : k \in Good
    <2>. HIDE DEF Good
    <2>. QED BY <1>2, <1>3, Induction
<1>5. Upto(g, Len(h)) = SubSeq(h, 1, Len(h))
    BY <1>1, <1>4
<1>6. FlattenSeq(g) = Upto(g, Len(g))
    BY UptoIs
<1>. QED BY <1>5, <1>6

\* The lines of a head, with the blank one that ends it.
HeadLines(fields) == [i \in 1..(Len(fields) + 1) |->
                         IF i <= Len(fields) THEN HeadLine(fields[i]) ELSE <<CR>>]

\* They are lines.
LEMMA HeadLinesType ==
    ASSUME NEW fields \in Seq(HeadFields)
    PROVE  /\ HeadLines(fields) \in Seq(LineTexts) /\ Len(HeadLines(fields)) = Len(fields) + 1
           /\ \A i \in 1..Len(fields) : HeadLines(fields)[i] = HeadLine(fields[i])
           /\ HeadLines(fields)[Len(fields) + 1] = <<CR>>
<1> DEFINE N == Len(fields)
           n == N + 1
           g == HeadLines(fields)
<1>1. N \in Nat /\ n \in Nat
    OBVIOUS
<1>2. ASSUME NEW i \in 1..N PROVE HeadLine(fields[i]) \in LineTexts
    <2>1. fields[i] \in HeadFields
        <3>. HIDE DEF HeadFields
        <3>. QED OBVIOUS
    <2>. QED BY <2>1, HeadLineIs
<1>3. <<CR>> \in LineTexts
    BY DEF LineTexts, Texts, Char, CR, LF
<1>4. g = [i \in 1..n |-> IF i <= N THEN HeadLine(fields[i]) ELSE <<CR>>]
    BY DEF HeadLines
<1>. HIDE DEF g, N
<1>5. g \in [1..n -> LineTexts]
    <2>1. \A i \in 1..n : i <= N => i \in 1..N
        BY <1>1
    <2>2. \A i \in 1..n : (IF i <= N THEN HeadLine(fields[i]) ELSE <<CR>>) \in LineTexts
        BY <1>2, <1>3, <2>1
    <2>. HIDE DEF n
    <2>. QED BY <1>4, <2>2
<1>6. \A i \in 1..N : g[i] = HeadLine(fields[i])
    BY <1>1, <1>4
<1>7. g[N + 1] = <<CR>>
    BY <1>1, <1>4
<1>. HIDE DEF n
<1> DEFINE A == LineTexts
<1>. HIDE DEF A
<1>8. n \in Nat /\ g \in [1..n -> A]
    BY <1>1, <1>5 DEF A
<1>9. g \in Seq(A)
    BY <1>8, IsASeq
<1>10. Len(g) = n
    BY <1>8, <1>9, LenProperties
<1>. QED BY <1>6, <1>7, <1>9, <1>10 DEF g, n, N, A

\* They make up the head.
LEMMA HeaderWriteIs ==
    ASSUME NEW fields \in Seq(HeadFields)
    PROVE  HeaderWrite(fields) = FlattenSeq(Terminated(HeadLines(fields)))
<1> DEFINE N == Len(fields)
           ls == HeadLines(fields)
           t == Terminated(ls)
           P(i) == fields[i].name \o <<Colon, SP>> \o fields[i].value \o <<CR, LF>>
           p == [i \in 1..N |-> P(i)]
           e == <<CR, LF>>
<1>0. <<CR>> \o <<LF>> = e
    <2> DEFINE a == <<CR>>
               b == <<LF>>
               u == a \o b
    <2>1. a \in Texts /\ b \in Texts /\ Len(a) = 1 /\ Len(b) = 1 /\ a[1] = CR /\ b[1] = LF
        BY DEF Texts, Char, CR, LF
    <2>2. e \in Seq(Char) /\ Len(e) = 2 /\ e[1] = CR /\ e[2] = LF
        BY DEF Char, CR, LF
    <2>. HIDE DEF a, b, e
    <2>3. /\ u \in Texts /\ Len(u) = Len(a) + Len(b)
          /\ \A j \in 1..Len(a) : u[j] = a[j]
          /\ \A j \in 1..Len(b) : u[Len(a) + j] = b[j]
        BY <2>1, JoinAt
    <2>. HIDE DEF u
    <2>4. Len(u) = 2 /\ u[1] = CR /\ u[1 + 1] = LF
        BY <2>1, <2>3
    <2>5. u \in Seq(Char) /\ Len(u) = Len(e) /\ \A j \in 1..Len(u) : u[j] = e[j]
        <3>1. u[1] = e[1] /\ u[2] = e[2] /\ Len(u) = 2 /\ Len(e) = 2
            BY <2>2, <2>4
        <3>2. \A j \in 1..2 : j = 1 \/ j = 2
            OBVIOUS
        <3>3. u \in Seq(Char)
            BY <2>3 DEF Texts
        <3>. HIDE DEF Char
        <3>. QED BY <3>1, <3>2, <3>3
    <2>6. u = e
        <3>. HIDE DEF Char
        <3>. QED BY <2>2, <2>5, SeqEqual
    <2>. QED BY <2>6 DEF u, a, b
<1>1. N \in Nat
    OBVIOUS
<1>2. /\ ls \in Seq(LineTexts) /\ Len(ls) = N + 1
      /\ \A i \in 1..N : ls[i] = HeadLine(fields[i])
      /\ ls[N + 1] = <<CR>>
    BY HeadLinesType
<1>. HIDE DEF ls
<1>3. t \in Seq(Seq(Char)) /\ Len(t) = N + 1
    BY <1>2, TerminatedType
<1>4. \A i \in 1..(N + 1) : t[i] = ls[i] \o <<LF>>
    BY <1>2 DEF Terminated
<1>. HIDE DEF t
<1>5. t[N + 1] = e
    <2>1. N + 1 \in 1..(N + 1)
        BY <1>1
    <2>. QED BY <1>2, <1>4, <1>0, <2>1
<1>6. ASSUME NEW i \in 1..N PROVE t[i] = P(i)
    <2> DEFINE n == fields[i].name
               v == fields[i].value
               c == <<Colon, SP>>
               r == <<CR>>
               l == <<LF>>
               x == n \o c
               y == x \o v
    <2>1. n \in Texts /\ v \in Texts
        <3>1. fields[i] \in HeadFields
            <4>. HIDE DEF HeadFields
            <4>. QED OBVIOUS
        <3>. QED BY <3>1 DEF HeadFields, Fields
    <2>2. c \in Texts /\ r \in Texts /\ l \in Texts /\ r \o l = e
        BY <1>0 DEF Texts, Char, Colon, SP, CR, LF
    <2>3. t[i] = (y \o r) \o l
        <3>1. i \in 1..(N + 1)
            BY <1>1
        <3>. QED BY <1>2, <1>4, <3>1 DEF HeadLine, Framed
    <2>4. P(i) = y \o e
        OBVIOUS
    <2>. HIDE DEF n, v, c, r, l, e, P
    <2>5. x \in Texts
        BY <2>1, <2>2, JoinAt
    <2>. HIDE DEF x
    <2>6. y \in Texts
        BY <2>1, <2>5, JoinAt
    <2>. HIDE DEF y
    <2>7. y \in Seq(Char) /\ r \in Seq(Char) /\ l \in Seq(Char)
        BY <2>2, <2>6 DEF Texts
    <2>8. (y \o r) \o l = y \o (r \o l)
        <3>. HIDE DEF Char
        <3>. QED BY <2>7, ConcatAssociative
    <2>. QED BY <2>2, <2>3, <2>4, <2>8
<1>7. HeaderWrite(fields) = FlattenSeq(p) \o e
    BY DEF HeaderWrite
<1>. HIDE DEF P, e
<1>8. p \in Seq(Seq(Char)) /\ Len(p) = N /\ \A i \in 1..N : p[i] = t[i]
    <2> DEFINE A == Seq(Char)
    <2>. HIDE DEF A
    <2>1. \A i \in 1..N : t[i] \in A
        <3>1. \A i \in 1..N : i \in 1..Len(t)
            BY <1>1, <1>3
        <3>2. t \in Seq(A)
            BY <1>3 DEF A
        <3>. HIDE DEF N
        <3>. QED BY <3>1, <3>2
    <2>2. p \in [1..N -> A] /\ \A i \in 1..N : p[i] = t[i]
        BY <1>6, <2>1
    <2>. HIDE DEF p, N
    <2>3. p \in Seq(A)
        BY <1>1, <2>2, IsASeq
    <2>4. Len(p) = N
        BY <1>1, <2>2, <2>3, LenProperties
    <2>. QED BY <2>2, <2>3, <2>4 DEF A
<1>. HIDE DEF p, N
<1>9. e \in Seq(Char)
    BY DEF e, Char, CR, LF
<1>10. t = Append(p, e)
    <2> DEFINE a == Append(p, e)
               A == Seq(Char)
    <2>. HIDE DEF A
    <2>1. p \in Seq(A) /\ e \in A /\ t \in Seq(A)
        BY <1>3, <1>8, <1>9 DEF A
    <2>2. a \in Seq(A) /\ Len(a) = N + 1 /\ a[N + 1] = e /\ \A i \in 1..N : a[i] = p[i]
        BY <1>1, <1>8, <2>1, AppendProperties
    <2>3. \A i \in 1..(N + 1) : i \in 1..N \/ i = N + 1
        BY <1>1
    <2>4. \A i \in 1..(N + 1) : a[i] = t[i]
        BY <1>5, <1>8, <2>2, <2>3
    <2>. HIDE DEF a
    <2>5. a = t
        BY <1>3, <2>1, <2>2, <2>4, SeqEqual
    <2>. QED BY <2>5 DEF a
<1>11. FlattenSeq(t) = FlattenSeq(p) \o e
    <2>. HIDE DEF Char
    <2>. QED BY <1>8, <1>9, <1>10, FlattenAppend
<1>. QED BY <1>7, <1>11 DEF t, ls

\* The fields of a head that was written.
LEMMA HeadersRead ==
    ASSUME NEW fields \in Seq(HeadFields)
    PROVE  HeaderParse(HeaderWrite(fields)) = [i \in 1..Len(fields) |-> AsRead(fields[i])]
<1> DEFINE N == Len(fields)
           lines == Lines(HeaderWrite(fields))
           ends == {i \in 1..Len(lines) : Find(lines[i], Colon, 0) = Npos}
           n == IF ends = {} THEN Len(lines)
                ELSE (CHOOSE i \in ends : \A j \in ends : i <= j) - 1
           parts == [i \in 1..n |-> HeaderField(lines[i])]
           read == [i \in 1..N |-> AsRead(fields[i])]
<1>1. N \in Nat
    OBVIOUS
<1>2. HeaderParse(HeaderWrite(fields)) = FlattenSeq(parts)
    BY DEF HeaderParse
<1>3. lines = HeadLines(fields)
    <2>1. HeadLines(fields) \in Seq(LineTexts)
        BY HeadLinesType
    <2>2. Lines(FlattenSeq(Terminated(HeadLines(fields)))) = HeadLines(fields)
        BY <2>1, LinesJoined
    <2>. QED BY <2>2, HeaderWriteIs
<1>4. /\ Len(lines) = N + 1
      /\ \A i \in 1..N : lines[i] = HeadLine(fields[i])
      /\ lines[N + 1] = <<CR>>
    BY <1>3, HeadLinesType
<1>. HIDE DEF lines
<1>5. ASSUME NEW i \in 1..N PROVE /\ Find(lines[i], Colon, 0) # Npos
                                  /\ HeaderField(lines[i]) = <<AsRead(fields[i])>>
                                  /\ AsRead(fields[i]) \in Fields
    <2>1. fields[i] \in HeadFields
        <3>. HIDE DEF HeadFields
        <3>. QED OBVIOUS
    <2>2. AsRead(fields[i]) \in Fields
        <3>1. fields[i] \in Fields /\ fields[i].name \in Texts
            BY <2>1 DEF HeadFields, Fields
        <3>. QED BY <3>1, NoText, OneField DEF AsRead
    <2>. QED BY <1>4, <2>1, <2>2, HeadLineIs
<1>6. Find(<<CR>>, Colon, 0) = Npos
    <2> DEFINE s == <<CR>>
    <2>1. s \in Texts /\ Len(s) = 1 /\ s[1] # Colon
        BY DEF Texts, Char, CR, Colon
    <2>. HIDE DEF s
    <2>2. 0 \in Nat /\ \A i \in 0..(Len(s) - 1) : i + 1 = 1
        BY <2>1
    <2>3. \A i \in 0..(Len(s) - 1) : At(s, i) # Colon
        BY <2>1, <2>2 DEF At
    <2>4. Find(s, Colon, 0) = Npos
        BY <2>1, <2>2, <2>3, FindIsAt
    <2>. QED BY <2>4 DEF s
<1>7. ends = {N + 1}
    <2>1. N + 1 \in 1..Len(lines) /\ \A i \in 1..Len(lines) : i \in 1..N \/ i = N + 1
        BY <1>1, <1>4
    <2>. HIDE DEF N
    <2>. QED BY <1>4, <1>5, <1>6, <2>1
<1>. HIDE DEF ends
<1>8. n = N
    <2> DEFINE e == CHOOSE i \in ends : \A j \in ends : i <= j
    <2>1. e = N + 1
        BY <1>1, <1>7
    <2>2. n = e - 1
        BY <1>7
    <2>. HIDE DEF e, n
    <2>. QED BY <1>1, <2>1, <2>2
<1>. HIDE DEF n
<1>9. parts = [i \in 1..N |-> HeaderField(lines[i])]
    BY <1>8
<1>. HIDE DEF parts, Fields
<1>10. read \in Seq(Fields) /\ Len(read) = N /\ \A i \in 1..N : read[i] = AsRead(fields[i])
    <2>1. read \in [1..N -> Fields] /\ \A i \in 1..N : read[i] = AsRead(fields[i])
        BY <1>5
    <2>. HIDE DEF read, N
    <2>2. read \in Seq(Fields)
        BY <1>1, <2>1, IsASeq
    <2>. QED BY <1>1, <2>1, <2>2, LenProperties
<1>. HIDE DEF read
<1>11. parts \in Seq(Seq(Fields)) /\ Len(parts) = N /\ \A i \in 1..N : parts[i] = <<read[i]>>
    <2> DEFINE A == Seq(Fields)
    <2>1. \A i \in 1..N : <<read[i]>> \in A /\ HeaderField(lines[i]) = <<read[i]>>
        BY <1>5, <1>10
    <2>. HIDE DEF A
    <2>2. parts \in [1..N -> A] /\ \A i \in 1..N : parts[i] = <<read[i]>>
        BY <1>9, <2>1
    <2>. HIDE DEF N
    <2>3. parts \in Seq(A)
        BY <1>1, <2>2, IsASeq
    <2>4. Len(parts) = N
        BY <1>1, <2>2, <2>3, LenProperties
    <2>. QED BY <2>2, <2>3, <2>4 DEF A
<1>12. FlattenSeq(parts) = read
    BY <1>10, <1>11, FlattenSingles
<1>. QED BY <1>2, <1>12 DEF read

\* The fields of a head are such as heads have.
LEMMA HeaderParseHead ==
    ASSUME NEW s \in Texts
    PROVE  HeaderParse(s) \in Seq(HeadFields)
<1> DEFINE lines == Lines(s)
           ends == {i \in 1..Len(lines) : Find(lines[i], Colon, 0) = Npos}
           n == IF ends = {} THEN Len(lines)
                ELSE (CHOOSE i \in ends : \A j \in ends : i <= j) - 1
           parts == [i \in 1..n |-> HeaderField(lines[i])]
<1>1. lines \in Seq(LineTexts)
    <2>1. LineParts(s) \in Seq(Seq(LineTexts)) /\ Lines(s) = FlattenSeq(LineParts(s))
        BY LinePartsType
    <2>. HIDE DEF LineTexts
    <2>. QED BY <2>1, FlattenType
<1>2. HeaderParse(s) = FlattenSeq(parts)
    BY DEF HeaderParse
<1>. HIDE DEF lines, LineTexts
<1>3. n \in Nat /\ n <= Len(lines)
    <2>1. Len(lines) \in Nat /\ ends \subseteq 1..Len(lines) /\ ends \subseteq Nat
        BY <1>1
    <2>. HIDE DEF ends
    <2>2. CASE ends = {}
        BY <2>1, <2>2
    <2>3. CASE ends # {}
        <3>1. \E i \in ends : \A j \in ends : i <= j
            BY <2>1, <2>3, LeastElement
        <3>2. (CHOOSE i \in ends : \A j \in ends : i <= j) \in ends
            BY <3>1
        <3> DEFINE e == CHOOSE i \in ends : \A j \in ends : i <= j
        <3>3. e \in 1..Len(lines) /\ n = e - 1
            BY <2>1, <2>3, <3>2
        <3>. HIDE DEF e, n
        <3>. QED BY <2>1, <3>3
    <2>. QED BY <2>2, <2>3
<1>. HIDE DEF n
<1>4. parts \in Seq(Seq(HeadFields))
    <2>1. \A i \in 1..n : lines[i] \in LineTexts
        BY <1>1, <1>3
    <2>2. \A i \in 1..n : HeaderField(lines[i]) \in Seq(HeadFields)
        BY <2>1, HeaderFieldHead
    <2>. HIDE DEF HeadFields
    <2>3. parts \in [1..n -> Seq(HeadFields)]
        BY <2>2
    <2>. QED BY <1>3, <2>3, IsASeq
<1>. HIDE DEF parts, HeadFields
<1>. QED BY <1>2, <1>4, FlattenType

\* HeaderRoundTrip, of any text.
LEMMA HeaderReadAgain ==
    ASSUME text \in Texts
    PROVE  HeaderRoundTrip
<1> DEFINE fields == HeaderParse(text)
<1>1. fields \in Seq(HeadFields)
    BY HeaderParseHead
<1>. HIDE DEF fields
<1>2. HeaderParse(HeaderWrite(fields)) = [i \in 1..Len(fields) |-> AsRead(fields[i])]
    BY <1>1, HeadersRead
<1>3. HeaderRoundTrip <=> (form = "header" =>
          HeaderParse(HeaderWrite(fields)) = [i \in 1..Len(fields) |-> AsRead(fields[i])])
    BY DEF HeaderRoundTrip, fields, AsRead
<1>. QED BY <1>2, <1>3

-----------------------------------------------------------------------------
(* Attributes that are written with quotes and read again.                 *)

\* A scan that found these fields, within an attribute at these positions.
Within(fields, n, e, b) == [fields |-> fields, name |-> n, nameEnd |-> e, value |-> b]

\* What a step does with the blanks and semicolons between attributes, and with
\* the first character of a name,
LEMMA StepBetween ==
    ASSUME NEW v, NEW f, NEW c \in Nat
    PROVE  /\ At(v, c) \in {SP, Semicolon} => AttributeStep(v, Between(f), c) = Between(f)
           /\ At(v, c) \notin {SP, Semicolon} =>
                 AttributeStep(v, Between(f), c) = Within(f, c, Npos, Npos)
<1> DEFINE s == Between(f)
<1>1. s = [fields |-> f, name |-> Npos, nameEnd |-> Npos, value |-> Npos]
      /\ s.name = Npos /\ s.nameEnd = Npos /\ s.value = Npos /\ s.fields = f
    BY DEF Between
<1>2. [s EXCEPT !.name = c] = Within(f, c, Npos, Npos)
    BY <1>1 DEF Within
<1>. HIDE DEF s
<1>. QED BY <1>1, <1>2 DEF AttributeStep, s

\* the characters of a name and its equals sign,
LEMMA StepName ==
    ASSUME NEW v, NEW f, NEW a \in Nat, NEW c \in Nat
    PROVE  /\ At(v, c) \notin {Semicolon, Equal} =>
                 AttributeStep(v, Within(f, a, Npos, Npos), c) = Within(f, a, Npos, Npos)
           /\ At(v, c) = Equal =>
                 AttributeStep(v, Within(f, a, Npos, Npos), c) = Within(f, a, c, Npos)
<1> DEFINE s == Within(f, a, Npos, Npos)
<1>1. s = [fields |-> f, name |-> a, nameEnd |-> Npos, value |-> Npos]
      /\ s.name # Npos /\ s.nameEnd = Npos /\ s.value = Npos
    BY DEF Within, Npos
<1>2. [s EXCEPT !.nameEnd = c] = Within(f, a, c, Npos)
    BY <1>1 DEF Within
<1>3. Equal # Semicolon
    BY DEF Equal, Semicolon
<1>. HIDE DEF s
<1>. QED BY <1>1, <1>2, <1>3 DEF AttributeStep, s

\* the quote before a value,
LEMMA StepQuote ==
    ASSUME NEW v, NEW f, NEW a \in Nat, NEW e \in Nat, NEW c \in Nat,
           At(v, c) = Quote, c + 1 < Len(v)
    PROVE  AttributeStep(v, Within(f, a, e, Npos), c) = Within(f, a, e, c + 1)
<1> DEFINE s == Within(f, a, e, Npos)
<1>1. s = [fields |-> f, name |-> a, nameEnd |-> e, value |-> Npos]
      /\ s.name # Npos /\ s.nameEnd # Npos /\ s.value = Npos
    BY DEF Within, Npos
<1>2. [s EXCEPT !.value = c + 1] = Within(f, a, e, c + 1)
    BY <1>1 DEF Within
<1>. HIDE DEF s
<1>3. AttributeStep(v, s, c) = Within(f, a, e, c + 1)
    BY <1>1, <1>2 DEF AttributeStep
<1>. QED BY <1>3 DEF s

\* its characters, and the quote behind it.
LEMMA StepValue ==
    ASSUME NEW v, NEW f, NEW a \in Nat, NEW e \in Nat, NEW b \in Nat, NEW c \in Nat
    PROVE  /\ At(v, c) \notin {Quote, Semicolon} =>
                 AttributeStep(v, Within(f, a, e, b), c) = Within(f, a, e, b)
           /\ At(v, c) = Quote =>
                 AttributeStep(v, Within(f, a, e, b), c)
                     = Between(Append(f, Field(Substr(v, a, e - a), Decode(Substr(v, b, c - b)))))
<1> DEFINE t == Within(f, a, e, b)
<1>1. t = [fields |-> f, name |-> a, nameEnd |-> e, value |-> b]
      /\ t.name # Npos /\ t.nameEnd # Npos /\ t.value # Npos
      /\ t.name = a /\ t.nameEnd = e /\ t.value = b /\ t.fields = f
    BY DEF Within, Npos
<1>. HIDE DEF t
<1>2. At(v, c) \notin {Quote, Semicolon} => AttributeStep(v, t, c) = t
    BY <1>1 DEF AttributeStep
<1>3. At(v, c) = Quote => AttributeStep(v, t, c)
          = Between(Append(f, Field(Substr(v, a, e - a), Decode(Substr(v, b, c - b)))))
    BY <1>1 DEF AttributeStep
<1>. QED BY <1>2, <1>3 DEF t

\* Characters that change nothing.
LEMMA AttributeHolds ==
    ASSUME NEW v \in Texts, NEW a \in Nat, NEW b \in Nat, a <= b, b <= Len(v), NEW s,
           AttributeScans(v)[a] = s,
           \A c \in a..(b - 1) : AttributeStep(v, s, c) = s
    PROVE  AttributeScans(v)[b] = s
<1> DEFINE g == AttributeScans(v)
           Good == {d \in Nat : a + d <= b => g[a + d] = s}
<1>1. Len(v) \in Nat
    BY DEF Texts
<1>2. 0 \in Good
    <2>1. a + 0 = a
        OBVIOUS
    <2>. QED BY <2>1
<1>3. ASSUME NEW d \in Nat, d \in Good PROVE d + 1 \in Good
    <2> DEFINE m == a + d
    <2>1. SUFFICES ASSUME a + (d + 1) <= b PROVE g[a + (d + 1)] = s
        OBVIOUS
    <2>2. a + (d + 1) = m + 1 /\ a + d <= b /\ m \in a..(b - 1) /\ m + 1 \in 1..Len(v)
          /\ m + 1 - 1 = m
        BY <1>1, <2>1
    <2>3. g[m] = s
        BY <1>3, <2>2
    <2>. HIDE DEF m
    <2>4. g[m + 1] = AttributeStep(v, g[m], m)
        BY <2>2, AttributeScansAre
    <2>. QED BY <2>2, <2>3, <2>4
<1>4. \A d \in Nat : d \in Good
    <2>. HIDE DEF Good
    <2>. QED BY <1>2, <1>3, Induction
<1> DEFINE e == b - a
<1>5. e \in Nat /\ a + e = b /\ a + e <= b
    OBVIOUS
<1>. HIDE DEF e, g
<1>6. g[b] = s
    BY <1>4, <1>5
<1>. QED BY <1>6 DEF g

\* Attributes as they are read, and those that can be written again.
AttributeFields ==
    {f \in Fields : /\ f.name # <<>> /\ f.name[1] \notin {SP, Semicolon}
                    /\ \A j \in 1..Len(f.name) : f.name[j] # Semicolon}

PlainFields ==
    {f \in AttributeFields :
        /\ \A j \in 1..Len(f.name) : f.name[j] # Equal
        /\ \A j \in 1..Len(f.value) : f.value[j] \notin {Quote, Semicolon, Percent, Plus}}

\* Where the parts of an attribute are: the equals sign behind character e, the
\* value behind x, the quote behind y.
LEMMA AttributePlaces ==
    ASSUME NEW b \in Nat, NEW l \in Nat, NEW m \in Nat, NEW L \in Nat,
           l >= 1, b + l + m + 3 <= L
    PROVE  LET e == b + l  x == b + l + 2  y == b + l + m + 2 IN
           /\ e \in Nat /\ x \in Nat /\ y \in Nat
           /\ b + 1 \in 1..L /\ b + 1 - 1 = b /\ b + 1 \in Nat /\ b + 1 <= e /\ e <= L
           /\ e + 1 \in 1..L /\ e + 1 - 1 = e /\ e + 1 = b + l + 1 /\ e + 1 \in Nat
           /\ e + 2 \in 1..L /\ e + 2 - 1 = e + 1 /\ e + 2 = x /\ e + 1 + 1 = x /\ x < L
           /\ x <= y /\ y <= L /\ y + 1 \in 1..L /\ y + 1 - 1 = y /\ y + 1 = b + l + m + 3
           /\ e - b = l /\ y - x = m /\ x + m = y
OBVIOUS

\* An attribute is written behind character b.
WrittenAt(v, b, f) ==
    LET l == Len(f.name)  m == Len(f.value) IN
    /\ b + l + m + 3 <= Len(v)
    /\ \A j \in 1..l : v[b + j] = f.name[j]
    /\ v[b + l + 1] = Equal /\ v[b + l + 2] = Quote
    /\ \A j \in 1..m : v[b + l + 2 + j] = f.value[j]
    /\ v[b + l + m + 3] = Quote

\* It is read.
LEMMA AttributeRead ==
    ASSUME NEW v \in Texts, NEW b \in Nat, NEW f \in PlainFields, NEW F,
           WrittenAt(v, b, f),
           AttributeScans(v)[b] = Between(F)
    PROVE  AttributeScans(v)[b + Len(f.name) + Len(f.value) + 3] = Between(Append(F, f))
<1> DEFINE n == f.name
           u == f.value
           l == Len(n)
           m == Len(u)
           L == Len(v)
           g == AttributeScans(v)
           e == b + l
           x == b + l + 2
           y == b + l + m + 2
<1>1. /\ n \in Texts /\ u \in Texts /\ f = Field(n, u) /\ n # <<>> /\ n[1] \notin {SP, Semicolon}
      /\ \A j \in 1..l : n[j] # Semicolon /\ n[j] # Equal
      /\ \A j \in 1..m : u[j] \notin {Quote, Semicolon, Percent, Plus}
    BY DEF PlainFields, AttributeFields, Fields, Field
<1>. HIDE DEF n, u
<1>2. l \in Nat /\ m \in Nat
    BY <1>1 DEF Texts
<1>. HIDE DEF l, m
<1>3. /\ b + l + m + 3 <= L
      /\ \A j \in 1..l : v[b + j] = n[j]
      /\ v[b + l + 1] = Equal /\ v[b + l + 2] = Quote
      /\ \A j \in 1..m : v[b + l + 2 + j] = u[j]
      /\ v[b + l + m + 3] = Quote
    BY DEF WrittenAt, l, m, n, u
<1>4. Len(v) \in Nat /\ l >= 1
    <2>1. n \in Seq(Char)
        BY <1>1 DEF Texts
    <2>2. Len(n) # 0
        <3>. HIDE DEF Char
        <3>. QED BY <1>1, <2>1, EmptySeq
    <2>. QED BY <1>2, <2>2 DEF Texts, l
<1>5. \A i \in 1..Len(v) : g[i] = AttributeStep(v, g[i - 1], i - 1)
    BY AttributeScansAre
<1>. HIDE DEF g, e, x, y, L
<1>6. L \in Nat /\ l >= 1 /\ l \in Nat /\ m \in Nat /\ b \in Nat
    BY <1>4, <1>2 DEF L
<1>7. /\ e \in Nat /\ x \in Nat /\ y \in Nat
       /\ b + 1 \in 1..L /\ b + 1 - 1 = b /\ b + 1 \in Nat /\ b + 1 <= e /\ e <= L
       /\ e + 1 \in 1..L /\ e + 1 - 1 = e /\ e + 1 = b + l + 1 /\ e + 1 \in Nat
       /\ e + 2 \in 1..L /\ e + 2 - 1 = e + 1 /\ e + 2 = x /\ e + 1 + 1 = x /\ x < L
       /\ x <= y /\ y <= L /\ y + 1 \in 1..L /\ y + 1 - 1 = y /\ y + 1 = b + l + m + 3
       /\ e - b = l /\ y - x = m /\ x + m = y
    <2>. USE DEF e, x, y
    <2>. QED BY <1>6, <1>3, AttributePlaces
<1>8. /\ e \in Nat /\ x \in Nat /\ y \in Nat
      /\ b + 1 \in 1..Len(v) /\ b + 1 - 1 = b /\ b + 1 \in Nat /\ b + 1 <= e /\ e <= Len(v)
      /\ e + 1 \in 1..Len(v) /\ e + 1 - 1 = e /\ e + 1 = b + l + 1 /\ e + 1 \in Nat
      /\ e + 2 \in 1..Len(v) /\ e + 2 - 1 = e + 1 /\ e + 2 = x /\ e + 1 + 1 = x /\ x < Len(v)
      /\ x <= y /\ y <= Len(v) /\ y + 1 \in 1..Len(v) /\ y + 1 - 1 = y /\ y + 1 = b + l + m + 3
      /\ e - b = l /\ y - x = m /\ x + m = y
    BY <1>7 DEF L
<1>9. g[b + 1] = Within(F, b, Npos, Npos)
    <2>1. At(v, b) = n[1]
        <3>1. 1 \in 1..l
            BY <1>4
        <3>. QED BY <1>3, <3>1 DEF At
    <2>2. At(v, b) \notin {SP, Semicolon}
        BY <1>1, <2>1
    <2>3. AttributeStep(v, Between(F), b) = Within(F, b, Npos, Npos)
        BY <2>2, StepBetween
    <2>4. g[b + 1] = AttributeStep(v, g[b], b)
        BY <1>5, <1>8
    <2>. QED BY <2>3, <2>4 DEF g
<1>10. g[e] = Within(F, b, Npos, Npos)
    <2> DEFINE s == Within(F, b, Npos, Npos)
               a == b + 1
    <2>1. \A c \in a..(e - 1) : AttributeStep(v, s, c) = s
        <3>1. SUFFICES ASSUME NEW c \in a..(e - 1) PROVE AttributeStep(v, s, c) = s
            OBVIOUS
        <3> DEFINE j == c + 1 - b
        <3>2. c \in Nat /\ j \in 1..l /\ b + j = c + 1
            <4>1. e \in Nat /\ e - b = l
                BY <1>8
            <4>. QED BY <3>1, <4>1
        <3>. HIDE DEF j
        <3>3. At(v, c) = n[j]
            BY <1>3, <3>2 DEF At
        <3>4. At(v, c) \notin {Semicolon, Equal}
            BY <1>1, <3>2, <3>3
        <3>. QED BY <3>2, <3>4, StepName
    <2>2. a \in Nat /\ e \in Nat /\ a <= e /\ e <= Len(v) /\ AttributeScans(v)[a] = s
        BY <1>8, <1>9 DEF g
    <2>. HIDE DEF a, s
    <2>3. AttributeScans(v)[e] = s
        BY <2>1, <2>2, AttributeHolds
    <2>. QED BY <2>3 DEF g, s
<1>11. g[e + 1] = Within(F, b, e, Npos)
    <2>1. At(v, e) = Equal
        BY <1>8, <1>3 DEF At
    <2>2. g[e + 1] = AttributeStep(v, g[e], e)
        BY <1>5, <1>8
    <2>. QED BY <1>8, <1>10, <2>1, <2>2, StepName
<1>12. g[x] = Within(F, b, e, x)
    <2> DEFINE c == e + 1
    <2>1. c \in Nat /\ c + 1 = x /\ c + 1 < Len(v) /\ x - 1 = c /\ x \in 1..Len(v)
        BY <1>8
    <2>2. At(v, c) = Quote
        <3>1. c + 1 = b + l + 2
            BY <2>1 DEF x
        <3>. HIDE DEF c
        <3>. QED BY <1>3, <3>1 DEF At
    <2>3. g[c] = Within(F, b, e, Npos)
        BY <1>11
    <2>. HIDE DEF c
    <2>4. g[x] = AttributeStep(v, g[c], c)
        BY <1>5, <2>1
    <2>5. AttributeStep(v, Within(F, b, e, Npos), c) = Within(F, b, e, c + 1)
        BY <1>8, <2>1, <2>2, StepQuote
    <2>. QED BY <2>1, <2>3, <2>4, <2>5
<1>13. g[y] = Within(F, b, e, x)
    <2> DEFINE s == Within(F, b, e, x)
    <2>1. \A c \in x..(y - 1) : AttributeStep(v, s, c) = s
        <3>1. SUFFICES ASSUME NEW c \in x..(y - 1) PROVE AttributeStep(v, s, c) = s
            OBVIOUS
        <3> DEFINE j == c + 1 - x
        <3>2. c \in Nat /\ j \in 1..m /\ x + j = c + 1
            <4>1. x \in Nat /\ y \in Nat /\ y = x + m /\ m \in Nat
                BY <1>8
            <4>. QED BY <3>1, <4>1
        <3>. HIDE DEF j
        <3>3. At(v, c) = u[j]
            BY <1>3, <3>2 DEF At, x
        <3>4. At(v, c) \notin {Quote, Semicolon}
            BY <1>1, <3>2, <3>3
        <3>. QED BY <1>8, <3>2, <3>4, StepValue
    <2>2. x \in Nat /\ y \in Nat /\ x <= y /\ y <= Len(v) /\ AttributeScans(v)[x] = s
        BY <1>8, <1>12 DEF g
    <2>. HIDE DEF s
    <2>3. AttributeScans(v)[y] = s
        BY <2>1, <2>2, AttributeHolds
    <2>. QED BY <2>3 DEF g, s
<1>14. g[y + 1] = Between(Append(F, Field(Substr(v, b, e - b), Decode(Substr(v, x, y - x)))))
    <2>1. At(v, y) = Quote
        BY <1>8, <1>3 DEF At
    <2>2. g[y + 1] = AttributeStep(v, g[y], y)
        BY <1>5, <1>8
    <2>. QED BY <1>8, <1>13, <2>1, <2>2, StepValue
<1>15. ASSUME NEW p \in Nat, NEW k \in Nat, NEW w \in Texts, Len(w) = k, p + k <= Len(v),
              \A j \in 1..k : v[p + j] = w[j]
       PROVE  Substr(v, p, k) = w
    <2>1. p <= Len(v) /\ k \in Int /\ k >= 0
        BY <1>4, <1>15
    <2>2. Substr(v, p, k) = SubSeq(v, p + 1, p + k)
        BY <1>15, <2>1, SubstrIs
    <2>3. SubSeq(v, p + 1, p + Len(w)) = w
        BY <1>15, PieceEquals
    <2>. QED BY <1>15, <2>2, <2>3
<1>16. Substr(v, b, e - b) = n
    <2>1. Len(n) = l /\ b + l <= Len(v) /\ \A j \in 1..l : v[b + j] = n[j]
        BY <1>8, <1>3 DEF l, e
    <2>2. Substr(v, b, l) = n
        BY <1>1, <1>15, <2>1
    <2>. QED BY <1>8, <2>2
<1>17. Substr(v, x, y - x) = u
    <2>1. Len(u) = m /\ x + m <= Len(v) /\ \A j \in 1..m : v[x + j] = u[j]
        BY <1>8, <1>3 DEF m, x
    <2>2. Substr(v, x, m) = u
        BY <1>1, <1>2, <1>8, <1>15, <2>1
    <2>. QED BY <1>8, <2>2
<1>18. Decode(u) = u
    <2>1. \A j \in 1..Len(u) : u[j] # Percent /\ u[j] # Plus
        BY <1>1 DEF m
    <2>. QED BY <1>1, <2>1, DecodePlain
<1>. QED BY <1>1, <1>8, <1>14, <1>16, <1>17, <1>18 DEF g, l, m, n, u

\* An attribute as it is written, and what separates it from the one before.
QuotedText(f) == Framed(f.name, f.value, Equal, Quote, Quote)

QuotedPart(fields, i) ==
    (IF i = 1 THEN <<>> ELSE <<Semicolon, SP>>)
        \o fields[i].name \o <<Equal, Quote>> \o fields[i].value \o <<Quote>>

QuotedParts(fields) == [i \in 1..Len(fields) |-> QuotedPart(fields, i)]

\* Four texts behind another are a text behind it.
Behind(s, n, c, u, r) == s \o n \o c \o u \o r = s \o (n \o c \o u \o r)

\* What is framed stands behind what it is appended to.
LEMMA FramedBehind ==
    ASSUME NEW s \in Texts, NEW n \in Texts, NEW c \in Texts, NEW u \in Texts, NEW r \in Texts
    PROVE  Behind(s, n, c, u, r)
<1> DEFINE a == n \o c
           b == a \o u
<1>1. s \in Seq(Char) /\ n \in Seq(Char) /\ c \in Seq(Char) /\ u \in Seq(Char) /\ r \in Seq(Char)
    BY DEF Texts
<1>2. a \in Seq(Char)
    <2>. HIDE DEF Char
    <2>. QED BY <1>1, ConcatProperties
<1>3. (s \o n) \o c = s \o a
    <2>1. s \in Seq(Char) /\ n \in Seq(Char) /\ c \in Seq(Char)
        BY <1>1
    <2>. HIDE DEF Char
    <2>. QED BY <2>1, ConcatAssociative
<1>. HIDE DEF a
<1>4. b \in Seq(Char)
    <2>. HIDE DEF Char
    <2>. QED BY <1>1, <1>2, ConcatProperties
<1>5. (s \o a) \o u = s \o b
    <2>1. s \in Seq(Char) /\ a \in Seq(Char) /\ u \in Seq(Char)
        BY <1>1, <1>2
    <2>. HIDE DEF Char
    <2>. QED BY <2>1, ConcatAssociative
<1>. HIDE DEF b
<1>6. (s \o b) \o r = s \o (b \o r)
    <2>1. s \in Seq(Char) /\ b \in Seq(Char) /\ r \in Seq(Char)
        BY <1>1, <1>4
    <2>. HIDE DEF Char
    <2>. QED BY <2>1, ConcatAssociative
<1>. QED BY <1>3, <1>5, <1>6 DEF a, b, Behind

\* The parts that make up what is written.
LEMMA QuotedType ==
    ASSUME NEW fields \in Seq(PlainFields)
    PROVE  /\ QuotedParts(fields) \in Seq(Seq(Char)) /\ Len(QuotedParts(fields)) = Len(fields)
           /\ Quoted(fields) = FlattenSeq(QuotedParts(fields))
           /\ Quoted(fields) \in Texts
           /\ \A i \in 1..Len(fields) :
                 QuotedParts(fields)[i] = IF i = 1 THEN QuotedText(fields[i])
                                          ELSE <<Semicolon, SP>> \o QuotedText(fields[i])
<1>1. Len(fields) \in Nat
    OBVIOUS
<1>2. ASSUME NEW i \in 1..Len(fields)
      PROVE  /\ QuotedPart(fields, i) = IF i = 1 THEN QuotedText(fields[i])
                                        ELSE <<Semicolon, SP>> \o QuotedText(fields[i])
             /\ QuotedPart(fields, i) \in Texts
    <2> DEFINE n == fields[i].name
               c == <<Equal, Quote>>
               u == fields[i].value
               r == <<Quote>>
               s == <<Semicolon, SP>>
               w == QuotedText(fields[i])
    <2>1. n \in Texts /\ u \in Texts
        <3>1. fields[i] \in PlainFields
            <4>. HIDE DEF PlainFields
            <4>. QED OBVIOUS
        <3>. QED BY <3>1 DEF PlainFields, AttributeFields, Fields
    <2>2. c \in Texts /\ r \in Texts /\ s \in Texts
        BY DEF Texts, Char, Equal, Quote, Semicolon, SP
    <2>3. w = n \o c \o u \o r
        BY DEF QuotedText, Framed
    <2>4. w \in Texts
        <3>1. Equal \in Char /\ Quote \in Char
            BY DEF Char, Equal, Quote
        <3>2. IsFramed(Framed(n, u, Equal, Quote, Quote), n, u, Equal, Quote, Quote)
            BY <2>1, <3>1, FramedAt
        <3>. QED BY <3>2 DEF IsFramed, QuotedText
    <2>5. QuotedPart(fields, i) = (IF i = 1 THEN <<>> ELSE s) \o n \o c \o u \o r
        BY DEF QuotedPart
    <2>. HIDE DEF n, c, u, r, s, w
    <2>6. CASE i = 1
        <3>1. n \in Seq(Char)
            BY <2>1 DEF Texts
        <3>2. <<>> \o n = n
            <4>. HIDE DEF Char
            <4>. QED BY <3>1, ConcatEmptySeq
        <3>. QED BY <2>3, <2>4, <2>5, <2>6, <3>2 DEF w
    <2>7. CASE i # 1
        <3>1. s \o n \o c \o u \o r = s \o (n \o c \o u \o r)
            <4>1. Behind(s, n, c, u, r)
                BY <2>1, <2>2, FramedBehind
            <4>. QED BY <4>1 DEF Behind
        <3>2. s \o w \in Texts
            BY <2>2, <2>4, JoinAt
        <3>. QED BY <2>3, <2>5, <2>7, <3>1, <3>2 DEF w, s
    <2>. QED BY <2>6, <2>7
<1>3. QuotedParts(fields) \in [1..Len(fields) -> Seq(Char)]
    <2>1. \A i \in 1..Len(fields) : QuotedPart(fields, i) \in Seq(Char)
        BY <1>2 DEF Texts
    <2>. HIDE DEF Char
    <2>. QED BY <2>1 DEF QuotedParts
<1>4. \A i \in 1..Len(fields) : QuotedParts(fields)[i] = QuotedPart(fields, i)
    BY DEF QuotedParts
<1>5. Quoted(fields) = FlattenSeq(QuotedParts(fields))
    BY DEF Quoted, QuotedParts, QuotedPart
<1> DEFINE g == QuotedParts(fields)
           n == Len(fields)
           A == Seq(Char)
<1>. HIDE DEF g, n, A
<1>6. n \in Nat /\ g \in [1..n -> A]
    BY <1>1, <1>3 DEF g, n, A
<1>7. g \in Seq(A)
    BY <1>6, IsASeq
<1>8. Len(g) = n
    BY <1>6, <1>7, LenProperties
<1>9. FlattenSeq(g) \in Texts
    <2>. HIDE DEF Char
    <2>. QED BY <1>7, FlattenType DEF A, Texts
<1>. QED BY <1>2, <1>4, <1>5, <1>7, <1>8, <1>9 DEF g, n, A

\* Where an attribute ends, and where its name begins.
QuotedEnd(fields, k) == Len(Upto(QuotedParts(fields), k))

QuotedBegin(fields, k) == IF k = 1 THEN 0 ELSE QuotedEnd(fields, k - 1) + 2

\* Between attributes there are blanks and semicolons, and each is as it was written.
LEMMA QuotedPiece ==
    ASSUME NEW fields \in Seq(PlainFields), NEW k \in 1..Len(fields), NEW v, v = Quoted(fields),
           NEW a, NEW b, a = QuotedEnd(fields, k - 1), b = QuotedBegin(fields, k)
    PROVE  /\ a \in Nat /\ b \in Nat /\ a <= b /\ b <= Len(v)
           /\ \A c \in a..(b - 1) : At(v, c) \in {SP, Semicolon}
           /\ WrittenAt(v, b, fields[k])
           /\ QuotedEnd(fields, k) = b + Len(fields[k].name) + Len(fields[k].value) + 3
<1> DEFINE g == QuotedParts(fields)
           f == fields[k]
           n == f.name
           u == f.value
           l == Len(n)
           m == Len(u)
           w == QuotedText(f)
           p == g[k]
           x == Len(p)
           s == <<Semicolon, SP>>
           i == k - 1
<1>1. g \in Seq(Seq(Char)) /\ Len(g) = Len(fields) /\ v = FlattenSeq(g) /\ v \in Texts
      /\ p = IF k = 1 THEN w ELSE s \o w
    BY QuotedType
<1>2. n \in Texts /\ u \in Texts
    <2>1. f \in PlainFields
        <3>. HIDE DEF PlainFields
        <3>. QED OBVIOUS
    <2>. QED BY <2>1 DEF PlainFields, AttributeFields, Fields
<1>3. /\ w \in Texts /\ l \in Nat /\ m \in Nat /\ Len(w) = l + m + 3
      /\ \A j \in 1..l : w[j] = n[j]
      /\ w[l + 1] = Equal /\ w[l + 2] = Quote
      /\ \A j \in 1..m : w[l + 2 + j] = u[j]
      /\ w[Len(w)] = Quote
    <2>1. Equal \in Char /\ Quote \in Char
        BY DEF Char, Equal, Quote
    <2>2. IsFramed(Framed(n, u, Equal, Quote, Quote), n, u, Equal, Quote, Quote)
        BY <1>2, <2>1, FramedAt
    <2>. QED BY <2>2 DEF IsFramed, QuotedText
<1>4. /\ a \in Nat /\ x \in Nat /\ QuotedEnd(fields, k) = a + x /\ a + x <= Len(v)
      /\ \A j \in 1..x : v[a + j] = p[j]
    <2>1. i \in 0..(Len(g) - 1) /\ i + 1 = k
        BY <1>1
    <2>. HIDE DEF i, Char, g
    <2>2. /\ Len(Upto(g, i)) \in Nat /\ Len(g[i + 1]) \in Nat
          /\ Len(Upto(g, i + 1)) = Len(Upto(g, i)) + Len(g[i + 1])
          /\ Len(Upto(g, i + 1)) <= Len(FlattenSeq(g))
          /\ \A j \in 1..Len(g[i + 1]) : FlattenSeq(g)[Len(Upto(g, i)) + j] = g[i + 1][j]
        BY <1>1, <2>1, UptoPiece
    <2>3. a = Len(Upto(g, i)) /\ QuotedEnd(fields, k) = Len(Upto(g, k))
        BY DEF QuotedEnd, g, i
    <2>. QED BY <1>1, <2>1, <2>2, <2>3
<1>5. Len(v) \in Nat
    BY <1>1 DEF Texts
<1>. HIDE DEF g, w, l, m, p, n, u, x
<1>6. ASSUME b \in Nat, b + l + m + 3 = a + x, \A j \in 1..Len(w) : v[b + j] = w[j]
      PROVE  WrittenAt(v, b, f) /\ QuotedEnd(fields, k) = b + Len(f.name) + Len(f.value) + 3
    <2>1. b + l + m + 3 <= Len(v)
        BY <1>4, <1>6
    <2>2. /\ \A j \in 1..l : j \in 1..Len(w)
          /\ l + 1 \in 1..Len(w) /\ l + 2 \in 1..Len(w)
          /\ \A j \in 1..m : l + 2 + j \in 1..Len(w)
          /\ Len(w) \in 1..Len(w)
        BY <1>3
    <2>3. \A j \in 1..l : v[b + j] = n[j]
        BY <1>3, <1>6, <2>2
    <2>4. v[b + (l + 1)] = Equal /\ v[b + (l + 2)] = Quote
        BY <1>3, <1>6, <2>2
    <2>5. ASSUME NEW j \in 1..m PROVE v[b + l + 2 + j] = u[j]
        <3>1. v[b + (l + 2 + j)] = u[j]
            BY <1>3, <1>6, <2>2
        <3>2. b + (l + 2 + j) = b + l + 2 + j
            BY <1>3, <1>6
        <3>. QED BY <3>1, <3>2
    <2>6. v[b + Len(w)] = Quote
        BY <1>3, <1>6, <2>2
    <2>7. b + (l + 1) = b + l + 1 /\ b + (l + 2) = b + l + 2 /\ b + Len(w) = b + l + m + 3
        <3> DEFINE y == Len(w)
        <3>1. y = l + m + 3 /\ l \in Nat /\ m \in Nat /\ b \in Nat
            BY <1>3, <1>6
        <3>. HIDE DEF y
        <3>2. b + (l + 1) = b + l + 1 /\ b + (l + 2) = b + l + 2 /\ b + y = b + l + m + 3
            BY <3>1
        <3>. QED BY <3>2 DEF y
    <2>8. WrittenAt(v, b, f)
        BY <2>1, <2>3, <2>4, <2>5, <2>6, <2>7 DEF WrittenAt, l, m, n, u
    <2>. QED BY <1>4, <1>6, <2>8 DEF l, m, n, u
<1>7. CASE k = 1
    <2>1. a = 0 /\ b = 0 /\ p = w
        <3>1. Upto(QuotedParts(fields), 0) = <<>>
            BY DEF Upto
        <3>2. QuotedEnd(fields, 0) = 0
            BY <3>1 DEF QuotedEnd
        <3>. QED BY <1>1, <1>7, <3>2 DEF QuotedBegin
    <2>2. b \in Nat /\ b + l + m + 3 = a + x
        BY <1>3, <2>1 DEF x
    <2>3. \A j \in 1..Len(w) : v[b + j] = w[j]
        BY <1>4, <2>1 DEF x
    <2>4. a \in Nat /\ a <= b /\ b <= Len(v) /\ \A c \in a..(b - 1) : At(v, c) \in {SP, Semicolon}
        BY <1>5, <2>1
    <2>5. WrittenAt(v, b, f) /\ QuotedEnd(fields, k) = b + Len(f.name) + Len(f.value) + 3
        BY <1>6, <2>2, <2>3
    <2>. QED BY <2>2, <2>4, <2>5
<1>8. CASE k # 1
    <2>1. b = a + 2 /\ p = s \o w
        BY <1>1, <1>8 DEF QuotedBegin
    <2>2. s \in Texts /\ Len(s) = 2 /\ s[1] = Semicolon /\ s[2] = SP
        BY DEF Texts, Char, Semicolon, SP
    <2>. HIDE DEF s
    <2>3. /\ Len(p) = Len(s) + Len(w)
          /\ \A j \in 1..Len(s) : p[j] = s[j]
          /\ \A j \in 1..Len(w) : p[Len(s) + j] = w[j]
        BY <1>3, <2>1, <2>2, JoinAt
    <2>4. x = 2 + Len(w) /\ b \in Nat /\ b + l + m + 3 = a + x
        <3>1. x = 2 + Len(w)
            BY <2>2, <2>3 DEF x
        <3> DEFINE y == Len(w)
        <3>2. y = l + m + 3 /\ l \in Nat /\ m \in Nat /\ a \in Nat /\ b = a + 2 /\ x = 2 + y
            BY <1>3, <1>4, <2>1, <3>1
        <3>. HIDE DEF y
        <3>3. b \in Nat /\ b + l + m + 3 = a + x
            BY <3>2
        <3>. QED BY <3>1, <3>3
    <2>5. \A j \in 1..Len(w) : v[b + j] = w[j]
        <3>1. SUFFICES ASSUME NEW j \in 1..Len(w) PROVE v[b + j] = w[j]
            OBVIOUS
        <3>2. Len(s) + j \in 1..x /\ a + (Len(s) + j) = b + j
            <4> DEFINE y == Len(w)
            <4>1. a \in Nat /\ y \in Nat /\ x = 2 + y /\ b = a + 2 /\ j \in 1..y
                BY <1>3, <1>4, <2>1, <2>4
            <4>. HIDE DEF y
            <4>2. 2 + j \in 1..x /\ a + (2 + j) = b + j
                BY <4>1
            <4>. QED BY <2>2, <4>2
        <3>3. p[Len(s) + j] = w[j]
            BY <2>3
        <3>. QED BY <1>4, <3>2, <3>3
    <2>6. \A c \in a..(b - 1) : At(v, c) \in {SP, Semicolon}
        <3>1. \A c \in a..(b - 1) : c = a \/ c = a + 1
            BY <1>4, <2>1
        <3>2. 1 \in 1..x /\ 2 \in 1..x /\ 1 \in 1..Len(s) /\ 2 \in 1..Len(s)
              /\ a + 1 + 1 = a + 2
            <4>1. Len(w) \in Nat /\ x = 2 + Len(w) /\ a \in Nat /\ Len(s) = 2
                BY <1>3, <1>4, <2>2, <2>4
            <4> DEFINE y == Len(w)
                       z == Len(s)
            <4>2. y \in Nat /\ x = 2 + y /\ z = 2
                BY <4>1
            <4>. HIDE DEF y, z
            <4>3. 1 \in 1..x /\ 2 \in 1..x /\ 1 \in 1..z /\ 2 \in 1..z
                BY <4>2
            <4>4. a + 1 + 1 = a + 2
                BY <4>1
            <4>. QED BY <4>3, <4>4 DEF z
        <3>3. v[a + 1] = Semicolon /\ v[a + 2] = SP
            BY <1>4, <2>2, <2>3, <3>2
        <3>4. At(v, a) = Semicolon /\ At(v, a + 1) = SP
            BY <3>2, <3>3 DEF At
        <3>. QED BY <3>1, <3>4
    <2>7. a <= b /\ b <= Len(v)
        <3> DEFINE L == Len(v)
        <3>1. a \in Nat /\ x \in Nat /\ a + x <= L /\ b = a + 2 /\ x = 2 + Len(w) /\ Len(w) \in Nat
              /\ L \in Nat
            BY <1>3, <1>4, <1>5, <2>1, <2>4
        <3>. HIDE DEF L
        <3>2. a <= b /\ b <= L
            BY <3>1
        <3>. QED BY <3>2 DEF L
    <2>. QED BY <1>4, <1>6, <2>4, <2>5, <2>6, <2>7
<1>. QED BY <1>7, <1>8

\* The scan finds one attribute after the other.
LEMMA QuotedScanned ==
    ASSUME NEW fields \in Seq(PlainFields), NEW v, v = Quoted(fields)
    PROVE  \A k \in 0..Len(fields) :
              AttributeScans(v)[QuotedEnd(fields, k)] = Between(SubSeq(fields, 1, k))
<1> DEFINE N == Len(fields)
           F(k) == SubSeq(fields, 1, k)
           g == AttributeScans(v)
           Good == {k \in Nat : k <= N => g[QuotedEnd(fields, k)] = Between(F(k))}
<1>1. v \in Texts /\ N \in Nat
    BY QuotedType
<1>2. 0 \in Good
    <2>1. Upto(QuotedParts(fields), 0) = <<>>
        BY DEF Upto
    <2>2. QuotedEnd(fields, 0) = 0
        BY <2>1 DEF QuotedEnd
    <2>3. F(0) = <<>>
        <3>. HIDE DEF PlainFields
        <3>. QED OBVIOUS
    <2>4. g[0] = Between(<<>>)
        BY <1>1, AttributeScansAre
    <2>. HIDE DEF F, g
    <2>. QED BY <2>2, <2>3, <2>4
<1>3. ASSUME NEW i \in Nat, i \in Good PROVE i + 1 \in Good
    <2> DEFINE k == i + 1
    <2>1. SUFFICES ASSUME k <= N PROVE g[QuotedEnd(fields, k)] = Between(F(k))
        OBVIOUS
    <2>2. k \in 1..N /\ k - 1 = i /\ i <= N /\ i \in 0..(N - 1)
        BY <1>1, <2>1
    <2>3. g[QuotedEnd(fields, i)] = Between(F(i))
        BY <1>3, <2>2
    <2>. HIDE DEF k, F
    <2> DEFINE a == QuotedEnd(fields, k - 1)
               b == QuotedBegin(fields, k)
               f == fields[k]
    <2>4. /\ a \in Nat /\ b \in Nat /\ a <= b /\ b <= Len(v)
          /\ \A c \in a..(b - 1) : At(v, c) \in {SP, Semicolon}
          /\ WrittenAt(v, b, f)
          /\ QuotedEnd(fields, k) = b + Len(f.name) + Len(f.value) + 3
        BY <2>2, QuotedPiece
    <2>5. f \in PlainFields
        <3>. HIDE DEF PlainFields
        <3>. QED BY <2>2
    <2>. HIDE DEF a, b
    <2>6. g[a] = Between(F(i))
        BY <2>2, <2>3 DEF a
    <2>7. g[b] = Between(F(i))
        <3> DEFINE s == Between(F(i))
        <3>1. \A c \in a..(b - 1) : c \in Nat
            BY <2>4
        <3>2. \A c \in a..(b - 1) : AttributeStep(v, s, c) = s
            BY <2>4, <3>1, StepBetween
        <3>. HIDE DEF s
        <3>3. AttributeScans(v)[b] = s
            <4>1. /\ v \in Texts /\ a \in Nat /\ b \in Nat /\ a <= b /\ b <= Len(v)
                  /\ AttributeScans(v)[a] = s
                  /\ \A c \in a..(b - 1) : AttributeStep(v, s, c) = s
                BY <1>1, <2>4, <2>6, <3>2 DEF s
            <4>. HIDE DEF N, f, Good, PlainFields
            <4>. QED BY <4>1, AttributeHolds
        <3>. QED BY <3>3 DEF s
    <2>8. g[b + Len(f.name) + Len(f.value) + 3] = Between(Append(F(i), f))
        <3>1. v \in Texts /\ b \in Nat /\ f \in PlainFields /\ WrittenAt(v, b, f)
              /\ AttributeScans(v)[b] = Between(F(i))
            BY <1>1, <2>4, <2>5, <2>7
        <3>. HIDE DEF N, f, Good, PlainFields, F
        <3>. QED BY <3>1, AttributeRead
    <2>9. Append(F(i), f) = F(k)
        <3>1. F(i) \o <<fields[i + 1]>> = F(i + 1)
            <4>1. i \in 0..(Len(fields) - 1)
                BY <2>2
            <4>. HIDE DEF PlainFields
            <4>. QED BY <4>1, BeginAppend DEF F
        <3>2. F(i) \in Seq(PlainFields)
            <4>1. i \in Nat /\ i <= Len(fields)
                BY <2>2
            <4>. HIDE DEF PlainFields
            <4>. QED BY <4>1 DEF F
        <3>3. Append(F(i), f) = F(i) \o <<f>>
            <4>. HIDE DEF PlainFields, F, f
            <4>. QED BY <2>5, <3>2, AppendIsConcat
        <3>. QED BY <3>1, <3>3 DEF k
    <2>. QED BY <2>4, <2>8, <2>9
<1>4. \A k \in Nat : k \in Good
    <2>. HIDE DEF Good
    <2>. QED BY <1>2, <1>3, Induction
<1>5. \A k \in 0..N : k \in Nat /\ k <= N
    BY <1>1
<1>. QED BY <1>4, <1>5

\* Attributes are read that were written.
LEMMA QuotedRead ==
    ASSUME NEW fields \in Seq(PlainFields)
    PROVE  AttributesParse(Quoted(fields)) = fields
<1> DEFINE v == Quoted(fields)
           N == Len(fields)
           s == AttributeScans(v)[Len(v)]
           full == <<Field(Substr(v, s.name, s.nameEnd - s.name),
                           Decode(Substr(v, s.value,
                                         IF Last(v) = Quote THEN Len(v) - 1 ELSE Npos)))>>
           bare == <<Field(From(v, s.name), <<>>)>>
           last == CASE s.name = Npos -> <<>>
                     [] s.name # Npos /\ s.nameEnd = Npos -> bare
                     [] s.nameEnd # Npos /\ s.value = Npos -> <<>>
                     [] s.value # Npos -> full
<1>1. AttributesParse(v) = s.fields \o last
    BY DEF AttributesParse, AttributeScans
<1>2. Len(v) = QuotedEnd(fields, N)
    <2>1. v = FlattenSeq(QuotedParts(fields)) /\ QuotedParts(fields) \in Seq(Seq(Char))
          /\ Len(QuotedParts(fields)) = N
        BY QuotedType
    <2>2. FlattenSeq(QuotedParts(fields)) = Upto(QuotedParts(fields), Len(QuotedParts(fields)))
        <3>. HIDE DEF Char, N, v
        <3>. QED BY <2>1, UptoIs
    <2>. QED BY <2>1, <2>2 DEF QuotedEnd
<1>3. s = Between(SubSeq(fields, 1, N))
    <2>1. N \in 0..N
        OBVIOUS
    <2>2. AttributeScans(v)[QuotedEnd(fields, N)] = Between(SubSeq(fields, 1, N))
        BY <2>1, QuotedScanned
    <2>. QED BY <1>2, <2>2
<1>4. SubSeq(fields, 1, N) = fields
    <2>. HIDE DEF PlainFields
    <2>. QED OBVIOUS
<1>. HIDE DEF s
<1>5. s.fields = fields /\ s.name = Npos /\ s.nameEnd = Npos /\ s.value = Npos
    BY <1>3, <1>4 DEF Between
<1>. HIDE DEF full, bare
<1>6. last = <<>>
    BY <1>5
<1>7. fields \o <<>> = fields
    <2>. HIDE DEF PlainFields
    <2>. QED BY ConcatEmptySeq
<1>. QED BY <1>1, <1>5, <1>6, <1>7

\* A name from the text.
LEMMA NameIs ==
    ASSUME NEW v \in Texts, NEW n \in Nat, NEW e \in (n + 1)..Len(v), NEW u \in Texts,
           At(v, n) \notin {SP, Semicolon}, \A k \in n..(e - 1) : At(v, k) # Semicolon
    PROVE  /\ Field(SubSeq(v, n + 1, e), u) \in AttributeFields
           /\ Substr(v, n, e - n) = SubSeq(v, n + 1, e)
<1> DEFINE p == SubSeq(v, n + 1, e)
           i == n + 1
<1>1. Len(v) \in Nat
    BY DEF Texts
<1>2. i \in Nat /\ i >= 1 /\ e \in Int /\ e <= Len(v) /\ i <= e /\ e - i + 1 >= 1 /\ i + 1 - 1 = i
      /\ 1 \in 1..(e - i + 1)
    BY <1>1
<1>3. p \in Texts /\ \A j \in 1..Len(p) : p[j] # Semicolon
    <2>1. ASSUME NEW k \in (n + 1)..e PROVE v[k] # Semicolon
        <3> DEFINE j == k - 1
        <3>1. j \in n..(e - 1) /\ j + 1 = k
            BY <1>1
        <3>. HIDE DEF j
        <3>. QED BY <3>1 DEF At
    <2>2. n \in Nat /\ e \in Int /\ e <= Len(v)
        BY <1>2
    <2>. QED BY <2>1, <2>2, PieceWithout
<1>. HIDE DEF i
<1>4. /\ Len(SubSeq(v, i, e)) = (IF i <= e THEN e - i + 1 ELSE 0)
      /\ \A k \in 1..(e - i + 1) : SubSeq(v, i, e)[k] = v[i + k - 1]
    BY <1>2, PieceType
<1>5. p = SubSeq(v, i, e)
    BY DEF i
<1>. HIDE DEF p
<1>6. Len(p) >= 1 /\ p[1] = v[n + 1]
    BY <1>2, <1>4, <1>5 DEF i
<1>7. p # <<>> /\ p[1] \notin {SP, Semicolon}
    BY <1>6 DEF At
<1>8. Field(p, u) \in AttributeFields
    <2>1. Field(p, u) \in Fields /\ Field(p, u).name = p
        <3>1. Field(p, u) \in Fields
            BY <1>3, OneField
        <3>. QED BY <3>1 DEF Field
    <2> DEFINE f == Field(p, u)
    <2>. HIDE DEF f
    <2>2. f \in Fields /\ f.name = p
        BY <2>1 DEF f
    <2>3. f \in AttributeFields
        <3>. HIDE DEF Fields
        <3>. QED BY <1>3, <1>7, <2>2 DEF AttributeFields
    <2>. QED BY <2>3 DEF f
<1>9. Substr(v, n, e - n) = SubSeq(v, n + 1, e)
    <2> DEFINE d == e - n
    <2>1. n <= Len(v) /\ d \in Int /\ d >= 0 /\ n + d = e /\ n + d <= Len(v)
        BY <1>1
    <2>. HIDE DEF d
    <2>2. Substr(v, n, d) = SubSeq(v, n + 1, n + d)
        BY <2>1, SubstrIs
    <2>. QED BY <2>1, <2>2 DEF d
<1>. QED BY <1>8, <1>9 DEF p

\* What a character makes of the scan, by what it is within.
LEMMA AttributeStepIs ==
    ASSUME NEW v \in Texts, NEW c \in Nat, NEW s \in Cuts(v)
    PROVE  LET t == AttributeStep(v, s, c)
               withName == Append(s.fields, Field(Substr(v, s.name, c - s.name), <<>>))
               withBoth == Append(s.fields, Field(Substr(v, s.name, s.nameEnd - s.name),
                                                  Decode(Substr(v, s.value, c - s.value))))
           IN  \/ t = s /\ (s.name # Npos /\ s.nameEnd = Npos => At(v, c) # Semicolon)
               \/ /\ s.name = Npos /\ At(v, c) \notin {SP, Semicolon}
                  /\ t = Within(s.fields, c, Npos, Npos)
               \/ /\ s.name # Npos /\ s.nameEnd = Npos
                  /\ t = Between(withName)
               \/ /\ s.name # Npos /\ s.nameEnd = Npos
                  /\ t = Within(s.fields, s.name, c, Npos)
               \/ /\ s.nameEnd # Npos
                  /\ t.fields = s.fields /\ t.name = s.name /\ t.nameEnd = s.nameEnd
               \/ /\ s.value # Npos
                  /\ t = Between(withBoth)
<1>1. /\ s = [fields |-> s.fields, name |-> s.name, nameEnd |-> s.nameEnd, value |-> s.value]
      /\ s.nameEnd # Npos => s.name # Npos
      /\ s.value # Npos => s.nameEnd # Npos
    BY DEF Cuts
<1> DEFINE begins == s.name = Npos /\ At(v, c) \notin {SP, Semicolon}
           bare == s.name # Npos /\ s.nameEnd = Npos /\ At(v, c) = Semicolon
           named == s.name # Npos /\ s.nameEnd = Npos /\ At(v, c) = Equal
           valued == s.nameEnd # Npos /\ s.value = Npos
           ends == s.value # Npos /\ At(v, c) \in {Quote, Semicolon}
           withName == Append(s.fields, Field(Substr(v, s.name, c - s.name), <<>>))
           withBoth == Append(s.fields, Field(Substr(v, s.name, s.nameEnd - s.name),
                                              Decode(Substr(v, s.value, c - s.value))))
           first == IF At(v, c) = Quote /\ c + 1 < Len(v) THEN c + 1 ELSE c
           t == AttributeStep(v, s, c)
<1>2. t = CASE begins -> [s EXCEPT !.name = c]
            [] bare -> [s EXCEPT !.name = Npos, !.fields = withName]
            [] named -> [s EXCEPT !.nameEnd = c]
            [] valued -> [s EXCEPT !.value = first]
            [] ends -> Between(withBoth)
            [] OTHER -> s
    BY DEF AttributeStep
<1>3. Equal # Semicolon
    BY DEF Equal, Semicolon
<1>4. CASE begins
    <2>1. ~bare /\ ~named /\ ~valued /\ ~ends
        BY <1>1, <1>4
    <2>2. t = [s EXCEPT !.name = c]
        <3>. HIDE DEF begins, bare, named, valued, ends, t
        <3>. QED BY <1>2, <1>4, <2>1
    <2>3. [s EXCEPT !.name = c] = Within(s.fields, c, Npos, Npos)
        BY <1>1, <1>4 DEF Within
    <2>. QED BY <1>4, <2>2, <2>3
<1>5. CASE bare
    <2>1. ~begins /\ ~named /\ ~valued /\ ~ends
        BY <1>1, <1>3, <1>5
    <2>2. t = [s EXCEPT !.name = Npos, !.fields = withName]
        <3>. HIDE DEF begins, bare, named, valued, ends, t, withName
        <3>. QED BY <1>2, <1>5, <2>1
    <2>3. t = [fields |-> withName, name |-> Npos, nameEnd |-> s.nameEnd, value |-> s.value]
        <3>. HIDE DEF t, withName
        <3>. QED BY <1>1, <2>2
    <2>4. t = Between(withName)
        <3>1. s.nameEnd = Npos /\ s.value = Npos
            BY <1>1, <1>5
        <3>. HIDE DEF t, withName
        <3>. QED BY <2>3, <3>1 DEF Between
    <2>. QED BY <1>5, <2>4
<1>6. CASE named
    <2>1. ~begins /\ ~bare /\ ~valued /\ ~ends
        BY <1>1, <1>3, <1>6
    <2>2. t = [s EXCEPT !.nameEnd = c]
        <3>. HIDE DEF begins, bare, named, valued, ends, t
        <3>. QED BY <1>2, <1>6, <2>1
    <2>3. [s EXCEPT !.nameEnd = c] = Within(s.fields, s.name, c, Npos)
        BY <1>1, <1>6 DEF Within
    <2>. QED BY <1>6, <2>2, <2>3
<1>7. CASE valued
    <2>1. ~begins /\ ~bare /\ ~named /\ ~ends
        BY <1>1, <1>7
    <2>2. t = [s EXCEPT !.value = first]
        <3>. HIDE DEF begins, bare, named, valued, ends, t, first
        <3>. QED BY <1>2, <1>7, <2>1
    <2>. HIDE DEF first, t
    <2>3. t.fields = s.fields /\ t.name = s.name /\ t.nameEnd = s.nameEnd
        BY <1>1, <2>2
    <2>. QED BY <1>7, <2>3 DEF t
<1>8. CASE ends
    <2>1. ~begins /\ ~bare /\ ~named /\ ~valued
        BY <1>1, <1>8
    <2>2. t = Between(withBoth)
        <3>. HIDE DEF begins, bare, named, valued, ends, t, withBoth
        <3>. QED BY <1>2, <1>8, <2>1
    <2>. QED BY <1>8, <2>2
<1>9. CASE ~begins /\ ~bare /\ ~named /\ ~valued /\ ~ends
    <2>1. t = s
        <3>. HIDE DEF begins, bare, named, valued, ends, t
        <3>. QED BY <1>2, <1>9
    <2>. QED BY <1>9, <2>1
<1>. QED BY <1>4, <1>5, <1>6, <1>7, <1>8, <1>9

\* What is so when i characters were scanned: the names that were found are
\* names, and the one that was begun may become one.
NamesScanned(v, i, s) ==
    /\ s.fields \in Seq(AttributeFields)
    /\ s.name # Npos =>
          LET e == IF s.nameEnd = Npos THEN i ELSE s.nameEnd IN
          /\ s.name \in Nat /\ e \in (s.name + 1)..i
          /\ At(v, s.name) \notin {SP, Semicolon}
          /\ \A k \in s.name..(e - 1) : At(v, k) # Semicolon

\* A character keeps it so.
LEMMA NamesStep ==
    ASSUME NEW v \in Texts, NEW i \in 1..Len(v), NEW s \in Cuts(v), NamesScanned(v, i - 1, s)
    PROVE  NamesScanned(v, i, AttributeStep(v, s, i - 1))
<1> DEFINE c == i - 1
           t == AttributeStep(v, s, c)
           withName == Append(s.fields, Field(Substr(v, s.name, c - s.name), <<>>))
           withBoth == Append(s.fields, Field(Substr(v, s.name, s.nameEnd - s.name),
                                              Decode(Substr(v, s.value, c - s.value))))
           e == IF s.nameEnd = Npos THEN c ELSE s.nameEnd
<1>1. /\ c \in Nat /\ c + 1 = i /\ i <= Len(v) /\ Len(v) \in Nat /\ c <= Len(v) /\ Npos = -1
      /\ i \in Nat
    BY DEF Texts, Npos
<1>2. /\ s.nameEnd # Npos => s.name # Npos
      /\ s.value # Npos => s.nameEnd # Npos
      /\ s.value \in 0..Len(v) \cup {Npos}
    BY DEF Cuts
<1>3. s.fields \in Seq(AttributeFields)
    BY DEF NamesScanned
<1>4. s.name # Npos => /\ s.name \in Nat /\ e \in (s.name + 1)..c
                       /\ At(v, s.name) \notin {SP, Semicolon}
                       /\ \A k \in s.name..(e - 1) : At(v, k) # Semicolon
    BY DEF NamesScanned
<1>5. \/ t = s /\ (s.name # Npos /\ s.nameEnd = Npos => At(v, c) # Semicolon)
      \/ s.name = Npos /\ At(v, c) \notin {SP, Semicolon} /\ t = Within(s.fields, c, Npos, Npos)
      \/ s.name # Npos /\ s.nameEnd = Npos /\ t = Between(withName)
      \/ s.name # Npos /\ s.nameEnd = Npos /\ t = Within(s.fields, s.name, c, Npos)
      \/ s.nameEnd # Npos /\ t.fields = s.fields /\ t.name = s.name /\ t.nameEnd = s.nameEnd
      \/ s.value # Npos /\ t = Between(withBoth)
    BY <1>1, AttributeStepIs
<1>. HIDE DEF c, t, withName, withBoth
<1>6. CASE t = s /\ (s.name # Npos /\ s.nameEnd = Npos => At(v, c) # Semicolon)
    <2>1. SUFFICES ASSUME s.name # Npos
                   PROVE  LET d == IF s.nameEnd = Npos THEN i ELSE s.nameEnd IN
                          /\ s.name \in Nat /\ d \in (s.name + 1)..i
                          /\ At(v, s.name) \notin {SP, Semicolon}
                          /\ \A k \in s.name..(d - 1) : At(v, k) # Semicolon
        BY <1>3, <1>6 DEF NamesScanned, t, c
    <2>2. CASE s.nameEnd = Npos
        <3>1. \A k \in s.name..(i - 1) : k \in s.name..(c - 1) \/ k = c
            BY <1>1, <1>4, <2>1
        <3>2. \A k \in s.name..(i - 1) : At(v, k) # Semicolon
            BY <1>4, <1>6, <2>1, <2>2, <3>1
        <3>3. s.name \in Nat /\ i \in (s.name + 1)..i
            BY <1>1, <1>4, <2>1, <2>2
        <3>. QED BY <1>4, <2>1, <2>2, <3>2, <3>3
    <2>3. CASE s.nameEnd # Npos
        <3>1. s.nameEnd \in (s.name + 1)..i /\ s.name \in Nat
            BY <1>1, <1>4, <2>1, <2>3
        <3>. QED BY <1>4, <2>1, <2>3, <3>1
    <2>. QED BY <2>2, <2>3
<1>7. CASE s.name = Npos /\ At(v, c) \notin {SP, Semicolon} /\ t = Within(s.fields, c, Npos, Npos)
    <2>1. t.fields = s.fields /\ t.name = c /\ t.nameEnd = Npos
        BY <1>7 DEF Within
    <2>2. i \in (c + 1)..i /\ \A k \in c..(i - 1) : k = c
        BY <1>1
    <2>3. At(v, c) # Semicolon
        BY <1>7
    <2>4. NamesScanned(v, i, t)
        BY <1>1, <1>3, <1>7, <2>1, <2>2, <2>3 DEF NamesScanned
    <2>. QED BY <2>4 DEF t, c
<1>8. CASE s.name # Npos /\ s.nameEnd = Npos /\ t = Between(withName)
    <2> DEFINE n == s.name
    <2>1. n \in Nat /\ c \in (n + 1)..Len(v) /\ At(v, n) \notin {SP, Semicolon}
          /\ \A k \in n..(c - 1) : At(v, k) # Semicolon
        BY <1>1, <1>4, <1>8
    <2>. HIDE DEF n
    <2>2. /\ Field(SubSeq(v, n + 1, c), <<>>) \in AttributeFields
          /\ Substr(v, n, c - n) = SubSeq(v, n + 1, c)
        BY <2>1, NoText, NameIs
    <2>3. withName \in Seq(AttributeFields)
        <3>1. Field(Substr(v, n, c - n), <<>>) \in AttributeFields
            BY <2>2
        <3>. HIDE DEF AttributeFields
        <3>. QED BY <1>3, <3>1, AppendProperties DEF withName, n
    <2>4. t.fields = withName /\ t.name = Npos
        BY <1>8 DEF Between
    <2>5. NamesScanned(v, i, t)
        BY <2>3, <2>4 DEF NamesScanned
    <2>. QED BY <2>5 DEF t, c
<1>9. CASE s.name # Npos /\ s.nameEnd = Npos /\ t = Within(s.fields, s.name, c, Npos)
    <2>1. t.fields = s.fields /\ t.name = s.name /\ t.nameEnd = c
        BY <1>9 DEF Within
    <2>2. c # Npos /\ s.name \in Nat /\ c \in (s.name + 1)..i
        BY <1>1, <1>4, <1>9
    <2>3. NamesScanned(v, i, t)
        BY <1>3, <1>4, <1>9, <2>1, <2>2 DEF NamesScanned
    <2>. QED BY <2>3 DEF t, c
<1>10. CASE s.nameEnd # Npos /\ t.fields = s.fields /\ t.name = s.name /\ t.nameEnd = s.nameEnd
    <2>1. s.name # Npos
        BY <1>2, <1>10
    <2>2. s.nameEnd \in (s.name + 1)..i /\ s.name \in Nat
        BY <1>1, <1>4, <1>10, <2>1
    <2>3. NamesScanned(v, i, t)
        BY <1>3, <1>4, <1>10, <2>1, <2>2 DEF NamesScanned
    <2>. QED BY <2>3 DEF t, c
<1>11. CASE s.value # Npos /\ t = Between(withBoth)
    <2> DEFINE n == s.name
               d == s.nameEnd
               u == Decode(Substr(v, s.value, c - s.value))
    <2>1. n \in Nat /\ d \in (n + 1)..Len(v) /\ At(v, n) \notin {SP, Semicolon}
          /\ \A k \in n..(d - 1) : At(v, k) # Semicolon
        BY <1>1, <1>2, <1>4, <1>11
    <2>2. u \in Texts
        <3>1. s.value \in Nat /\ s.value <= Len(v) /\ c - s.value \in Int
            BY <1>1, <1>2, <1>11
        <3> DEFINE x == Substr(v, s.value, c - s.value)
        <3>2. x \in Texts
            BY <3>1, SubstrType
        <3>. HIDE DEF x
        <3>3. Decode(x) \in Texts
            BY <3>2, DecodeType
        <3>. QED BY <3>3 DEF x
    <2>. HIDE DEF n, d, u
    <2>3. /\ Field(SubSeq(v, n + 1, d), u) \in AttributeFields
          /\ Substr(v, n, d - n) = SubSeq(v, n + 1, d)
        BY <2>1, <2>2, NameIs
    <2>4. withBoth \in Seq(AttributeFields)
        <3>1. Field(Substr(v, n, d - n), u) \in AttributeFields
            BY <2>3
        <3>. HIDE DEF AttributeFields
        <3>. QED BY <1>3, <3>1, AppendProperties DEF withBoth, n, d, u
    <2>5. t.fields = withBoth /\ t.name = Npos
        BY <1>11 DEF Between
    <2>6. NamesScanned(v, i, t)
        BY <2>4, <2>5 DEF NamesScanned
    <2>. QED BY <2>6 DEF t, c
<1>. QED BY <1>5, <1>6, <1>7, <1>8, <1>9, <1>10, <1>11

\* When all characters were scanned it is so.
LEMMA NamesAllScanned ==
    ASSUME NEW v \in Texts
    PROVE  NamesScanned(v, Len(v), AttributeScans(v)[Len(v)])
<1>1. Len(v) \in Nat
    BY DEF Texts
<1> DEFINE Good == {i \in Nat : i <= Len(v) => NamesScanned(v, i, AttributeScans(v)[i])}
<1>2. 0 \in Good
    <2> DEFINE s == Between(<<>>)
    <2>1. s.fields = <<>> /\ s.name = Npos
        BY DEF Between
    <2>. HIDE DEF s
    <2>2. NamesScanned(v, 0, s)
        <3>1. s.fields \in Seq(AttributeFields)
            <4>. HIDE DEF AttributeFields
            <4>. QED BY <2>1
        <3>. QED BY <2>1, <3>1 DEF NamesScanned
    <2>3. AttributeScans(v)[0] = s
        BY AttributeScansAre DEF s
    <2>. QED BY <2>2, <2>3
<1>3. ASSUME NEW i \in Nat, i \in Good PROVE i + 1 \in Good
    <2>1. SUFFICES ASSUME i + 1 <= Len(v)
                   PROVE  NamesScanned(v, i + 1, AttributeScans(v)[i + 1])
        OBVIOUS
    <2> DEFINE j == i + 1
    <2>2. j \in 1..Len(v) /\ j - 1 = i /\ i <= Len(v) /\ i \in 0..Len(v)
        BY <1>1, <2>1
    <2>3. NamesScanned(v, i, AttributeScans(v)[i])
        BY <1>3, <2>2
    <2>. HIDE DEF j
    <2>4. AttributeScans(v)[j] = AttributeStep(v, AttributeScans(v)[j - 1], j - 1)
          /\ AttributeScans(v)[j - 1] \in Cuts(v)
        BY <2>2, AttributeScansAre
    <2>5. NamesScanned(v, j - 1, AttributeScans(v)[j - 1])
        BY <2>2, <2>3
    <2>6. NamesScanned(v, j, AttributeScans(v)[j])
        BY <2>2, <2>4, <2>5, NamesStep
    <2>. QED BY <2>6 DEF j
<1>4. Len(v) \in Good
    <2>. HIDE DEF Good
    <2>. QED BY <1>1, <1>2, <1>3, Induction
<1>. QED BY <1>1, <1>4

\* The attributes in a text have names that begin with neither a blank nor a
\* semicolon, and hold no semicolon.
LEMMA AttributesParseNamed ==
    ASSUME NEW v \in Texts
    PROVE  AttributesParse(v) \in Seq(AttributeFields)
<1> DEFINE s == AttributeScans(v)[Len(v)]
           n == s.name
           e == IF s.nameEnd = Npos THEN Len(v) ELSE s.nameEnd
           toEnd == IF Last(v) = Quote THEN Len(v) - 1 ELSE Npos
           bare == <<Field(From(v, n), <<>>)>>
           full == <<Field(Substr(v, n, s.nameEnd - n), Decode(Substr(v, s.value, toEnd)))>>
           last == CASE n = Npos -> <<>>
                     [] n # Npos /\ s.nameEnd = Npos -> bare
                     [] s.nameEnd # Npos /\ s.value = Npos -> <<>>
                     [] s.value # Npos -> full
<1>1. AttributesParse(v) = s.fields \o last
    BY DEF AttributesParse, AttributeScans
<1>2. Len(v) \in Nat /\ Len(v) \in 0..Len(v) /\ Npos = -1
    BY DEF Texts, Npos
<1>3. s \in Cuts(v) /\ NamesScanned(v, Len(v), s)
    BY <1>2, AttributeScansAre, NamesAllScanned
<1>. HIDE DEF s
<1>4. /\ s.value \in 0..Len(v) \cup {Npos}
      /\ s.nameEnd # Npos => n # Npos
      /\ s.value # Npos => s.nameEnd # Npos
    BY <1>3 DEF Cuts
<1>5. s.fields \in Seq(AttributeFields)
    BY <1>3 DEF NamesScanned
<1>6. n # Npos => /\ n \in Nat /\ e \in (n + 1)..Len(v) /\ At(v, n) \notin {SP, Semicolon}
                  /\ \A k \in n..(e - 1) : At(v, k) # Semicolon
    BY <1>3 DEF NamesScanned
<1>7. \A u \in Texts : n # Npos => /\ Field(SubSeq(v, n + 1, e), u) \in AttributeFields
                                   /\ Substr(v, n, e - n) = SubSeq(v, n + 1, e)
    <2>. HIDE DEF n, e, AttributeFields
    <2>. QED BY <1>6, NameIs
<1>8. \A f \in AttributeFields : <<f>> \in Seq(AttributeFields)
    <2>. HIDE DEF AttributeFields
    <2>. QED OBVIOUS
<1>9. n # Npos /\ s.nameEnd = Npos => bare \in Seq(AttributeFields)
    <2>1. SUFFICES ASSUME n # Npos, s.nameEnd = Npos PROVE bare \in Seq(AttributeFields)
        OBVIOUS
    <2>2. n \in Nat /\ n <= Len(v) /\ e = Len(v)
        BY <1>2, <1>6, <2>1
    <2>. HIDE DEF n, AttributeFields
    <2>3. From(v, n) = SubSeq(v, n + 1, Len(v))
        BY <1>2, <2>2, SubstrIs DEF From
    <2>4. Field(From(v, n), <<>>) \in AttributeFields
        <3>. HIDE DEF e
        <3>. QED BY <1>7, <2>1, <2>2, <2>3, NoText
    <2>. QED BY <1>8, <2>4 DEF bare
<1>10. s.value # Npos => full \in Seq(AttributeFields)
    <2>1. SUFFICES ASSUME s.value # Npos PROVE full \in Seq(AttributeFields)
        OBVIOUS
    <2> DEFINE u == Decode(Substr(v, s.value, toEnd))
    <2>2. n # Npos /\ e = s.nameEnd
        BY <1>4, <2>1
    <2>3. u \in Texts
        <3>1. s.value \in Nat /\ s.value <= Len(v) /\ toEnd \in Int
            BY <1>2, <1>4, <2>1
        <3>. HIDE DEF toEnd
        <3>. QED BY <3>1, SubstrType, DecodeType
    <2>. HIDE DEF u, n, e, AttributeFields
    <2>4. Field(Substr(v, n, s.nameEnd - n), u) \in AttributeFields
        BY <1>7, <2>2, <2>3
    <2>. QED BY <1>8, <2>4 DEF full, u
<1>. HIDE DEF bare, full, n, AttributeFields
<1>11. last \in Seq(AttributeFields)
    <2>1. CASE n = Npos
        BY <1>4, <2>1
    <2>2. CASE n # Npos /\ s.nameEnd = Npos
        BY <1>4, <1>9, <2>2
    <2>3. CASE s.nameEnd # Npos /\ s.value = Npos
        BY <1>4, <2>3
    <2>4. CASE s.value # Npos
        BY <1>4, <1>10, <2>4
    <2>. QED BY <2>1, <2>2, <2>3, <2>4
<1>. HIDE DEF last
<1>. QED BY <1>1, <1>5, <1>11, ConcatProperties

\* AttributesRoundTrip, of any text.
LEMMA AttributesReadAgain ==
    ASSUME text \in Texts
    PROVE  AttributesRoundTrip
<1> DEFINE fields == AttributesParse(text)
           plain(f) == /\ Equal \notin ToSet(f.name)
                       /\ ToSet(f.value) \cap {Quote, Semicolon, Percent, Plus} = {}
<1>1. fields \in Seq(AttributeFields)
    BY AttributesParseNamed
<1>2. \A f \in AttributeFields : plain(f) => f \in PlainFields
    <2>1. SUFFICES ASSUME NEW f \in AttributeFields, plain(f) PROVE f \in PlainFields
        OBVIOUS
    <2>2. f.name \in Texts /\ f.value \in Texts
        BY DEF AttributeFields, Fields
    <2>3. DOMAIN f.name = 1..Len(f.name) /\ DOMAIN f.value = 1..Len(f.value)
        BY <2>2 DEF Texts
    <2>4. \A j \in 1..Len(f.name) : f.name[j] # Equal
        BY <2>1, <2>3 DEF ToSet
    <2>5. \A j \in 1..Len(f.value) : f.value[j] \notin {Quote, Semicolon, Percent, Plus}
        BY <2>1, <2>3 DEF ToSet
    <2>. QED BY <2>4, <2>5 DEF PlainFields
<1>. HIDE DEF fields, plain
<1>3. (\A i \in 1..Len(fields) : plain(fields[i])) => AttributesParse(Quoted(fields)) = fields
    <2>1. SUFFICES ASSUME \A i \in 1..Len(fields) : plain(fields[i])
                   PROVE  AttributesParse(Quoted(fields)) = fields
        OBVIOUS
    <2>2. Len(fields) \in Nat /\ \A i \in 1..Len(fields) : fields[i] \in AttributeFields
        <3>. HIDE DEF AttributeFields
        <3>. QED BY <1>1
    <2>3. \A i \in 1..Len(fields) : fields[i] \in PlainFields
        BY <1>2, <2>1, <2>2
    <2>4. fields \in Seq(PlainFields)
        <3>. HIDE DEF AttributeFields, PlainFields
        <3>. QED BY <1>1, <2>2, <2>3
    <2>. QED BY <2>4, QuotedRead
<1>4. AttributesRoundTrip <=> (form = "attributes" =>
          ((\A i \in 1..Len(fields) : plain(fields[i]))
              => AttributesParse(Quoted(fields)) = fields))
    BY DEF AttributesRoundTrip, fields, plain
<1>. QED BY <1>3, <1>4

-----------------------------------------------------------------------------

TextInv == form \in Forms /\ text \in Texts

\* Text appended to text is text.
LEMMA TextIsText == Growth => []TextInv
<1>1. Empty => TextInv
    BY NoText DEF Empty, TextInv
<1>2. TextInv /\ [Grow]_textVars => TextInv'
    <2>1. SUFFICES ASSUME TextInv, [Grow]_textVars PROVE TextInv'
        OBVIOUS
    <2>2. CASE Grow
        <3>1. PICK t \in Tokens[form] : text' = text \o t
            BY <2>2 DEF Grow
        <3>2. t \in Seq(Char)
            BY <2>1, TokensAssumption DEF TextInv, Char
        <3>3. text' \in Texts
            BY <2>1, <3>1, <3>2, ConcatProperties DEF TextInv, Texts
        <3>4. form' = form
            BY <2>2 DEF Grow
        <3>. QED BY <2>1, <3>3, <3>4 DEF TextInv
    <2>3. CASE UNCHANGED textVars
        BY <2>1, <2>3 DEF TextInv, textVars
    <2>. QED BY <2>1, <2>2, <2>3
<1>. QED BY <1>1, <1>2, PTL DEF Growth

\* Fields that hold texts are whole.
LEMMA WholeFields ==
    ASSUME NEW f \in Seq(Fields)
    PROVE  \A i \in 1..Len(f) : Thrown \notin {f[i].name, f[i].value}
<1>1. SUFFICES ASSUME NEW i \in 1..Len(f) PROVE Thrown \notin {f[i].name, f[i].value}
    OBVIOUS
<1>2. f[i] \in Fields
    <2>. HIDE DEF Fields
    <2>. QED OBVIOUS
<1>3. f[i].name \in Texts /\ f[i].value \in Texts
    BY <1>2 DEF Fields
<1>. QED BY <1>3, ThrownIsNoText

\* No text that a client or a server sends makes a parser throw, which would
\* end the process: every substr of the parsers begins within its text.
THEOREM ParsersNeverThrow == Growth => []NeverThrows
<1>1. TextInv => NeverThrows
    <2>1. SUFFICES ASSUME TextInv PROVE NeverThrows
        OBVIOUS
    <2>2. text \in Texts
        BY <2>1 DEF TextInv
    <2> DEFINE whole(fields) ==
                   \A i \in 1..Len(fields) : Thrown \notin {fields[i].name, fields[i].value}
    <2>3. \A f \in Seq(Fields) : whole(f)
        BY WholeFields
    <2>. HIDE DEF whole
    <2>4. whole(QueryParse(text))
        BY <2>2, <2>3, QueryParseType
    <2>5. whole(HeaderParse(text))
        BY <2>2, <2>3, HeaderParseType
    <2>6. whole(AttributesParse(text))
        BY <2>2, <2>3, AttributesParseType
    <2>7. RequestParse(text).ok =>
              /\ Thrown \notin {RequestParse(text).method, RequestParse(text).path,
                                RequestParse(text).query, RequestParse(text).version}
              /\ whole(RequestParse(text).header)
        BY <2>2, <2>3, RequestParseType, ThrownIsNoText
    <2>8. StatusParse(text).ok =>
              /\ Thrown \notin {StatusParse(text).version, StatusParse(text).status}
              /\ whole(StatusParse(text).header)
        BY <2>2, <2>3, StatusParseType, ThrownIsNoText
    <2>. QED BY <2>4, <2>5, <2>6, <2>7, <2>8 DEF NeverThrows, whole
<1>. QED BY <1>1, TextIsText, PTL

\* The end that the client's match condition finds is where a blank line ends,
\* and without a doubled carriage return it is the first.
THEOREM HeadEndFound == Growth => []HeadEndIsBlankLine
<1>1. TextInv => HeadEndIsBlankLine
    BY HeadEndCorrect DEF TextInv
<1>. QED BY <1>1, TextIsText, PTL

\* What is taken apart is what was there: a query string is split at its
\* ampersands and its fields at their last equals signs, and the parts of an
\* accepted request or status line make up the line.
THEOREM PartsMakeUpTheText == Growth => []TakenApart
<1>1. TextInv => TakenApart
    <2>1. SUFFICES ASSUME TextInv PROVE TakenApart
        OBVIOUS
    <2>2. text \in Texts
        BY <2>1 DEF TextInv
    <2>3. QueryIsSplit
        BY <2>2, QueryWhole
    <2>4. RequestIsLine
        BY <2>2, RequestWhole
    <2>5. StatusIsLine
        BY <2>2, StatusWhole
    <2>. QED BY <2>3, <2>4, <2>5 DEF TakenApart
<1>. QED BY <1>1, TextIsText, PTL

\* What is written is read again as it was: a text that was encoded, the fields
\* of a query string, of a header, and the attributes in a field's value.
THEOREM ReadingUndoesWriting == Growth => []RoundTrip
<1>1. TextInv => RoundTrip
    <2>1. SUFFICES ASSUME TextInv PROVE RoundTrip
        OBVIOUS
    <2>2. text \in Texts
        BY <2>1 DEF TextInv
    <2>3. PercentInverse
        BY <2>2, DecodeEncode DEF PercentInverse
    <2>. QED BY <2>2, <2>3, QueryReadAgain, HeaderReadAgain, AttributesReadAgain DEF RoundTrip
<1>. QED BY <1>1, TextIsText, PTL

-----------------------------------------------------------------------------
(* ScopeRunner: the counter counts, nobody is inside once stop has         *)
(* returned, and the counter implements the gate.                          *)

\* The threads inside are as many as the counter says, none when it is
\* negative; it is negative once stop has returned somewhere.  What stop
\* expects is 0.
IInv ==
    /\ TypeOK
    /\ IsFiniteSet(Inside)
    /\ Counted
    /\ count < 0 => Inside = {}
    /\ \A t \in Threads : pc[t] = "stopped" => count = -1
    /\ \A t \in Threads : pc[t] = "stop" => expected[t] = 0

\* One goes in: there is one more inside.
LEMMA EnterCounts ==
    ASSUME NEW t \in Threads, TypeOK, IsFiniteSet(Inside), pc[t] # "inside",
           pc' = [pc EXCEPT ![t] = "inside"]
    PROVE  /\ Inside' = Inside \cup {t}
           /\ IsFiniteSet(Inside')
           /\ Cardinality(Inside') = Cardinality(Inside) + 1
<1>1. Inside' = Inside \cup {t}  BY DEF TypeOK, Inside
<1>2. t \notin Inside  BY DEF Inside
<1>3. QED  BY <1>1, <1>2, FS_AddElement

\* One comes out: there is one less inside.
LEMMA LeaveCounts ==
    ASSUME NEW t \in Threads, TypeOK, IsFiniteSet(Inside), pc[t] = "inside",
           pc' = [pc EXCEPT ![t] = "out"]
    PROVE  /\ Inside' = Inside \ {t}
           /\ IsFiniteSet(Inside')
           /\ Cardinality(Inside') = Cardinality(Inside) - 1
<1>1. Inside' = Inside \ {t}  BY DEF TypeOK, Inside
<1>2. t \in Inside  BY DEF Inside
<1>3. QED  BY <1>1, <1>2, FS_RemoveElement

\* Who moves between the other places changes nothing about those inside.
LEMMA ElsewhereCounts ==
    ASSUME NEW t \in Threads, TypeOK, pc[t] # "inside", NEW p \in Places, p # "inside",
           pc' = [pc EXCEPT ![t] = p]
    PROVE  Inside' = Inside
BY DEF TypeOK, Inside

\* A counter that is not negative is a number of threads.
LEMMA SomeInside ==
    ASSUME IInv, count >= 0
    PROVE  /\ count = Cardinality(Inside)
           /\ count = 0 <=> Inside = {}
<1>1. count = Cardinality(Inside)  BY DEF IInv, TypeOK, Counted
<1>2. Cardinality(Inside) = 0 <=> Inside = {}  BY FS_EmptySet DEF IInv
<1>3. QED  BY <1>1, <1>2

\* The invariant holds at the start.
LEMMA InitInv == Init => IInv
<1> SUFFICES ASSUME Init PROVE IInv  OBVIOUS
<1>1. Inside = {}  BY DEF Init, Inside
<1>2. IsFiniteSet(Inside) /\ Cardinality(Inside) = 0  BY <1>1, FS_EmptySet
<1>3. TypeOK  BY DEF Init, TypeOK, Places
<1>4. QED  BY <1>1, <1>2, <1>3 DEF Init, IInv, Counted

\* Every step preserves the invariant.
LEMMA NextInv == IInv /\ [Next]_vars => IInv'
<1> SUFFICES ASSUME IInv, [Next]_vars PROVE IInv'  OBVIOUS
<1> USE DEF IInv
<1>1. CASE UNCHANGED vars
  <2>1. Inside' = Inside  BY <1>1 DEF Inside, vars
  <2>2. QED  BY <1>1, <2>1 DEF vars, TypeOK, Counted
<1>2. ASSUME NEW t \in Threads, LoadCount(t) PROVE IInv'
  <2>1. Inside' = Inside  BY <1>2, ElsewhereCounts DEF LoadCount, Places
  <2>2. TypeOK'  BY <1>2 DEF LoadCount, TypeOK, Places
  <2>3. QED  BY <1>2, <2>1, <2>2 DEF LoadCount, TypeOK, Counted
<1>3. ASSUME NEW t \in Threads, Enter(t) PROVE IInv'
  <2>1. count >= 0 /\ count' = count + 1 /\ count = Cardinality(Inside)
    BY <1>3, SomeInside DEF Enter, TypeOK
  <2>2. IsFiniteSet(Inside') /\ Cardinality(Inside') = Cardinality(Inside) + 1
    BY <1>3, EnterCounts DEF Enter
  <2>3. TypeOK'  BY <1>3, <2>1 DEF Enter, TypeOK, Places
  <2>4. \A u \in Threads : pc[u] # "stopped"  BY <2>1 DEF TypeOK
  <2>5. QED  BY <1>3, <2>1, <2>2, <2>3, <2>4 DEF Enter, TypeOK, Counted
<1>4. ASSUME NEW t \in Threads, EnterFails(t) PROVE IInv'
  <2>1. Inside' = Inside  BY <1>4 DEF EnterFails, Inside
  <2>2. QED  BY <1>4, <2>1 DEF EnterFails, TypeOK, Counted
<1>5. ASSUME NEW t \in Threads, Refused(t) PROVE IInv'
  <2>1. Inside' = Inside  BY <1>5, ElsewhereCounts DEF Refused, Places
  <2>2. TypeOK'  BY <1>5 DEF Refused, TypeOK, Places
  <2>3. QED  BY <1>5, <2>1, <2>2 DEF Refused, TypeOK, Counted
<1>6. ASSUME NEW t \in Threads, Leave(t) PROVE IInv'
  <2>1. t \in Inside  BY <1>6 DEF Leave, Inside
  <2>2. count > 0 /\ count' = count - 1 /\ count = Cardinality(Inside)
    BY <1>6, <2>1, SomeInside DEF Leave, TypeOK
  <2>3. IsFiniteSet(Inside') /\ Cardinality(Inside') = Cardinality(Inside) - 1
    BY <1>6, LeaveCounts DEF Leave
  <2>4. TypeOK'  BY <1>6, <2>2 DEF Leave, TypeOK, Places
  <2>5. \A u \in Threads : pc[u] # "stopped"  BY <2>2 DEF TypeOK
  <2>6. QED  BY <1>6, <2>2, <2>3, <2>4, <2>5 DEF Leave, TypeOK, Counted
<1>7. ASSUME NEW t \in Threads, StopBegin(t) PROVE IInv'
  <2>1. Inside' = Inside  BY <1>7, ElsewhereCounts DEF StopBegin, Places
  <2>2. TypeOK'  BY <1>7 DEF StopBegin, TypeOK, Places
  <2>3. QED  BY <1>7, <2>1, <2>2 DEF StopBegin, TypeOK, Counted
<1>8. ASSUME NEW t \in Threads, StopFails(t) PROVE IInv'
  <2>1. Inside' = Inside  BY <1>8 DEF StopFails, Inside
  <2>2. QED  BY <1>8, <2>1 DEF StopFails, TypeOK, Counted
<1>9. ASSUME NEW t \in Threads, Stop(t) PROVE IInv'
  <2>1. count = 0 /\ Inside = {}  BY <1>9, SomeInside DEF Stop, TypeOK
  <2>2. Inside' = {}  BY <1>9, <2>1, ElsewhereCounts DEF Stop, Places
  <2>3. IsFiniteSet(Inside')  BY <2>2, FS_EmptySet
  <2>4. TypeOK'  BY <1>9 DEF Stop, TypeOK, Places
  <2>5. QED  BY <1>9, <2>2, <2>3, <2>4 DEF Stop, TypeOK, Counted
<1>10. ASSUME NEW t \in Threads, StopAgain(t) PROVE IInv'
  <2>1. Inside' = Inside  BY <1>10, ElsewhereCounts DEF StopAgain, Places
  <2>2. TypeOK'  BY <1>10 DEF StopAgain, TypeOK, Places
  <2>3. count = -1  BY <1>10 DEF StopAgain, TypeOK
  <2>4. QED  BY <1>10, <2>1, <2>2, <2>3 DEF StopAgain, TypeOK, Counted
<1>11. QED
  BY <1>1, <1>2, <1>3, <1>4, <1>5, <1>6, <1>7, <1>8, <1>9, <1>10 DEF Next

\* So the invariant holds throughout.
LEMMA Invariance == Spec => []IInv
BY InitInv, NextInv, PTL DEF Spec

\* No interleaving of loads, exchanges and releases makes the counter differ
\* from the number of locks held.
THEOREM CountCorrect == Spec => []Counted
<1>1. IInv => Counted  BY DEF IInv
<1>2. QED  BY <1>1, Invariance, PTL

\* Once stop has returned no handler is inside, for any number of threads.
THEOREM NobodyInsideAfterStop == Spec => []StoppedMeansEmpty
<1>1. IInv => StoppedMeansEmpty  BY DEF IInv, TypeOK, StoppedMeansEmpty
<1>2. QED  BY <1>1, Invariance, PTL

\* The counter is right, with its type, whatever the threads do.
THEOREM CounterCorrect == Spec => []CounterInv
<1>1. IInv => TypeOK  BY DEF IInv
<1>2. QED  BY <1>1, Invariance, CountCorrect, NobodyInsideAfterStop, PTL DEF CounterInv

\* Every behaviour of the counter is one of the gate.
THEOREM RunnerImplementsGate == Spec => ImplementsGate
<1>1. Init => Outer!Init  BY DEF Init, Outer!Init, Inside
<1>2. IInv /\ [Next]_vars => [Outer!Next]_(Outer!vars)
  <2> SUFFICES ASSUME IInv, [Next]_vars PROVE [Outer!Next]_(Outer!vars)  OBVIOUS
  <2> USE DEF IInv, Outer!vars
  <2>1. CASE UNCHANGED vars
    BY <2>1 DEF vars, Inside
  <2>2. ASSUME NEW t \in Threads, LoadCount(t) \/ Refused(t) \/ StopBegin(t)
        PROVE  [Outer!Next]_(Outer!vars)
    BY <2>2, ElsewhereCounts DEF LoadCount, Refused, StopBegin, Places
  <2>3. ASSUME NEW t \in Threads, EnterFails(t) \/ StopFails(t)
        PROVE  [Outer!Next]_(Outer!vars)
    BY <2>3 DEF EnterFails, StopFails, Inside
  <2>4. ASSUME NEW t \in Threads, Enter(t) PROVE [Outer!Next]_(Outer!vars)
    <3>1. Inside' = Inside \cup {t} /\ t \notin Inside
      BY <2>4, EnterCounts DEF Enter, Inside
    <3>2. ~(count = -1) /\ ~(count' = -1)  BY <2>4 DEF Enter, TypeOK
    <3>3. Outer!Enter(t)  BY <3>1, <3>2 DEF Outer!Enter
    <3>4. QED  BY <3>3 DEF Outer!Next
  <2>5. ASSUME NEW t \in Threads, Leave(t) PROVE [Outer!Next]_(Outer!vars)
    <3>1. Inside' = Inside \ {t} /\ t \in Inside
      BY <2>5, LeaveCounts DEF Leave, Inside
    <3>2. count > 0  BY <3>1, SomeInside DEF TypeOK
    <3>3. ~(count = -1) /\ ~(count' = -1)  BY <2>5, <3>2 DEF Leave, TypeOK
    <3>4. Outer!Leave(t)  BY <3>1, <3>3 DEF Outer!Leave
    <3>5. QED  BY <3>4 DEF Outer!Next
  <2>6. ASSUME NEW t \in Threads, Stop(t) PROVE [Outer!Next]_(Outer!vars)
    <3>1. count = 0 /\ Inside = {}  BY <2>6, SomeInside DEF Stop, TypeOK
    <3>2. Inside' = Inside  BY <2>6, ElsewhereCounts DEF Stop, Places
    <3>3. Outer!Shut  BY <2>6, <3>1, <3>2 DEF Stop, Outer!Shut
    <3>4. QED  BY <3>3 DEF Outer!Next
  <2>7. ASSUME NEW t \in Threads, StopAgain(t) PROVE [Outer!Next]_(Outer!vars)
    BY <2>7, ElsewhereCounts DEF StopAgain, Places
  <2>8. QED  BY <2>1, <2>2, <2>3, <2>4, <2>5, <2>6, <2>7 DEF Next
<1>3. QED  BY <1>1, <1>2, Invariance, PTL DEF Spec, ImplementsGate, Outer!Spec
===============================================================================
