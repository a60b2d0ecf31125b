-------------------------- MODULE StaticFiles_proofs --------------------------
(* For any files and connections, and the one thread of the gateway: what    *)
(* clients receive, and how much of a file is held.                         *)
EXTENDS StaticFiles, Integers, FiniteSetTheorems, SequenceTheorems, WellFoundedInduction, TLAPS

-----------------------------------------------------------------------------
(* Recursive functions.  There is no induction over an operator here; over *)
(* a set of numbers there is, for finite sets of them are well-founded.    *)

\* Among numbers there is a least one.
LEMMA LeastElement ==
    ASSUME NEW T, T \subseteq Nat, T # {}
    PROVE  \E n \in T : \A m \in T : n <= m
<1> DEFINE Below(n) == 0..n
           Cuts == {Below(n) : n \in T}
<1>1. Cuts # {}
    OBVIOUS
<1>2. Cuts \subseteq FiniteSubsetsOf(Nat)
    <2>1. SUFFICES ASSUME NEW n \in T PROVE Below(n) \in FiniteSubsetsOf(Nat)
        OBVIOUS
    <2>2. n \in Nat
        OBVIOUS
    <2>3. IsFiniteSet(0..n)
        BY <2>2, FS_Interval
    <2>4. 0..n \in SUBSET Nat
        BY <2>2
    <2>. QED BY <2>3, <2>4 DEF FiniteSubsetsOf
<1>3. PICK x \in Cuts : \A y \in Cuts : ~ (<<y, x>> \in StrictSubsetOrdering(Nat))
    <2>. HIDE DEF Cuts
    <2>. QED BY <1>1, <1>2, FS_StrictSubsetOrderingWellFounded, WFMin
<1>4. PICK n \in T : x = Below(n)
    OBVIOUS
<1>5. \A m \in T : n <= m
    <2>1. SUFFICES ASSUME NEW m \in T, m < n PROVE FALSE
        OBVIOUS
    <2>2. m \in Nat /\ n \in Nat
        OBVIOUS
    <2>3. 0..m \subseteq 0..n /\ 0..m # 0..n
        BY <2>1, <2>2
    <2>4. <<0..m, 0..n>> \in (SUBSET Nat) \X (SUBSET Nat)
        BY <2>2
    <2>5. <<0..m, 0..n>> \in StrictSubsetOrdering(Nat)
        BY <2>3, <2>4 DEF StrictSubsetOrdering
    <2>. QED BY <2>5, <1>3, <1>4
<1>. QED BY <1>5

\* A set of numbers that holds 0, and with a number the next, holds all.
LEMMA Induction ==
    ASSUME NEW T, 0 \in T, \A n \in Nat : n \in T => n + 1 \in T
    PROVE  \A n \in Nat : n \in T
<1>1. SUFFICES ASSUME Nat \ T # {} PROVE FALSE
    OBVIOUS
<1>2. PICK n \in Nat \ T : \A m \in Nat \ T : n <= m
    BY <1>1, LeastElement
<1>3. n # 0 /\ n \in Nat
    OBVIOUS
<1>4. n - 1 \in Nat
    BY <1>3
<1>5. n - 1 \in T
    <2>1. ~ (n <= n - 1)
        BY <1>3
    <2>. QED BY <1>2, <1>4, <2>1
<1>6. n - 1 + 1 = n
    BY <1>3
<1>. QED BY <1>4, <1>5, <1>6

-----------------------------------------------------------------------------
(* FlattenSeq, of the community modules.                                   *)

\* The equation of its recursive function, which joins ever more of s.
Step(f, s) == [i \in 1..Len(s) |-> IF i = 1 THEN s[i] ELSE f[i-1] \o s[i]]

Sums(s) == CHOOSE f : f = Step(f, s)

\* There is such a function.
LEMMA SumsExist ==
    ASSUME NEW S, NEW s \in Seq(S)
    PROVE  Sums(s) = Step(Sums(s), s)
<1> DEFINE Upto(n, f) == [i \in 1..n |-> IF i = 1 THEN s[i] ELSE f[i-1] \o s[i]]
           Good == {n \in Nat : \E f : f = Upto(n, f)}
<1>1. 0 \in Good
    <2>. DEFINE e == [i \in {} |-> 0]
    <2>1. 1..0 = {}
        OBVIOUS
    <2>2. e = [i \in {} |-> IF i = 1 THEN s[i] ELSE e[i-1] \o s[i]]
        OBVIOUS
    <2>3. e = Upto(0, e)
        BY <2>1, <2>2
    <2>. QED BY <2>3
<1>2. ASSUME NEW n \in Nat, n \in Good PROVE n + 1 \in Good
    <2>1. PICK f : f = Upto(n, f)
        BY <1>2
    <2> DEFINE g == Upto(n + 1, f)
               h == Upto(n + 1, g)
    <2>2. \A i \in 1..n : Upto(n, f)[i] = IF i = 1 THEN s[i] ELSE f[i-1] \o s[i]
        OBVIOUS
    <2>3. \A i \in 1..(n + 1) : g[i] = IF i = 1 THEN s[i] ELSE f[i-1] \o s[i]
        OBVIOUS
    <2>4. \A i \in 1..(n + 1) : h[i] = IF i = 1 THEN s[i] ELSE g[i-1] \o s[i]
        OBVIOUS
    <2>5. /\ g = [i \in 1..(n + 1) |-> g[i]]
          /\ h = [i \in 1..(n + 1) |-> h[i]]
        OBVIOUS
    <2>. HIDE DEF Upto
    <2>6. \A i \in 1..n : f[i] = g[i]
        <3>1. \A i \in 1..n : i \in 1..(n + 1)
            OBVIOUS
        <3>. HIDE DEF g
        <3>. QED BY <2>1, <2>2, <2>3, <3>1
    <2>. HIDE DEF g, h
    <2>7. \A i \in 1..(n + 1) : g[i] = h[i]
        <3>1. \A i \in 1..(n + 1) : i # 1 => i - 1 \in 1..n
            OBVIOUS
        <3>. QED BY <2>3, <2>4, <2>6, <3>1
    <2>8. g = h
        BY <2>5, <2>7
    <2>. QED BY <2>8 DEF h
<1>3. Len(s) \in Good
    <2>. HIDE DEF Good
    <2>. QED BY <1>1, <1>2, Induction
<1>4. \E f : f = Step(f, s)
    BY <1>3 DEF Step
<1>. QED BY <1>4 DEF Sums

\* FlattenSeq is its last value,
LEMMA FlattenSums ==
    ASSUME NEW S, NEW s \in Seq(S), s # <<>>
    PROVE  FlattenSeq(s) = Sums(s)[Len(s)]
BY DEF FlattenSeq, Step, Sums

\* and each value comes from the one before.
LEMMA SumsAt ==
    ASSUME NEW S, NEW s \in Seq(S), NEW i \in 1..Len(s)
    PROVE  Sums(s)[i] = IF i = 1 THEN s[i] ELSE Sums(s)[i-1] \o s[i]
BY SumsExist DEF Step

\* Nothing makes up nothing,
LEMMA FlattenEmpty == FlattenSeq(<<>>) = <<>>
BY DEF FlattenSeq

\* one part makes up itself,
LEMMA FlattenOne ==
    ASSUME NEW S, NEW x \in S
    PROVE  FlattenSeq(<<x>>) = x
<1> DEFINE s == <<x>>
<1>1. s \in Seq(S) /\ s # <<>> /\ Len(s) = 1 /\ s[1] = x
    OBVIOUS
<1>. HIDE DEF s
<1>2. FlattenSeq(s) = Sums(s)[Len(s)]
    BY <1>1, FlattenSums
<1>3. \A i \in 1..Len(s) : Sums(s)[i] = IF i = 1 THEN s[i] ELSE Sums(s)[i-1] \o s[i]
    BY <1>1, SumsAt
<1>4. FlattenSeq(s) = x
    BY <1>1, <1>2, <1>3
<1>. QED BY <1>4 DEF s

\* another part comes at the end,
LEMMA FlattenAppend ==
    ASSUME NEW S, NEW s \in Seq(Seq(S)), NEW x \in Seq(S)
    PROVE  FlattenSeq(Append(s, x)) = FlattenSeq(s) \o x
<1>1. CASE s = <<>>
    <2>1. Append(s, x) = <<x>> /\ <<>> \o x = x
        BY <1>1
    <2>. QED BY <1>1, <2>1, FlattenOne, FlattenEmpty
<1>2. CASE s # <<>>
    <2> DEFINE t == Append(s, x)
    <2>1. /\ t \in Seq(Seq(S)) /\ t # <<>> /\ Len(t) = Len(s) + 1
          /\ t[Len(s) + 1] = x
          /\ \A i \in 1..Len(s) : t[i] = s[i]
        BY AppendProperties
    <2>2. Len(s) \in Nat \ {0}
        BY <1>2
    <2>. HIDE DEF t
    <2> DEFINE Same == {n \in Nat : n \in 1..Len(s) => Sums(t)[n] = Sums(s)[n]}
    <2>3. 0 \in Same
        OBVIOUS
    <2>4. ASSUME NEW n \in Nat, n \in Same PROVE n + 1 \in Same
        <3>1. SUFFICES ASSUME n + 1 \in 1..Len(s) PROVE Sums(t)[n + 1] = Sums(s)[n + 1]
            OBVIOUS
        <3>2. n + 1 \in 1..Len(t) /\ t[n + 1] = s[n + 1] /\ n + 1 - 1 = n
            BY <2>1, <2>2, <3>1
        <3>3. Sums(s)[n + 1] = IF n + 1 = 1 THEN s[n + 1] ELSE Sums(s)[n] \o s[n + 1]
            BY <3>1, <3>2, SumsAt
        <3>4. Sums(t)[n + 1] = IF n + 1 = 1 THEN t[n + 1] ELSE Sums(t)[n] \o t[n + 1]
            BY <2>1, <3>2, SumsAt
        <3>5. n + 1 # 1 => n \in 1..Len(s)
            BY <3>1, <2>2
        <3>. QED BY <2>4, <3>2, <3>3, <3>4, <3>5
    <2>5. Len(s) \in Same
        <3>. HIDE DEF Same
        <3>. QED BY <2>2, <2>3, <2>4, Induction
    <2>6. Sums(t)[Len(s)] = Sums(s)[Len(s)]
        BY <2>2, <2>5
    <2>7. Sums(t)[Len(s) + 1] = Sums(t)[Len(s)] \o x
        <3> DEFINE k == Len(s) + 1
        <3>1. k \in 1..Len(t) /\ k # 1 /\ k - 1 = Len(s) /\ t[k] = x
            BY <2>1, <2>2
        <3>. HIDE DEF k
        <3>2. Sums(t)[k] = IF k = 1 THEN t[k] ELSE Sums(t)[k-1] \o t[k]
            BY <2>1, <3>1, SumsAt
        <3>3. Sums(t)[k] = Sums(t)[Len(s)] \o x
            BY <3>1, <3>2
        <3>. QED BY <3>3 DEF k
    <2>8. FlattenSeq(s) = Sums(s)[Len(s)] /\ FlattenSeq(t) = Sums(t)[Len(t)]
        BY <1>2, <2>1, FlattenSums
    <2>. QED BY <2>1, <2>6, <2>7, <2>8 DEF t
<1>. QED BY <1>1, <1>2

\* and parts from a set make up a sequence over it.
LEMMA FlattenType ==
    ASSUME NEW S, NEW s \in Seq(Seq(S))
    PROVE  FlattenSeq(s) \in Seq(S)
<1>1. CASE s = <<>>
    BY <1>1, FlattenEmpty, EmptySeq
<1>2. CASE s # <<>>
    <2>1. Len(s) \in Nat \ {0}
        BY <1>2
    <2> DEFINE Typed == {n \in Nat : n \in 1..Len(s) => Sums(s)[n] \in Seq(S)}
    <2>2. 0 \in Typed
        OBVIOUS
    <2>3. ASSUME NEW n \in Nat, n \in Typed PROVE n + 1 \in Typed
        <3>1. SUFFICES ASSUME n + 1 \in 1..Len(s) PROVE Sums(s)[n + 1] \in Seq(S)
            OBVIOUS
        <3>2. n + 1 - 1 = n /\ s[n + 1] \in Seq(S)
            BY <3>1
        <3>3. Sums(s)[n + 1] = IF n + 1 = 1 THEN s[n + 1] ELSE Sums(s)[n] \o s[n + 1]
            BY <3>1, <3>2, SumsAt
        <3>4. n + 1 # 1 => n \in 1..Len(s)
            BY <3>1, <2>1
        <3>5. n + 1 # 1 => Sums(s)[n] \in Seq(S)
            BY <2>3, <3>4
        <3>. HIDE DEF Typed
        <3>. QED BY <3>2, <3>3, <3>5
    <2>4. Len(s) \in Typed
        <3>. HIDE DEF Typed
        <3>. QED BY <2>1, <2>2, <2>3, Induction
    <2>. QED BY <1>2, <2>1, <2>4, FlattenSums
<1>. QED BY <1>1, <1>2

-----------------------------------------------------------------------------
(* The inductive invariant.                                                *)

\* All that is owed to a client that has asked for the files of s.
All(s) == FlattenSeq([i \in 1..Len(s) |-> Answer(s[i])])

\* The blocks of f from block p on.
Left(f, p) == [i \in 1..(Size(f) + 1 - p) |-> [file |-> f, block |-> p + i - 1]]

\* Sequences of parts with no block, and with one at most.
NoBlock(s) == \A i \in 1..Len(s) : s[i].block = 0

OneBlock(s) == \A i, j \in 1..Len(s) : s[i].block > 0 /\ s[j].block > 0 => i = j

\* t is s and something more.
Begins(s, t) == \E u \in Seq(Parts) : t = s \o u

Idle(c) == stream[c] = <<>> /\ received[c] = All(asked[c])

\* The handler is about to read block position[c] of the file.
Reading(c) ==
    /\ position[c] \in 1..(Size(File(c)) + 1)
    /\ NoBlock(stream[c])
    /\ (received[c] \o stream[c]) \o Left(File(c), position[c]) = All(asked[c])

\* A whole block waits in the queue, and the file may have more.
Waiting(c) ==
    /\ position[c] \in 1..(Size(File(c)) + 1)
    /\ Len(queue[c]) = 1
    /\ stream[c] = <<>>
    /\ OneBlock(queue[c][1])
    /\ (received[c] \o queue[c][1]) \o Left(File(c), position[c]) = All(asked[c])

\* All that is missing is in the stream.
Closing(c) == OneBlock(stream[c]) /\ received[c] \o stream[c] = All(asked[c])

\* What has arrived is a beginning of it.
Cut(c) == OneBlock(stream[c]) /\ Begins(received[c], All(asked[c]))

\* By stage, where the parts are that are owed to the client of c.
Phase(c) ==
    /\ stage[c] \in {"read", "copy", "return", "send"} => asked[c] # <<>>
    /\ stage[c] \in {"idle", "read", "copy", "final", "gone"} => queue[c] = <<>>
    /\ stage[c] = "idle" => Idle(c)
    /\ stage[c] = "read" => Reading(c)
    /\ stage[c] = "copy" =>
          /\ Reading(c)
          /\ position[c] <= Size(File(c))
          /\ shared = [file |-> File(c), block |-> position[c]]
    /\ stage[c] = "return" => Waiting(c) \/ (queue[c] = <<>> /\ Closing(c))
    /\ stage[c] = "send" => Waiting(c)
    /\ stage[c] = "final" => Cut(c) /\ (shut[c] \/ Closing(c))
    /\ stage[c] = "gone" => Cut(c)

\* One thread is in one handler.
OneHandler == \A c, d \in Handled : c = d

\* The inductive invariant: nothing that is owed is lost or added, and the
\* shared buffer belongs to the handler between its read and its copy.
IInv == TypeOK /\ OneHandler /\ (\A c \in Conns : Phase(c))

-----------------------------------------------------------------------------
(* Files and answers as sequences.                                         *)

\* Files have finitely many blocks,
LEMMA SizeType ==
    ASSUME NEW f \in Files
    PROVE  Size(f) \in Nat
BY FilesAssumption DEF Size

\* what is left of one is a sequence of parts,
LEMMA LeftType ==
    ASSUME NEW f \in Files, NEW p \in 1..(Size(f) + 1)
    PROVE  Left(f, p) \in Seq(Parts)
<1>1. Size(f) + 1 - p \in Nat
    BY SizeType
<1>2. \A i \in 1..(Size(f) + 1 - p) : [file |-> f, block |-> p + i - 1] \in Parts
    BY SizeType DEF Parts
<1>. QED BY <1>1, <1>2 DEF Left

\* which is empty beyond its end,
LEMMA LeftNone ==
    ASSUME NEW f \in Files, NEW p \in 1..(Size(f) + 1), p > Size(f)
    PROVE  Left(f, p) = <<>>
<1>1. 1..(Size(f) + 1 - p) = {}
    BY SizeType
<1>. QED BY <1>1, SizeType, LeftType DEF Left

\* and otherwise begins with the next block.
LEMMA LeftNext ==
    ASSUME NEW f \in Files, NEW p \in 1..Size(f)
    PROVE  Left(f, p) = <<[file |-> f, block |-> p]>> \o Left(f, p + 1)
<1> DEFINE n == Size(f) - p
           one == <<[file |-> f, block |-> p]>>
           all == one \o Left(f, p + 1)
<1>1. /\ Size(f) \in Nat /\ n \in Nat
      /\ Size(f) + 1 - p = n + 1 /\ Size(f) + 1 - (p + 1) = n
      /\ p \in 1..(Size(f) + 1) /\ p + 1 \in 1..(Size(f) + 1)
    BY SizeType
<1>2. /\ one \in Seq(Parts) /\ Len(one) = 1 /\ one[1] = [file |-> f, block |-> p]
    BY DEF Parts
<1>3. Left(f, p) \in Seq(Parts) /\ Left(f, p + 1) \in Seq(Parts)
    BY <1>1, LeftType
<1>4. Len(Left(f, p)) = n + 1 /\ Len(Left(f, p + 1)) = n
    BY <1>1 DEF Left
<1>5. \A i \in 1..(n + 1) : Left(f, p)[i] = [file |-> f, block |-> p + i - 1]
    BY <1>1 DEF Left
<1>6. \A i \in 1..n : Left(f, p + 1)[i] = [file |-> f, block |-> p + i]
    <2>1. \A i \in 1..n : p + 1 + i - 1 = p + i
        BY <1>1
    <2>. QED BY <1>1, <2>1 DEF Left
<1>. HIDE DEF one
<1>7. /\ all \in Seq(Parts) /\ Len(all) = n + 1
      /\ \A i \in 1..(n + 1) : all[i] = IF i <= 1 THEN one[i] ELSE Left(f, p + 1)[i - 1]
    <2> DEFINE rest == Left(f, p + 1)
    <2>1. 1 + n = n + 1 /\ rest \in Seq(Parts) /\ Len(rest) = n
        BY <1>1, <1>3, <1>4
    <2>. HIDE DEF rest, n
    <2>2. /\ one \o rest \in Seq(Parts)
          /\ Len(one \o rest) = Len(one) + Len(rest)
          /\ \A i \in 1..(Len(one) + Len(rest)) :
                (one \o rest)[i] = IF i <= Len(one) THEN one[i] ELSE rest[i - Len(one)]
        BY <1>2, <2>1, ConcatProperties
    <2>. QED BY <1>2, <2>1, <2>2 DEF rest
<1>8. \A i \in 1..(n + 1) : Left(f, p)[i] = all[i]
    <2>. TAKE i \in 1..(n + 1)
    <2>1. CASE i = 1
        <3>1. p + i - 1 = p /\ i <= 1
            BY <2>1
        <3>. QED BY <2>1, <3>1, <1>2, <1>5, <1>7
    <2>2. CASE i # 1
        <3>1. i - 1 \in 1..n /\ p + (i - 1) = p + i - 1 /\ ~ (i <= 1)
            BY <1>1, <2>2
        <3>. QED BY <3>1, <1>5, <1>6, <1>7
    <2>. QED BY <2>1, <2>2
<1>. HIDE DEF all
<1>9. Left(f, p) = all
    BY <1>3, <1>4, <1>7, <1>8, SeqEqual
<1>. QED BY <1>9 DEF all, one

\* An answer is a head and then the whole file.
LEMMA AnswerIs ==
    ASSUME NEW f \in Files
    PROVE  /\ Answer(f) = <<[file |-> f, block |-> 0]>> \o Left(f, 1)
           /\ <<[file |-> f, block |-> 0]>> \in Seq(Parts)
           /\ Left(f, 1) \in Seq(Parts)
           /\ Answer(f) \in Seq(Parts)
<1>1. Size(f) \in Nat /\ 1 \in 1..(Size(f) + 1) /\ Size(f) + 1 - 1 = Size(f)
    BY SizeType
<1>2. Left(f, 1) = [i \in 1..Size(f) |-> [file |-> f, block |-> i]]
    <2>1. \A i \in 1..Size(f) : 1 + i - 1 = i
        OBVIOUS
    <2>. QED BY <1>1, <2>1 DEF Left
<1>3. <<[file |-> f, block |-> 0]>> \in Seq(Parts)
    BY DEF Parts
<1>4. Left(f, 1) \in Seq(Parts)
    BY <1>1, LeftType
<1>5. Answer(f) = <<[file |-> f, block |-> 0]>> \o Left(f, 1)
    BY <1>2 DEF Answer
<1>. QED BY <1>3, <1>4, <1>5, ConcatProperties

\* What is owed is a sequence of parts,
LEMMA AllType ==
    ASSUME NEW s \in Seq(Files)
    PROVE  All(s) \in Seq(Parts)
<1>1. [i \in 1..Len(s) |-> Answer(s[i])] \in Seq(Seq(Parts))
    <2>1. \A i \in 1..Len(s) : s[i] \in Files
        OBVIOUS
    <2>2. \A i \in 1..Len(s) : Answer(s[i]) \in Seq(Parts)
        BY <2>1, AnswerIs
    <2>. QED BY <2>2
<1>. QED BY <1>1, FlattenType DEF All

\* nothing at first,
LEMMA AllEmpty == All(<<>>) = <<>>
<1>1. [i \in 1..Len(<<>>) |-> Answer(<<>>[i])] = <<>>
    OBVIOUS
<1>. QED BY <1>1, FlattenEmpty DEF All

\* and another request adds its answer.
LEMMA AllAppend ==
    ASSUME NEW s \in Seq(Files), NEW f \in Files
    PROVE  All(Append(s, f)) = All(s) \o Answer(f)
<1> DEFINE t == Append(s, f)
           few == [i \in 1..Len(s) |-> Answer(s[i])]
           many == [i \in 1..Len(t) |-> Answer(t[i])]
<1>1. /\ t \in Seq(Files) /\ Len(t) = Len(s) + 1 /\ t[Len(s) + 1] = f
      /\ \A i \in 1..Len(s) : t[i] = s[i]
    BY AppendProperties
<1>. HIDE DEF t
<1>2. few \in Seq(Seq(Parts)) /\ Answer(f) \in Seq(Parts) /\ many \in Seq(Seq(Parts))
    <2>1. \A g \in Files : Answer(g) \in Seq(Parts)
        BY AnswerIs
    <2>2. \A i \in 1..Len(s) : s[i] \in Files
        OBVIOUS
    <2>3. \A i \in 1..Len(t) : t[i] \in Files
        BY <1>1
    <2>4. Len(s) \in Nat /\ Len(t) \in Nat
        BY <1>1
    <2>. QED BY <2>1, <2>2, <2>3, <2>4
<1>3. Len(few) = Len(s) /\ Len(many) = Len(s) + 1
    BY <1>1
<1>4. /\ \A i \in 1..Len(s) : many[i] = few[i]
      /\ many[Len(s) + 1] = Answer(f)
    BY <1>1
<1>. HIDE DEF few, many
<1>5. many = Append(few, Answer(f))
    <2> DEFINE more == Append(few, Answer(f))
    <2>1. /\ more \in Seq(Seq(Parts)) /\ Len(more) = Len(few) + 1
          /\ more[Len(few) + 1] = Answer(f)
          /\ \A i \in 1..Len(few) : more[i] = few[i]
        BY <1>2, AppendProperties
    <2>. HIDE DEF more
    <2>2. \A i \in 1..Len(many) : many[i] = more[i]
        <3>1. \A i \in 1..Len(many) : i \in 1..Len(s) \/ i = Len(s) + 1
            BY <1>3
        <3>. QED BY <1>3, <1>4, <2>1, <3>1
    <2>3. many = more
        BY <1>2, <1>3, <2>1, <2>2, SeqEqual
    <2>. QED BY <2>3 DEF more
<1>6. FlattenSeq(many) = FlattenSeq(few) \o Answer(f)
    BY <1>2, <1>5, FlattenAppend
<1>. QED BY <1>6 DEF All, few, many, t

\* A beginning is a prefix in the sense of the property.
LEMMA BeginsPrefix ==
    ASSUME NEW s \in Seq(Parts), NEW t \in Seq(Parts), Begins(s, t)
    PROVE  IsPrefix(s, t)
<1>1. PICK u \in Seq(Parts) : t = s \o u
    BY DEF Begins
<1>2. Len(t) = Len(s) + Len(u) /\ Len(s) \in Nat /\ Len(u) \in Nat
    BY <1>1
<1>3. SubSeq(s, 1, Len(s)) = SubSeq(t, 1, Len(s))
    BY <1>1
<1>. QED BY <1>2, <1>3 DEF IsPrefix

-----------------------------------------------------------------------------
(* Handlers.                                                               *)

\* The server of the gateway has the one thread that config has by default
\* (src/http/server_http.hpp); the static buffer is not safe with more.
SingleThread == Threads = 1

\* A completion handler starts when no other runs.
LEMMA NobodyHandles ==
    ASSUME SingleThread, OneHandler, ThreadFree
    PROVE  Handled = {}
<1>1. SUFFICES ASSUME NEW c \in Handled PROVE FALSE
    OBVIOUS
<1>2. Handled = {c}
    BY DEF OneHandler
<1>3. Cardinality(Handled) = 1
    BY <1>2, FS_Singleton
<1>. QED BY <1>3 DEF ThreadFree, SingleThread

\* The stages of a running handler.
Busy == {"read", "copy", "return"}

\* A step leaves the connection alone.
Same(d) ==
    /\ asked'[d] = asked[d] /\ stage'[d] = stage[d] /\ position'[d] = position[d]
    /\ stream'[d] = stream[d] /\ queue'[d] = queue[d] /\ received'[d] = received[d]
    /\ shut'[d] = shut[d]

\* A connection that is left alone stays as it was, unless somebody else took
\* the buffer from it.
LEMMA Elsewhere ==
    ASSUME NEW c \in Conns, NEW d \in Conns, Phase(d), Same(d),
           shared' = shared \/ stage[d] # "copy"
    PROVE  Phase(d)'
<1>1. File(d)' = File(d)
    BY DEF Same, File
<1>2. /\ Idle(d)' <=> Idle(d)
      /\ Reading(d)' <=> Reading(d)
      /\ Waiting(d)' <=> Waiting(d)
      /\ Closing(d)' <=> Closing(d)
      /\ Cut(d)' <=> Cut(d)
    BY <1>1 DEF Same, Idle, Reading, Waiting, Closing, Cut
<1>3. stage[d] = "copy" => shared' = shared
    OBVIOUS
<1>. QED BY <1>1, <1>2, <1>3 DEF Same, Phase

\* One step of c: the others are left alone, and only c's handler may have the buffer.
Local(c) ==
    /\ \A d \in Conns : d # c => Same(d)
    /\ shared' = shared \/ stage[c] \in Busy

\* So a step of c needs a look at c only.
LEMMA LocalStep ==
    ASSUME IInv, NEW c \in Conns, Local(c), Phase(c)', TypeOK',
           stage'[c] \in Busy => stage[c] \in Busy \/ Handled = {}
    PROVE  IInv'
<1>1. \A d \in Conns : d \in Handled <=> stage[d] \in Busy
    BY DEF Handled, Busy
<1>2. \A d \in Conns : d \in Handled' <=> stage'[d] \in Busy
    BY DEF Handled, Busy
<1>3. \A d \in Conns : d # c => (d \in Handled' <=> d \in Handled)
    BY <1>1, <1>2 DEF Local, Same
<1>4. c \in Handled' => c \in Handled \/ Handled = {}
    BY <1>1, <1>2
<1>5. Handled \subseteq Conns /\ Handled' \subseteq Conns
    BY DEF Handled
<1>6. OneHandler'
    <2>1. \A d, e \in Handled : d = e
        BY DEF IInv, OneHandler
    <2>2. SUFFICES ASSUME NEW d \in Handled', NEW e \in Handled' PROVE d = e
        BY DEF OneHandler
    <2>. QED BY <1>3, <1>4, <1>5, <2>1
<1>7. ASSUME NEW d \in Conns, d # c PROVE Phase(d)'
    <2>1. Phase(d) /\ Same(d)
        BY <1>7 DEF IInv, Local
    <2>2. shared' = shared \/ stage[d] # "copy"
        <3>1. SUFFICES ASSUME shared' # shared, stage[d] = "copy" PROVE FALSE
            OBVIOUS
        <3>2. c \in Handled /\ d \in Handled
            BY <1>1, <3>1 DEF Local, Busy
        <3>. QED BY <1>7, <3>2 DEF IInv, OneHandler
    <2>. QED BY <2>1, <2>2, Elsewhere
<1>. QED BY <1>6, <1>7 DEF IInv

-----------------------------------------------------------------------------
(* Each action.                                                            *)

\* A new request adds its answer to what is owed, and its head to the stream.
LEMMA BeginStep ==
    ASSUME SingleThread, IInv, NEW c \in Conns, NEW f \in Files, Begin(c, f)
    PROVE  IInv'
<1> DEFINE head == <<[file |-> f, block |-> 0]>>
<1>1. TypeOK /\ Phase(c) /\ stage[c] = "idle" /\ Handled = {}
    BY NobodyHandles DEF IInv, Begin
<1>2. /\ asked[c] \in Seq(Files) /\ received[c] \in Seq(Parts)
      /\ received[c] = All(asked[c]) /\ queue[c] = <<>>
    BY <1>1 DEF TypeOK, Phase, Idle
<1>3. /\ asked'[c] = Append(asked[c], f) /\ stage'[c] = "read" /\ position'[c] = 1
      /\ stream'[c] = head /\ queue'[c] = <<>> /\ received'[c] = received[c]
    BY <1>1, <1>2 DEF Begin, TypeOK
<1>4. /\ asked'[c] \in Seq(Files) /\ asked'[c] # <<>>
      /\ File(c)' = f
    BY <1>2, <1>3, AppendProperties DEF File, Last
<1>5. Reading(c)'
    <2>1. 1 \in 1..(Size(f) + 1)
        BY SizeType
    <2>2. NoBlock(head)
        BY DEF NoBlock
    <2>3. All(asked'[c]) = All(asked[c]) \o Answer(f)
        BY <1>2, <1>3, AllAppend
    <2>4. (received[c] \o head) \o Left(f, 1) = received[c] \o (head \o Left(f, 1))
        <3>. HIDE DEF head
        <3>. QED BY <1>2, AnswerIs, ConcatAssociative DEF head
    <2>5. (received[c] \o head) \o Left(f, 1) = All(asked'[c])
        BY <1>2, <2>3, <2>4, AnswerIs
    <2>. HIDE DEF head
    <2>. QED BY <1>3, <1>4, <2>1, <2>2, <2>5 DEF Reading
<1>6. Phase(c)'
    BY <1>3, <1>4, <1>5 DEF Phase
<1>7. TypeOK'
    <2>1. head \in Seq(Parts)
        BY AnswerIs
    <2>. HIDE DEF head
    <2>2. stream' = [stream EXCEPT ![c] = head]
        BY DEF Begin, head
    <2>3. asked' = [asked EXCEPT ![c] = asked'[c]]
        BY <1>1, <1>3 DEF Begin, TypeOK
    <2>4. asked' \in [Conns -> Seq(Files)] /\ stream' \in [Conns -> Seq(Parts)]
        BY <1>1, <1>4, <2>1, <2>2, <2>3 DEF TypeOK
    <2>5. timer' \in [Conns -> BOOLEAN] /\ shut' = shut /\ closing' = closing
        BY <1>1 DEF TypeOK, Begin
    <2>6. /\ queue' = queue /\ shared' = shared /\ received' = received
          /\ position' \in [Conns -> Nat]
          /\ stage' = [stage EXCEPT ![c] = "read"]
        BY <1>1 DEF TypeOK, Begin
    <2>. QED BY <1>1, <2>4, <2>5, <2>6 DEF TypeOK
<1>8. Local(c)
    BY <1>1 DEF Begin, Local, Same, TypeOK
<1>. QED BY <1>1, <1>6, <1>7, <1>8, LocalStep

\* The buffer gets the next block of the file of c.
LEMMA ReadBlockStep ==
    ASSUME IInv, NEW c \in Conns, ReadBlock(c)
    PROVE  IInv'
<1>1. TypeOK /\ Phase(c) /\ stage[c] = "read"
    BY DEF IInv, ReadBlock
<1>2. /\ asked'[c] = asked[c] /\ stage'[c] = "copy" /\ position'[c] = position[c]
      /\ stream'[c] = stream[c] /\ queue'[c] = queue[c] /\ received'[c] = received[c]
    BY <1>1 DEF ReadBlock, response_vars, TypeOK
<1>3. File(c)' = File(c) /\ File(c) \in Files
    BY <1>1, <1>2 DEF File, Last, TypeOK, Phase
<1>4. Reading(c)'
    BY <1>1, <1>2, <1>3 DEF Phase, Reading
<1>5. Phase(c)'
    BY <1>1, <1>2, <1>3, <1>4 DEF Phase, ReadBlock
<1>6. TypeOK'
    <2>1. shared' \in Parts
        BY <1>1, <1>3 DEF ReadBlock, Parts, TypeOK
    <2>. QED BY <1>1, <1>2, <2>1 DEF TypeOK, ReadBlock, response_vars
<1>7. Local(c) /\ stage[c] \in Busy
    BY <1>1 DEF ReadBlock, response_vars, Local, Same, Busy, TypeOK
<1>. QED BY <1>5, <1>6, <1>7, LocalStep

\* At the end of the file all that is missing is in the stream.
LEMMA ReadNothingStep ==
    ASSUME IInv, NEW c \in Conns, ReadNothing(c)
    PROVE  IInv'
<1>1. TypeOK /\ Phase(c) /\ stage[c] = "read"
    BY DEF IInv, ReadNothing
<1>2. /\ asked'[c] = asked[c] /\ stage'[c] = "return" /\ position'[c] = position[c]
      /\ stream'[c] = stream[c] /\ queue'[c] = queue[c] /\ received'[c] = received[c]
    BY <1>1 DEF ReadNothing, response_vars, TypeOK
<1>3. File(c) \in Files /\ Reading(c) /\ position[c] > Size(File(c)) /\ queue[c] = <<>>
    BY <1>1 DEF File, Last, TypeOK, Phase, ReadNothing
<1>4. Closing(c)'
    <2>1. Left(File(c), position[c]) = <<>>
        BY <1>3, LeftNone DEF Reading
    <2>2. received[c] \o stream[c] \in Seq(Parts)
        BY <1>1, ConcatProperties DEF TypeOK
    <2>3. received[c] \o stream[c] = All(asked[c])
        BY <1>3, <2>1, <2>2, ConcatEmptySeq DEF Reading
    <2>4. OneBlock(stream[c])
        BY <1>3 DEF Reading, NoBlock, OneBlock
    <2>. QED BY <1>2, <2>3, <2>4 DEF Closing
<1>5. Phase(c)'
    BY <1>1, <1>2, <1>3, <1>4 DEF Phase
<1>6. TypeOK'
    BY <1>1, <1>2 DEF TypeOK, ReadNothing, response_vars
<1>7. Local(c) /\ stage[c] \in Busy
    BY <1>1 DEF ReadNothing, response_vars, Local, Same, Busy, TypeOK
<1>. QED BY <1>5, <1>6, <1>7, LocalStep

\* What is between two joints may go to either side.
LEMMA JoinedTwice ==
    ASSUME NEW r \in Seq(Parts), NEW s \in Seq(Parts), NEW t \in Seq(Parts),
           NEW u \in Seq(Parts)
    PROVE  (r \o s) \o (t \o u) = (r \o (s \o t)) \o u
<1> DEFINE rs == r \o s
<1>1. rs \in Seq(Parts)
    BY ConcatProperties
<1>2. rs \o t = r \o (s \o t)
    BY ConcatAssociative
<1>. HIDE DEF rs
<1>3. rs \o (t \o u) = (rs \o t) \o u
    BY <1>1, ConcatAssociative
<1>4. rs \o (t \o u) = (r \o (s \o t)) \o u
    BY <1>2, <1>3
<1>. QED BY <1>4 DEF rs

\* A block after parts that are none is the only one.
LEMMA OneBlockGrows ==
    ASSUME NEW s \in Seq(Parts), NoBlock(s), NEW p \in Parts
    PROVE  OneBlock(Append(s, p))
<1> DEFINE t == Append(s, p)
<1>1. Len(t) = Len(s) + 1 /\ \A i \in 1..Len(s) : t[i] = s[i]
    BY AppendProperties
<1>. HIDE DEF t
<1>2. \A i \in 1..Len(t) : t[i].block > 0 => i = Len(s) + 1
    <2>. TAKE i \in 1..Len(t)
    <2>1. i \in 1..Len(s) \/ i = Len(s) + 1
        BY <1>1
    <2>2. i \in 1..Len(s) => t[i].block = 0
        BY <1>1 DEF NoBlock
    <2>. QED BY <2>1, <2>2
<1>3. OneBlock(t)
    BY <1>2 DEF OneBlock
<1>. QED BY <1>3 DEF t

\* The block goes into the stream and, if whole, with it into the queue: what
\* is left in the file gets less by what is held.
LEMMA CopyBlockStep ==
    ASSUME IInv, NEW c \in Conns, CopyBlock(c)
    PROVE  IInv'
<1> DEFINE f == File(c)
           p == position[c]
           held == Append(stream[c], shared)
<1>1. TypeOK /\ Phase(c) /\ stage[c] = "copy"
    BY DEF IInv, CopyBlock
<1>2. /\ f \in Files /\ Reading(c) /\ p <= Size(f) /\ shared = [file |-> f, block |-> p]
      /\ queue[c] = <<>> /\ asked[c] # <<>> /\ shared \in Parts
      /\ stream[c] \in Seq(Parts) /\ received[c] \in Seq(Parts)
    <2>1. asked[c] # <<>> /\ asked[c] \in Seq(Files)
        BY <1>1 DEF TypeOK, Phase
    <2>2. f \in Files
        BY <2>1 DEF File, Last
    <2>3. p \in Nat
        BY <1>1 DEF TypeOK
    <2>4. [file |-> f, block |-> p] \in Parts
        BY <2>2, <2>3 DEF Parts
    <2>. QED BY <1>1, <2>1, <2>2, <2>4 DEF TypeOK, Phase
<1>3. p \in 1..Size(f) /\ p + 1 \in 1..(Size(f) + 1) /\ Size(f) \in Nat /\ p \in Nat
    BY <1>2, SizeType DEF Reading
<1>4. /\ asked' = asked /\ stage' = [stage EXCEPT ![c] = "return"]
      /\ position' = [position EXCEPT ![c] = @ + 1] /\ received' = received
      /\ shared' = None /\ timer' = timer /\ shut' = shut /\ closing' = closing
    BY DEF CopyBlock
<1>5. /\ asked'[c] = asked[c] /\ stage'[c] = "return" /\ position'[c] = p + 1
      /\ received'[c] = received[c] /\ File(c)' = f
    BY <1>1, <1>4 DEF TypeOK, File
<1>6. held \in Seq(Parts) /\ OneBlock(held)
    BY <1>2, OneBlockGrows, AppendProperties DEF Reading
<1>7. (received[c] \o held) \o Left(f, p + 1) = All(asked[c])
    <2> DEFINE one == <<[file |-> f, block |-> p]>>
               left == Left(f, p + 1)
    <2>1. Left(f, p) = one \o left /\ left \in Seq(Parts)
        BY <1>2, <1>3, LeftNext, LeftType
    <2>2. held = stream[c] \o one /\ one \in Seq(Parts)
        BY <1>2, AppendIsConcat
    <2>3. (received[c] \o stream[c]) \o (one \o left) = All(asked[c])
        BY <1>2, <2>1 DEF Reading
    <2>. HIDE DEF one, left, held, f, p
    <2>4. stream[c] \in Seq(Parts) /\ received[c] \in Seq(Parts)
        BY <1>2
    <2> DEFINE got == received[c]
               kept == stream[c]
    <2>5. got \in Seq(Parts) /\ kept \in Seq(Parts)
        BY <2>4
    <2>. HIDE DEF got, kept
    <2>6. (got \o kept) \o (one \o left) = (got \o (kept \o one)) \o left
        <3>1. one \in Seq(Parts) /\ left \in Seq(Parts)
            BY <2>1, <2>2
        <3>. QED BY <2>5, <3>1, JoinedTwice, Z3
    <2>. QED BY <2>2, <2>3, <2>6 DEF left, got, kept
<1>8. CASE p <= Full[f]
    <2>. HIDE DEF held, f, p
    <2>1. /\ queue' = [queue EXCEPT ![c] = Append(@, held)]
          /\ stream' = [stream EXCEPT ![c] = <<>>]
        BY <1>8 DEF CopyBlock, Send, held, f, p
    <2>2. queue'[c] = <<held>> /\ stream'[c] = <<>>
        BY <1>1, <1>2, <2>1 DEF TypeOK
    <2>3. Len(<<held>>) = 1 /\ <<held>>[1] = held
        OBVIOUS
    <2>4. Waiting(c)'
        BY <1>3, <1>5, <1>6, <1>7, <2>2, <2>3 DEF Waiting
    <2>5. Phase(c)'
        BY <1>2, <1>5, <2>4 DEF Phase
    <2>6. queue' \in [Conns -> Seq(Seq(Parts))] /\ stream' \in [Conns -> Seq(Parts)]
        <3>1. <<held>> \in Seq(Seq(Parts))
            BY <1>6
        <3>2. queue' = [queue EXCEPT ![c] = <<held>>]
            BY <1>1, <1>2, <2>1 DEF TypeOK
        <3>. QED BY <1>1, <2>1, <3>1, <3>2 DEF TypeOK
    <2>7. TypeOK'
        <3>1. position' \in [Conns -> Nat]
            BY <1>1, <1>4 DEF TypeOK
        <3>2. stage' \in [Conns -> {"idle", "read", "copy", "return", "send", "final", "gone"}]
              /\ \A d \in Conns : stage'[d] = "send" => queue'[d] # <<>>
            BY <1>1, <1>4, <2>1 DEF TypeOK
        <3>. QED BY <1>1, <1>4, <2>6, <3>1, <3>2 DEF TypeOK
    <2>8. Local(c) /\ stage[c] \in Busy
        BY <1>1, <1>4, <2>1 DEF Local, Same, Busy, TypeOK
    <2>. QED BY <2>5, <2>7, <2>8, LocalStep
<1>9. CASE ~ (p <= Full[f])
    <2>1. Rest[f] /\ p = Size(f)
        BY <1>2, <1>3, <1>9, FilesAssumption DEF Size
    <2>. HIDE DEF held, f, p
    <2>2. queue' = queue /\ stream' = [stream EXCEPT ![c] = held]
        BY <1>9 DEF CopyBlock, held, f, p
    <2>3. queue'[c] = <<>> /\ stream'[c] = held
        BY <1>1, <1>2, <2>2 DEF TypeOK
    <2>4. Closing(c)'
        <3>1. Left(f, p + 1) = <<>>
            BY <1>2, <1>3, <2>1, LeftNone
        <3>2. received[c] \o held \in Seq(Parts)
            BY <1>2, <1>6, ConcatProperties
        <3>3. received[c] \o held = All(asked[c])
            BY <1>7, <3>1, <3>2, ConcatEmptySeq
        <3>. QED BY <1>5, <1>6, <2>3, <3>3 DEF Closing
    <2>5. Phase(c)'
        BY <1>2, <1>5, <2>3, <2>4 DEF Phase
    <2>7. TypeOK'
        <3>1. position' \in [Conns -> Nat]
            BY <1>1, <1>4 DEF TypeOK
        <3>2. stage' \in [Conns -> {"idle", "read", "copy", "return", "send", "final", "gone"}]
              /\ \A d \in Conns : stage'[d] = "send" => queue'[d] # <<>>
            BY <1>1, <1>4, <2>2 DEF TypeOK
        <3>3. stream' \in [Conns -> Seq(Parts)]
            BY <1>1, <1>6, <2>2 DEF TypeOK
        <3>. QED BY <1>1, <1>4, <2>2, <3>1, <3>2, <3>3 DEF TypeOK
    <2>8. Local(c) /\ stage[c] \in Busy
        BY <1>1, <1>4, <2>2 DEF Local, Same, Busy, TypeOK
    <2>. QED BY <2>5, <2>7, <2>8, LocalStep
<1>. QED BY <1>8, <1>9

\* If all that is missing is in the stream, a beginning has arrived.
LEMMA ClosingCut ==
    ASSUME TypeOK, NEW c \in Conns, Closing(c)
    PROVE  Cut(c)
<1>1. stream[c] \in Seq(Parts)
    BY DEF TypeOK
<1>. QED BY <1>1 DEF Closing, Cut, Begins

\* The handler returns to a write, or to the end of the Response.
LEMMA ReturnStep ==
    ASSUME IInv, NEW c \in Conns, Return(c)
    PROVE  IInv'
<1>1. TypeOK /\ Phase(c) /\ stage[c] = "return"
    BY DEF IInv, Return
<1>2. /\ asked' = asked /\ position' = position /\ stream' = stream /\ queue' = queue
      /\ shared' = shared /\ received' = received /\ shut' = shut
      /\ timer' = timer /\ closing' = closing
    BY DEF Return, response_vars
<1>3. stage' = [stage EXCEPT ![c] = IF queue[c] # <<>> THEN "send" ELSE "final"]
    BY DEF Return
<1>4. Local(c)
    BY <1>1, <1>2, <1>3 DEF Local, Same, TypeOK
<1>5. TypeOK'
    BY <1>1, <1>2, <1>3 DEF TypeOK
<1>6. File(c)' = File(c)
    BY <1>2 DEF File
<1>7. CASE queue[c] # <<>>
    <2>1. stage'[c] = "send"
        BY <1>1, <1>3, <1>7 DEF TypeOK
    <2>2. Waiting(c)
        BY <1>1, <1>7 DEF Phase
    <2>3. Waiting(c)'
        BY <1>2, <1>6, <2>2 DEF Waiting
    <2>4. Phase(c)'
        BY <1>1, <1>2, <2>1, <2>3 DEF Phase
    <2>. QED BY <1>1, <1>4, <1>5, <2>1, <2>4, LocalStep DEF Busy
<1>8. CASE queue[c] = <<>>
    <2>1. stage'[c] = "final"
        BY <1>1, <1>3, <1>8 DEF TypeOK
    <2>2. Closing(c)
        BY <1>1, <1>8 DEF Phase, Waiting
    <2>3. Closing(c)' /\ Cut(c)'
        BY <1>1, <1>2, <2>2, ClosingCut DEF Closing, Cut
    <2>4. Phase(c)'
        BY <1>1, <1>2, <1>8, <2>1, <2>3 DEF Phase
    <2>. QED BY <1>1, <1>4, <1>5, <2>1, <2>4, LocalStep DEF Busy
<1>. QED BY <1>7, <1>8

\* The queue has the one entry that is being written.
LEMMA WaitingQueue ==
    ASSUME TypeOK, NEW c \in Conns, Waiting(c)
    PROVE  /\ queue[c] # <<>> /\ Head(queue[c]) = queue[c][1] /\ Tail(queue[c]) = <<>>
           /\ queue[c][1] \in Seq(Parts)
<1>1. ASSUME NEW q \in Seq(Seq(Parts)), Len(q) = 1
      PROVE  q # <<>> /\ Head(q) = q[1] /\ Tail(q) = <<>> /\ q[1] \in Seq(Parts)
    <2>1. q # <<>> /\ Head(q) = q[1] /\ q[1] \in Seq(Parts)
        BY <1>1
    <2>2. Tail(q) \in Seq(Seq(Parts)) /\ Len(Tail(q)) = 0
        BY <1>1, <2>1
    <2>. QED BY <2>1, <2>2, EmptySeq
<1>2. queue[c] \in Seq(Seq(Parts)) /\ Len(queue[c]) = 1
    BY DEF TypeOK, Waiting
<1>. QED BY <1>1, <1>2

\* What was in the queue has arrived.
LEMMA SentStep ==
    ASSUME SingleThread, IInv, NEW c \in Conns, Sent(c)
    PROVE  IInv'
<1>1. TypeOK /\ Phase(c) /\ stage[c] = "send" /\ Handled = {}
    BY NobodyHandles DEF IInv, Sent
<1>2. Waiting(c) /\ asked[c] # <<>>
    BY <1>1 DEF Phase
<1>3. /\ Head(queue[c]) = queue[c][1] /\ Tail(queue[c]) = <<>>
      /\ queue[c][1] \in Seq(Parts) /\ received[c] \in Seq(Parts)
    BY <1>1, <1>2, WaitingQueue DEF TypeOK
<1>4. /\ asked' = asked /\ position' = position /\ stream' = stream
      /\ shared' = shared /\ shut' = shut /\ timer' = timer /\ closing' = closing
      /\ stage' = [stage EXCEPT ![c] = "read"]
    BY DEF Sent
<1>5. /\ received' = [received EXCEPT ![c] = @ \o queue[c][1]]
      /\ queue' = [queue EXCEPT ![c] = <<>>]
    BY <1>1, <1>3 DEF Sent, TypeOK
<1>6. received[c] \o queue[c][1] \in Seq(Parts)
    BY <1>3, ConcatProperties
<1>7. /\ queue'[c] = <<>> /\ stage'[c] = "read" /\ File(c)' = File(c)
      /\ received'[c] = received[c] \o queue[c][1]
    BY <1>1, <1>4, <1>5 DEF TypeOK, File
<1>8. Reading(c)'
    <2>1. stream[c] = <<>> /\ NoBlock(<<>>)
        BY <1>2 DEF Waiting, NoBlock
    <2>2. (received[c] \o queue[c][1]) \o <<>> = received[c] \o queue[c][1]
        BY <1>6, ConcatEmptySeq
    <2>3. (received[c] \o queue[c][1]) \o Left(File(c), position[c]) = All(asked[c])
        BY <1>2 DEF Waiting
    <2>4. position[c] \in 1..(Size(File(c)) + 1)
        BY <1>2 DEF Waiting
    <2>. QED BY <1>4, <1>7, <2>1, <2>2, <2>3, <2>4 DEF Reading
<1>9. Phase(c)'
    BY <1>2, <1>4, <1>7, <1>8 DEF Phase
<1>10. TypeOK'
    <2>1. received' \in [Conns -> Seq(Parts)]
        BY <1>1, <1>5, <1>6 DEF TypeOK
    <2>2. queue' \in [Conns -> Seq(Seq(Parts))]
        <3>1. <<>> \in Seq(Seq(Parts))
            OBVIOUS
        <3>. QED BY <1>1, <1>5, <3>1 DEF TypeOK
    <2>3. stage' \in [Conns -> {"idle", "read", "copy", "return", "send", "final", "gone"}]
          /\ \A d \in Conns : stage'[d] = "send" => queue'[d] # <<>>
        BY <1>1, <1>4, <1>5 DEF TypeOK
    <2>. QED BY <1>1, <1>4, <2>1, <2>2, <2>3 DEF TypeOK
<1>11. Local(c)
    BY <1>1, <1>4, <1>5 DEF Local, Same, TypeOK
<1>. QED BY <1>1, <1>9, <1>10, <1>11, LocalStep

\* A beginning of an entry is one of what is owed,
LEMMA BeginsPart ==
    ASSUME NEW r \in Seq(Parts), NEW s \in Seq(Parts), NEW t \in Seq(Parts),
           NEW u \in Seq(Parts)
    PROVE  Begins(r \o s, (r \o (s \o t)) \o u)
<1>1. (r \o s) \o (t \o u) = (r \o (s \o t)) \o u
    BY JoinedTwice
<1>2. t \o u \in Seq(Parts)
    BY ConcatProperties
<1>. QED BY <1>1, <1>2 DEF Begins

\* whichever part of it was written.
LEMMA CutParts ==
    ASSUME NEW r \in Seq(Parts), NEW q \in Seq(Parts), NEW l \in Seq(Parts),
           NEW k \in 0..Len(q)
    PROVE  /\ SubSeq(q, 1, k) \in Seq(Parts)
           /\ r \o SubSeq(q, 1, k) \in Seq(Parts)
           /\ Begins(r \o SubSeq(q, 1, k), (r \o q) \o l)
<1> DEFINE a == SubSeq(q, 1, k)
           b == SubSeq(q, k + 1, Len(q))
<1>1. a \in Seq(Parts) /\ b \in Seq(Parts)
    <2>1. /\ k \in Int /\ Len(q) \in Int /\ k + 1 \in Int
          /\ \A i \in 1..k : q[i] \in Parts
          /\ \A i \in (k + 1)..Len(q) : q[i] \in Parts
        OBVIOUS
    <2>. QED BY <2>1, SubSeqProperties
<1>2. a \o b = q
    <2>1. /\ 1 \in 1..(Len(q) + 1) /\ k \in (1 - 1)..Len(q) /\ Len(q) \in k..Len(q)
        OBVIOUS
    <2>2. a \o b = SubSeq(q, 1, Len(q))
        BY <2>1, ConcatAdjacentSubSeq
    <2>. QED BY <2>2, SubSeqFull
<1>. HIDE DEF a, b
<1>3. r \o a \in Seq(Parts)
    BY <1>1, ConcatProperties
<1>4. Begins(r \o a, (r \o (a \o b)) \o l)
    BY <1>1, BeginsPart
<1>5. Begins(r \o a, (r \o q) \o l)
    BY <1>2, <1>4
<1>. QED BY <1>1, <1>3, <1>5 DEF a

\* After an error what has arrived stays a beginning: nothing follows.
LEMMA SendFailsStep ==
    ASSUME SingleThread, IInv, NEW c \in Conns, SendFails(c)
    PROVE  IInv'
<1>1. TypeOK /\ Phase(c) /\ stage[c] = "send" /\ Handled = {}
    BY NobodyHandles DEF IInv, SendFails
<1>2. Waiting(c) /\ asked[c] # <<>>
    BY <1>1 DEF Phase
<1>3. /\ Head(queue[c]) = queue[c][1] /\ asked[c] \in Seq(Files)
      /\ queue[c][1] \in Seq(Parts) /\ received[c] \in Seq(Parts)
    BY <1>1, <1>2, WaitingQueue DEF TypeOK
<1>4. PICK k \in 0..Len(queue[c][1]) :
          received' = [received EXCEPT ![c] = @ \o SubSeq(queue[c][1], 1, k)]
    BY <1>3 DEF SendFails
<1>5. /\ asked' = asked /\ position' = position /\ stream' = stream
      /\ shared' = shared /\ timer' = timer /\ closing' = closing
      /\ queue' = [queue EXCEPT ![c] = <<>>]
      /\ stage' = [stage EXCEPT ![c] = "final"]
      /\ shut' = [shut EXCEPT ![c] = TRUE]
    BY DEF SendFails
<1>6. /\ received[c] \o SubSeq(queue[c][1], 1, k) \in Seq(Parts)
      /\ Begins(received[c] \o SubSeq(queue[c][1], 1, k), All(asked[c]))
    <2>1. File(c) \in Files
        BY <1>2, <1>3 DEF File, Last
    <2>2. Left(File(c), position[c]) \in Seq(Parts)
        BY <1>2, <2>1, LeftType DEF Waiting
    <2> DEFINE r == received[c]
               q == queue[c][1]
               l == Left(File(c), position[c])
    <2>3. r \in Seq(Parts) /\ q \in Seq(Parts) /\ l \in Seq(Parts) /\ k \in 0..Len(q)
        BY <1>3, <2>2
    <2>4. (r \o q) \o l = All(asked[c])
        BY <1>2 DEF Waiting
    <2>. HIDE DEF r, q, l
    <2>5. /\ r \o SubSeq(q, 1, k) \in Seq(Parts)
          /\ Begins(r \o SubSeq(q, 1, k), (r \o q) \o l)
        BY <2>3, CutParts
    <2>. QED BY <2>4, <2>5 DEF r, q
<1>7. /\ queue'[c] = <<>> /\ stage'[c] = "final" /\ shut'[c]
      /\ received'[c] = received[c] \o SubSeq(queue[c][1], 1, k)
    BY <1>1, <1>4, <1>5 DEF TypeOK
<1>8. Cut(c)'
    <2>1. stream[c] = <<>> /\ OneBlock(<<>>)
        BY <1>2 DEF Waiting, OneBlock
    <2>. QED BY <1>5, <1>6, <1>7, <2>1 DEF Cut
<1>9. Phase(c)'
    BY <1>7, <1>8 DEF Phase
<1>10. TypeOK'
    <2>1. received' \in [Conns -> Seq(Parts)]
        BY <1>1, <1>4, <1>6 DEF TypeOK
    <2>2. queue' \in [Conns -> Seq(Seq(Parts))]
        <3>1. <<>> \in Seq(Seq(Parts))
            OBVIOUS
        <3>. QED BY <1>1, <1>5, <3>1 DEF TypeOK
    <2>3. stage' \in [Conns -> {"idle", "read", "copy", "return", "send", "final", "gone"}]
          /\ \A d \in Conns : stage'[d] = "send" => queue'[d] # <<>>
        BY <1>1, <1>5 DEF TypeOK
    <2>4. shut' \in [Conns -> BOOLEAN]
        BY <1>1, <1>5 DEF TypeOK
    <2>. QED BY <1>1, <1>5, <2>1, <2>2, <2>3, <2>4 DEF TypeOK
<1>11. Local(c)
    BY <1>1, <1>4, <1>5 DEF Local, Same, TypeOK
<1>. QED BY <1>1, <1>7, <1>9, <1>10, <1>11, LocalStep DEF Busy

\* With the rest of the stream the answer is complete.
LEMMA FinalSentStep ==
    ASSUME IInv, NEW c \in Conns, FinalSent(c)
    PROVE  IInv'
<1>1. TypeOK /\ Phase(c) /\ stage[c] = "final" /\ ~ shut[c]
    BY DEF IInv, FinalSent
<1>2. Closing(c) /\ queue[c] = <<>>
    BY <1>1 DEF Phase
<1>3. /\ asked' = asked /\ position' = position /\ queue' = queue
      /\ shared' = shared /\ shut' = shut /\ closing' = closing
      /\ received' = [received EXCEPT ![c] = @ \o stream[c]]
      /\ stream' = [stream EXCEPT ![c] = <<>>]
      /\ stage' = [stage EXCEPT ![c] = "idle"]
      /\ timer' = [timer EXCEPT ![c] = TRUE]
    BY DEF FinalSent
<1>4. /\ stage'[c] = "idle" /\ stream'[c] = <<>>
      /\ received'[c] = received[c] \o stream[c]
    BY <1>1, <1>3 DEF TypeOK
<1>5. Phase(c)'
    BY <1>2, <1>3, <1>4 DEF Phase, Idle, Closing
<1>6. TypeOK'
    <2>1. received[c] \o stream[c] \in Seq(Parts)
        BY <1>1, ConcatProperties DEF TypeOK
    <2>2. received' \in [Conns -> Seq(Parts)] /\ stream' \in [Conns -> Seq(Parts)]
        BY <1>1, <1>3, <2>1 DEF TypeOK
    <2>3. timer' \in [Conns -> BOOLEAN]
        BY <1>1, <1>3 DEF TypeOK
    <2>4. stage' \in [Conns -> {"idle", "read", "copy", "return", "send", "final", "gone"}]
          /\ \A d \in Conns : stage'[d] = "send" => queue'[d] # <<>>
        BY <1>1, <1>3 DEF TypeOK
    <2>. QED BY <1>1, <1>3, <2>2, <2>3, <2>4 DEF TypeOK
<1>7. Local(c)
    BY <1>1, <1>3 DEF Local, Same, TypeOK
<1>. QED BY <1>4, <1>5, <1>6, <1>7, LocalStep DEF Busy

\* A connection that ends keeps what it has.
LEMMA DropStep ==
    ASSUME IInv, NEW c \in Conns, Drop(c)
    PROVE  IInv'
<1>1. TypeOK /\ Phase(c) /\ stage[c] \in {"idle", "final"}
    BY DEF IInv, Drop
<1>2. /\ asked' = asked /\ position' = position /\ queue' = queue /\ stream' = stream
      /\ shared' = shared /\ shut' = shut /\ closing' = closing /\ received' = received
      /\ stage' = [stage EXCEPT ![c] = "gone"]
      /\ timer' = [timer EXCEPT ![c] = FALSE]
    BY DEF Drop, response_vars
<1>3. stage'[c] = "gone" /\ queue[c] = <<>>
    BY <1>1, <1>2 DEF TypeOK, Phase
<1>4. Cut(c)
    <2>1. CASE stage[c] = "final"
        BY <1>1, <2>1 DEF Phase
    <2>2. CASE stage[c] = "idle"
        <3>1. stream[c] = <<>> /\ received[c] = All(asked[c])
            BY <1>1, <2>2 DEF Phase, Idle
        <3>2. received[c] \in Seq(Parts) /\ <<>> \in Seq(Parts)
            BY <1>1, EmptySeq DEF TypeOK
        <3>3. received[c] \o stream[c] = All(asked[c])
            BY <3>1, <3>2, ConcatEmptySeq
        <3>4. OneBlock(stream[c])
            BY <3>1 DEF OneBlock
        <3>. QED BY <1>1, <3>3, <3>4, ClosingCut DEF Closing
    <2>. QED BY <1>1, <2>1, <2>2
<1>5. Phase(c)'
    BY <1>2, <1>3, <1>4 DEF Phase, Cut
<1>6. TypeOK'
    <2>1. timer' \in [Conns -> BOOLEAN]
        BY <1>1, <1>2 DEF TypeOK
    <2>2. stage' \in [Conns -> {"idle", "read", "copy", "return", "send", "final", "gone"}]
          /\ \A d \in Conns : stage'[d] = "send" => queue'[d] # <<>>
        BY <1>1, <1>2 DEF TypeOK
    <2>. QED BY <1>1, <1>2, <2>1, <2>2 DEF TypeOK
<1>7. Local(c)
    BY <1>1, <1>2 DEF Local, Same, TypeOK
<1>. QED BY <1>3, <1>5, <1>6, <1>7, LocalStep DEF Busy

\* Shutting the socket down moves nothing.
LEMMA TimesOutStep ==
    ASSUME IInv, NEW c \in Conns, TimesOut(c)
    PROVE  IInv'
<1>1. TypeOK /\ Phase(c)
    BY DEF IInv
<1>2. /\ asked' = asked /\ position' = position /\ queue' = queue /\ stream' = stream
      /\ shared' = shared /\ closing' = closing /\ received' = received /\ stage' = stage
      /\ timer' = [timer EXCEPT ![c] = FALSE]
      /\ shut' = [shut EXCEPT ![c] = TRUE]
    BY DEF TimesOut, response_vars
<1>3. shut'[c] /\ File(c)' = File(c)
    BY <1>1, <1>2 DEF TypeOK, File
<1>4. Phase(c)'
    <2>1. /\ Idle(c)' <=> Idle(c)
          /\ Reading(c)' <=> Reading(c)
          /\ Waiting(c)' <=> Waiting(c)
          /\ Closing(c)' <=> Closing(c)
          /\ Cut(c)' <=> Cut(c)
        BY <1>2, <1>3 DEF Idle, Reading, Waiting, Closing, Cut
    <2>. QED BY <1>1, <1>2, <1>3, <2>1 DEF Phase
<1>5. TypeOK'
    <2>1. timer' \in [Conns -> BOOLEAN] /\ shut' \in [Conns -> BOOLEAN]
        BY <1>1, <1>2 DEF TypeOK
    <2>. QED BY <1>1, <1>2, <2>1 DEF TypeOK
<1>6. Local(c)
    BY <1>1, <1>2 DEF Local, Same, TypeOK
<1>. QED BY <1>2, <1>4, <1>5, <1>6, LocalStep

\* Nor does a client that closes its end.
LEMMA ClientClosesStep ==
    ASSUME IInv, NEW c \in Conns, ClientCloses(c)
    PROVE  IInv'
<1>1. TypeOK /\ Phase(c)
    BY DEF IInv
<1>2. /\ asked' = asked /\ position' = position /\ queue' = queue /\ stream' = stream
      /\ shared' = shared /\ received' = received /\ stage' = stage
      /\ timer' = timer /\ shut' = shut
      /\ closing' = [closing EXCEPT ![c] = TRUE]
    BY DEF ClientCloses, response_vars
<1>3. Same(c) /\ Local(c)
    BY <1>2 DEF Same, Local
<1>4. Phase(c)'
    BY <1>1, <1>2, <1>3, Elsewhere
<1>5. TypeOK'
    <2>1. closing' \in [Conns -> BOOLEAN]
        BY <1>1, <1>2 DEF TypeOK
    <2>. QED BY <1>1, <1>2, <2>1 DEF TypeOK
<1>. QED BY <1>2, <1>3, <1>4, <1>5, LocalStep

\* At the start nobody has asked, and nothing is owed.
LEMMA InitInv ==
    ASSUME Init
    PROVE  IInv
<1>1. TypeOK
    <2>1. /\ <<>> \in Seq(Files) /\ <<>> \in Seq(Parts) /\ <<>> \in Seq(Seq(Parts))
        OBVIOUS
    <2>2. {timer, shut, closing} \subseteq [Conns -> BOOLEAN]
        BY DEF Init
    <2>. QED BY <2>1, <2>2 DEF Init, TypeOK
<1>2. Handled = {}
    BY DEF Init, Handled
<1>3. ASSUME NEW c \in Conns PROVE Phase(c)
    BY AllEmpty DEF Init, Phase, Idle
<1>. QED BY <1>1, <1>2, <1>3 DEF IInv, OneHandler

\* Every step keeps the invariant.
LEMMA NextInv ==
    ASSUME SingleThread, IInv, [Next]_vars
    PROVE  IInv'
<1>1. CASE Next
    <2>1. PICK c \in Conns :
              \/ \E f \in Files : Begin(c, f)
              \/ Handler(c)
              \/ Sent(c) \/ SendFails(c) \/ FinalSent(c) \/ Drop(c)
              \/ TimesOut(c) \/ ClientCloses(c)
        BY <1>1 DEF Next
    <2>2. CASE \E f \in Files : Begin(c, f)
        BY <2>2, BeginStep
    <2>3. CASE Handler(c)
        BY <2>3, ReadBlockStep, ReadNothingStep, CopyBlockStep, ReturnStep DEF Handler
    <2>4. CASE Sent(c) \/ SendFails(c) \/ FinalSent(c) \/ Drop(c)
        BY <2>4, SentStep, SendFailsStep, FinalSentStep, DropStep
    <2>5. CASE TimesOut(c) \/ ClientCloses(c)
        BY <2>5, TimesOutStep, ClientClosesStep
    <2>. QED BY <2>1, <2>2, <2>3, <2>4, <2>5
<1>2. CASE UNCHANGED vars
    <2>1. /\ asked' = asked /\ position' = position /\ queue' = queue /\ stream' = stream
          /\ shared' = shared /\ received' = received /\ stage' = stage
          /\ timer' = timer /\ shut' = shut /\ closing' = closing
        BY <1>2 DEF vars, response_vars
    <2>2. TypeOK' /\ OneHandler'
        BY <2>1 DEF IInv, TypeOK, OneHandler, Handled
    <2>3. ASSUME NEW c \in Conns PROVE Phase(c)'
        <3>1. Phase(c) /\ Same(c)
            BY <2>1 DEF IInv, Same
        <3>. QED BY <2>1, <3>1, Elsewhere
    <2>. QED BY <2>2, <2>3 DEF IInv
<1>. QED BY <1>1, <1>2

\* The whole is a beginning of itself,
LEMMA BeginsItself ==
    ASSUME NEW s \in Seq(Parts)
    PROVE  Begins(s, s)
<1>1. s \o <<>> = s /\ <<>> \in Seq(Parts)
    BY ConcatEmptySeq, EmptySeq
<1>. QED BY <1>1 DEF Begins

\* and the first of three parts one of the three.
LEMMA BeginsMore ==
    ASSUME NEW r \in Seq(Parts), NEW s \in Seq(Parts), NEW t \in Seq(Parts)
    PROVE  Begins(r, (r \o s) \o t)
<1>1. (r \o s) \o t = r \o (s \o t) /\ s \o t \in Seq(Parts)
    BY ConcatAssociative, ConcatProperties
<1>. QED BY <1>1 DEF Begins

\* In every stage a beginning of what is owed has arrived, and all when idle.
LEMMA InvReceives ==
    ASSUME IInv
    PROVE  ReceivesItsFiles
<1>1. SUFFICES ASSUME NEW c \in Conns
               PROVE  /\ IsPrefix(received[c], All(asked[c]))
                      /\ stage[c] = "idle" => received[c] = All(asked[c])
    BY DEF ReceivesItsFiles, All
<1>2. TypeOK /\ Phase(c)
    BY DEF IInv
<1>3. received[c] \in Seq(Parts) /\ asked[c] \in Seq(Files) /\ All(asked[c]) \in Seq(Parts)
    BY <1>2, AllType DEF TypeOK
<1>4. Begins(received[c], All(asked[c]))
    <2>1. CASE stage[c] = "idle"
        BY <1>2, <1>3, <2>1, BeginsItself DEF Phase, Idle
    <2>2. CASE stage[c] \in {"read", "copy"}
        <3>1. Reading(c) /\ File(c) \in Files /\ stream[c] \in Seq(Parts)
            BY <1>2, <1>3, <2>2 DEF Phase, File, Last, TypeOK
        <3>2. Left(File(c), position[c]) \in Seq(Parts)
            BY <3>1, LeftType DEF Reading
        <3>. QED BY <1>3, <3>1, <3>2, BeginsMore DEF Reading
    <2>3. CASE stage[c] \in {"return", "send"} /\ Waiting(c)
        <3>1. File(c) \in Files
            BY <1>2, <1>3, <2>3 DEF Phase, File, Last
        <3>2. Left(File(c), position[c]) \in Seq(Parts) /\ queue[c][1] \in Seq(Parts)
            BY <1>2, <2>3, <3>1, LeftType, WaitingQueue DEF Waiting
        <3>. QED BY <1>3, <2>3, <3>2, BeginsMore DEF Waiting
    <2>4. CASE Closing(c)
        BY <1>2, <2>4, ClosingCut DEF Cut
    <2>5. CASE Cut(c)
        BY <2>5 DEF Cut
    <2>6. stage[c] \in {"idle", "read", "copy", "return", "send", "final", "gone"}
        BY <1>2 DEF TypeOK
    <2>. QED BY <1>2, <2>1, <2>2, <2>3, <2>4, <2>5, <2>6 DEF Phase
<1>. QED BY <1>2, <1>3, <1>4, BeginsPrefix DEF Phase, Idle

\* In no stage are there two blocks in the buffers.
LEMMA InvOneBlock ==
    ASSUME IInv
    PROVE  OneBlockHeld
<1>1. SUFFICES ASSUME NEW c \in Conns
               PROVE  OneBlock(FlattenSeq(queue[c]) \o stream[c])
    BY DEF OneBlockHeld, OneBlock
<1>2. TypeOK /\ Phase(c) /\ stream[c] \in Seq(Parts)
    BY DEF IInv, TypeOK
<1>3. CASE Waiting(c)
    <2>1. queue[c][1] \in Seq(Parts) /\ queue[c] \in Seq(Seq(Parts)) /\ Len(queue[c]) = 1
        BY <1>2, <1>3, WaitingQueue DEF TypeOK, Waiting
    <2>2. queue[c] = <<queue[c][1]>>
        BY <2>1
    <2>3. FlattenSeq(queue[c]) = queue[c][1]
        BY <2>1, <2>2, FlattenOne
    <2>4. queue[c][1] \o <<>> = queue[c][1]
        BY <2>1, ConcatEmptySeq
    <2>. QED BY <1>3, <2>3, <2>4 DEF Waiting
<1>4. CASE queue[c] = <<>>
    <2>1. FlattenSeq(queue[c]) \o stream[c] = stream[c]
        BY <1>2, <1>4, FlattenEmpty, ConcatEmptySeq
    <2>2. NoBlock(stream[c]) => OneBlock(stream[c])
        BY <1>2 DEF NoBlock, OneBlock
    <2>3. stream[c] = <<>> => OneBlock(stream[c])
        BY DEF OneBlock
    <2>4. OneBlock(stream[c])
        <3>1. stage[c] \in {"idle", "read", "copy", "return", "send", "final", "gone"}
            BY <1>2 DEF TypeOK
        <3>. QED BY <1>2, <2>2, <2>3, <3>1 DEF Phase, Idle, Reading, Waiting, Closing, Cut
    <2>. QED BY <2>1, <2>4
<1>5. queue[c] = <<>> \/ Waiting(c)
    <2>1. stage[c] \in {"idle", "read", "copy", "return", "send", "final", "gone"}
        BY <1>2 DEF TypeOK
    <2>. QED BY <1>2, <2>1 DEF Phase
<1>. QED BY <1>3, <1>4, <1>5

-----------------------------------------------------------------------------
(* The theorems.                                                           *)

\* The invariant holds throughout.
LEMMA SpecInv ==
    ASSUME SingleThread
    PROVE  Spec => []IInv
<1>1. IInv /\ [Next]_vars => IInv'
    BY NextInv
<1>. QED BY <1>1, InitInv, PTL DEF Spec

\* With one thread every client receives the answers to its requests, each head
\* with the blocks of its file in order, and before another request all of them:
\* for any files and any connections, although all responses read through one
\* static buffer, writes fail and sockets are shut down at any time.
THEOREM AnswersArrive ==
    ASSUME SingleThread
    PROVE  Spec => []ReceivesItsFiles
BY SpecInv, InvReceives, PTL

\* With one thread the buffers of a response hold one block at most, however
\* large the file.
THEOREM BuffersHold ==
    ASSUME SingleThread
    PROVE  Spec => []BuffersInv
<1>1. IInv => BuffersInv
    BY InvOneBlock DEF IInv, BuffersInv
<1>. QED BY <1>1, SpecInv, PTL

===============================================================================
