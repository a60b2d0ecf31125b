--------------------------- MODULE WebServer_proofs ---------------------------
(* For any connections and requests: timers cover every wait, answers come  *)
(* in order, resource functions are called with whole requests, and         *)
(* connections go for a cause.                                              *)
EXTENDS WebServer, SequenceTheorems, TLAPS

\* What is left of a client's bytes: in the buffers, on the way, not yet sent.
Left(c) == buf[c] \o wire[c] \o unsent[c]

\* Parts of the n-th request.
Of(kinds, n) == [i \in 1..Len(kinds) |-> [kind |-> kinds[i], req |-> n]]

\* What may be left of a request when its connection is in one of the stages
\* from its head to its answer: its framing decides.
Midway == {"body", "size", "data", "handle", "send"}

Rests(s, framing) ==
    CASE s = "body" /\ framing = "length"  -> {<<"body">>}
      [] s = "size" /\ framing = "chunked" -> {<<"size", "data", "zero", "end">>, <<"zero", "end">>}
      [] s = "data" /\ framing = "chunked" -> {<<"data", "zero", "end">>}
      [] s \in {"handle", "send"}          -> {IF framing = "chunked" THEN <<"end">> ELSE <<>>}
      [] OTHER                             -> {}

\* The latest request is being served, and has not been answered.
InStep(c) ==
    stage[c] \in Midway =>
        /\ cur[c] = Len(sent[c]) /\ Len(sent[c]) = Len(answered[c]) + 1
        /\ \E kinds \in Rests(stage[c], Request(c).framing) : Left(c) = Of(kinds, cur[c])
        /\ stage[c] \in {"body", "data"} => buf[c] = <<>>

\* Before and between requests: a head that is left is followed by the rest of
\* the latest request, which has not been answered.
HeadAhead(c) ==
    stage[c] \in {"absent", "header", "sent"} =>
        \A i \in 1..Len(Left(c)) : Left(c)[i].kind = "head" =>
            /\ Len(sent[c]) = Len(answered[c]) + 1
            /\ SubSeq(Left(c), i, Len(Left(c))) = PartsOf(sent[c][Len(sent[c])], Len(sent[c]))

Functional ==
    /\ DOMAIN sent = Conns /\ DOMAIN unsent = Conns /\ DOMAIN wire = Conns
    /\ DOMAIN buf = Conns /\ DOMAIN cur = Conns /\ DOMAIN answered = Conns
    /\ stage \in [Conns -> Waiting \cup {"absent", "handle", "sent", "gone"}]
    /\ closing \in [Conns -> BOOLEAN] /\ shut \in [Conns -> BOOLEAN]
    /\ timer \in [Conns -> BOOLEAN] /\ expired \in [Conns -> BOOLEAN]

Typed(c) ==
    /\ sent[c] \in Seq(Requests[c]) /\ Len(sent[c]) <= MaxRequests[c]
    /\ unsent[c] \in Seq(Parts(c)) /\ wire[c] \in Seq(Parts(c)) /\ buf[c] \in Seq(Parts(c))
    /\ cur[c] \in 0..MaxRequests[c]
    /\ answered[c] \in Seq(1..MaxRequests[c])
    /\ \A i \in 1..Len(answered[c]) : answered[c][i] = i
    /\ stage[c] \in Waiting \cup {"absent", "handle", "sent", "gone"}
    /\ stage[c] = "handle" <=> handling = c
    /\ closing[c] \in BOOLEAN /\ shut[c] \in BOOLEAN
    /\ timer[c] \in BOOLEAN /\ expired[c] \in BOOLEAN

\* A timer set for a request also covers its resource function.
Covered(c) == stage[c] \in Waiting \cup {"handle"} => timer[c] \/ expired[c] \/ shut[c]

ConnInv(c) == Typed(c) /\ Covered(c) /\ InStep(c) /\ HeadAhead(c)

\* Where the next part of a connection is the head of a request, or nothing yet.
Persists(c) == stage[c] = "sent" /\ ~Request(c).last

Fresh(c) ==
    /\ Len(sent[c]) = Len(answered[c]) + 1
    /\ Left(c) = PartsOf(sent[c][Len(sent[c])], Len(sent[c]))

\* A persistent connection has nothing left of one request when it goes on to
\* the next.
Aligned(c) ==
    /\ stage[c] \in {"handle", "send"} /\ Request(c).framing = "chunked" =>
          Request(c).outcome # "bad_size"
    /\ stage[c] = "sent" => cur[c] \in 1..Len(sent[c])
    /\ Persists(c) => buf[c] = <<>>
    /\ stage[c] \in {"absent", "header"} \/ Persists(c) => Left(c) = <<>> \/ Fresh(c)

\* The restriction on clients: chunked content comes in requests that close
\* their connection, as the end of it would be read as the next head.
ChunksLast ==
    \A c \in Conns : \A r \in Requests[c] :
        r.framing = "chunked" => r.last \/ r.outcome = "bad_size"

IInv == Functional /\ handling \in Conns \cup {None} /\ \A c \in Conns : ConnInv(c)

-----------------------------------------------------------------------------
(* Sequences.                                                              *)

\* Names that the provers do not look into.
Cat(s, t)  == s \o t
Rest(s)    == Tail(s)
First(s, k) == SubSeq(s, 1, k)
From(s, k)  == SubSeq(s, k + 1, Len(s))

\* What joining gives, and how long it is.
LEMMA CatType ==
    \A S : \A s, t \in Seq(S) : Cat(s, t) \in Seq(S) /\ Len(Cat(s, t)) = Len(s) + Len(t)
BY ConcatProperties DEF Cat

\* Joining in either order gives the same.
LEMMA CatAssociative ==
    \A S : \A s, t, u \in Seq(S) : Cat(Cat(s, t), u) = Cat(s, Cat(t, u))
<1> TAKE S
<1> TAKE s, t, u \in Seq(S)
<1> QED  BY ConcatAssociative DEF Cat

\* The two pieces of a sequence make it up.
LEMMA CatPieces ==
    \A S : \A w \in Seq(S) : \A k \in 0..Len(w) :
        /\ First(w, k) \in Seq(S) /\ Len(First(w, k)) = k /\ From(w, k) \in Seq(S)
        /\ Cat(First(w, k), From(w, k)) = w
<1> TAKE S
<1> TAKE w \in Seq(S)
<1> TAKE k \in 0..Len(w)
<1>1. Len(w) \in Nat  BY LenProperties
<1>2. First(w, k) \in Seq(S) /\ Len(First(w, k)) = k /\ From(w, k) \in Seq(S)
  BY <1>1, SubSeqProperties, ElementOfSeq DEF First, From
<1>3. 1 \in 1..Len(w) + 1 /\ k \in 1 - 1..Len(w) /\ Len(w) \in k..Len(w)  BY <1>1
<1>4. Cat(First(w, k), From(w, k)) = SubSeq(w, 1, Len(w))
  BY <1>3, ConcatAdjacentSubSeq DEF Cat, First, From
<1>5. QED  BY <1>2, <1>4, SubSeqFull

\* Of a single element nothing remains.
LEMMA RestIsEmpty ==
    \A S : \A p \in Seq(S) :
        /\ Len(p) = 1 => p # <<>> /\ Rest(p) = <<>>
        /\ Len(p) > 1 => p # <<>> /\ Rest(p) # <<>>
<1> TAKE S
<1> TAKE p \in Seq(S)
<1>1. Len(p) \in Nat  BY LenProperties
<1>2. Len(p) > 0 => p # <<>>  BY EmptySeq
<1>3. p # <<>> => Rest(p) \in Seq(S) /\ Len(Rest(p)) = Len(p) - 1
  BY HeadTailProperties DEF Rest
<1>4. Len(p) = 1 => p # <<>> /\ Rest(p) = <<>>
  <2>1. SUFFICES ASSUME Len(p) = 1 PROVE p # <<>> /\ Rest(p) = <<>>  OBVIOUS
  <2>2. p # <<>>  BY <1>2, <2>1
  <2>3. Rest(p) \in Seq(S) /\ Len(Rest(p)) = 0  BY <1>3, <2>1, <2>2
  <2>4. Rest(p) = <<>>  BY <2>3, EmptySeq
  <2>5. QED  BY <2>2, <2>4
<1>5. Len(p) > 1 => p # <<>> /\ Rest(p) # <<>>
  <2>1. SUFFICES ASSUME Len(p) > 1 PROVE p # <<>> /\ Rest(p) # <<>>  OBVIOUS
  <2>2. p # <<>>  BY <1>1, <1>2, <2>1
  <2>3. Len(Rest(p)) > 0  BY <1>1, <1>3, <2>1, <2>2
  <2>4. Rest(p) # <<>>  BY <2>3, EmptySeq
  <2>5. QED  BY <2>2, <2>4
<1>6. QED  BY <1>4, <1>5, Zenon

\* Nothing in front.
LEMMA CatEmpty == \A S : \A t \in Seq(S) : Cat(<<>>, t) = t
BY ConcatEmptySeq DEF Cat

\* Taking the first element takes it from the whole.
LEMMA CatRest ==
    \A S : \A p, q \in Seq(S) : p # <<>> =>
        /\ Cat(p, q) # <<>> /\ Cat(p, q)[1] = p[1]
        /\ Rest(p) \in Seq(S)
        /\ Cat(Rest(p), q) = Rest(Cat(p, q))
<1> TAKE S
<1> TAKE p, q \in Seq(S)
<1> SUFFICES ASSUME p # <<>>
             PROVE  /\ Cat(p, q) # <<>> /\ Cat(p, q)[1] = p[1]
                    /\ Rest(p) \in Seq(S)
                    /\ Cat(Rest(p), q) = Rest(Cat(p, q))
  OBVIOUS
<1> USE DEF Cat, Rest
<1>1. Len(p) \in Nat \ {0} /\ Len(q) \in Nat  BY EmptySeq, LenProperties
<1>2. /\ p \o q \in Seq(S)
      /\ Len(p \o q) = Len(p) + Len(q)
      /\ \A i \in 1..Len(p) + Len(q) : (p \o q)[i] = IF i <= Len(p) THEN p[i] ELSE q[i - Len(p)]
  BY ConcatProperties
<1>3. p \o q # <<>> /\ (p \o q)[1] = p[1]  BY <1>1, <1>2
<1>4. /\ Tail(p) \in Seq(S) /\ Len(Tail(p)) = Len(p) - 1
      /\ \A i \in 1..Len(Tail(p)) : Tail(p)[i] = p[i + 1]
  BY HeadTailProperties
<1>5. /\ Tail(p \o q) \in Seq(S) /\ Len(Tail(p \o q)) = Len(p) + Len(q) - 1
      /\ \A i \in 1..Len(Tail(p \o q)) : Tail(p \o q)[i] = (p \o q)[i + 1]
  BY <1>2, <1>3, HeadTailProperties
<1>6. /\ Tail(p) \o q \in Seq(S) /\ Len(Tail(p) \o q) = Len(p) - 1 + Len(q)
      /\ \A i \in 1..Len(p) - 1 + Len(q) :
            (Tail(p) \o q)[i] = IF i <= Len(p) - 1 THEN Tail(p)[i] ELSE q[i - (Len(p) - 1)]
  BY <1>4, ConcatProperties
<1>7. ASSUME NEW i \in 1..Len(Tail(p) \o q)
      PROVE  (Tail(p) \o q)[i] = Tail(p \o q)[i]
  <2>1. Tail(p \o q)[i] = IF i + 1 <= Len(p) THEN p[i + 1] ELSE q[i + 1 - Len(p)]
    BY <1>1, <1>2, <1>5, <1>6
  <2>2. (Tail(p) \o q)[i] = IF i <= Len(p) - 1 THEN Tail(p)[i] ELSE q[i - (Len(p) - 1)]
    BY <1>1, <1>6
  <2>3. i - (Len(p) - 1) = i + 1 - Len(p) /\ (i <= Len(p) - 1 <=> i + 1 <= Len(p))
    BY <1>1, <1>6
  <2>4. QED  BY <1>1, <1>4, <2>1, <2>2, <2>3
<1>8. Len(Tail(p) \o q) = Len(Tail(p \o q))  BY <1>1, <1>5, <1>6
<1>9. Tail(p) \o q = Tail(p \o q)  BY <1>5, <1>6, <1>7, <1>8, SeqEqual
<1>10. QED  BY <1>2, <1>3, <1>4, <1>9

\* The parts of a request without the first of them.
LEMMA OfTail ==
    ASSUME NEW n,
           NEW kinds \in Seq({"head", "body", "size", "data", "zero", "end"}), kinds # <<>>
    PROVE  /\ Of(kinds, n) # <<>> /\ Of(kinds, n)[1].kind = kinds[1]
           /\ Rest(Of(kinds, n)) = Of(Rest(kinds), n)
<1> DEFINE S == {"head", "body", "size", "data", "zero", "end"}
           T == [kind : S, req : {n}]
           all == Of(kinds, n)
           rest == Of(Tail(kinds), n)
<1>1. /\ Len(kinds) \in Nat \ {0} /\ kinds \in [1..Len(kinds) -> S]
      /\ Tail(kinds) \in Seq(S) /\ Len(Tail(kinds)) = Len(kinds) - 1
      /\ \A i \in 1..Len(kinds) - 1 : Tail(kinds)[i] = kinds[i + 1]
  BY EmptySeq, LenProperties, HeadTailProperties
<1>2. /\ all \in Seq(T) /\ Len(all) = Len(kinds)
      /\ \A i \in 1..Len(kinds) : all[i] = [kind |-> kinds[i], req |-> n]
  BY <1>1 DEF Of
<1>3. /\ rest \in Seq(T) /\ Len(rest) = Len(kinds) - 1
      /\ \A i \in 1..Len(kinds) - 1 : rest[i] = [kind |-> kinds[i + 1], req |-> n]
  BY <1>1 DEF Of
<1> HIDE DEF all, rest, T, S
<1>4. all # <<>> /\ all[1].kind = kinds[1]
  <2>1. all # <<>> /\ all[1] = [kind |-> kinds[1], req |-> n]  BY <1>1, <1>2
  <2>2. QED  BY <2>1
<1>5. /\ Tail(all) \in Seq(T) /\ Len(Tail(all)) = Len(kinds) - 1
      /\ \A i \in 1..Len(kinds) - 1 : Tail(all)[i] = all[i + 1]
  BY <1>2, <1>4, HeadTailProperties
<1>6. ASSUME NEW i \in 1..Len(Tail(all)) PROVE Tail(all)[i] = rest[i]
  <2>1. i \in 1..Len(kinds) - 1 /\ i + 1 \in 1..Len(kinds)  BY <1>1, <1>5
  <2>2. Tail(all)[i] = all[i + 1]  BY <1>5, <2>1
  <2>3. QED  BY <1>2, <1>3, <2>1, <2>2
<1>7. Tail(all) = rest  BY <1>3, <1>5, <1>6, SeqEqual
<1>8. QED  BY <1>4, <1>7 DEF all, rest, Rest

-----------------------------------------------------------------------------
(* Reads.                                                                  *)

\* A read moves the border between the buffer and the wire; parts used are
\* gone from what is left.
LEMMA ReadUses ==
    ASSUME NEW S, NEW b \in Seq(S), NEW w \in Seq(S), NEW u \in Seq(S), NEW k \in 0..Len(w),
           Cat(b, First(w, k)) # <<>>
    PROVE  LET p == Cat(b, First(w, k))
               q == From(w, k)
               left == Cat(Cat(b, w), u)
           IN  /\ left \in Seq(S) /\ left # <<>> /\ left[1] = p[1]
               /\ p \in Seq(S) /\ q \in Seq(S)
               /\ Rest(p) \in Seq(S) /\ Cat(Cat(Rest(p), q), u) = Rest(left)
               /\ Rest(p) # <<>> =>
                     /\ Rest(left) # <<>>
                     /\ Rest(Rest(p)) \in Seq(S)
                     /\ Cat(Cat(Rest(Rest(p)), q), u) = Rest(Rest(left))
<1> DEFINE p == Cat(b, First(w, k))
           q == From(w, k)
           v == Cat(q, u)
           left == Cat(Cat(b, w), u)
<1>1. First(w, k) \in Seq(S) /\ q \in Seq(S) /\ Cat(First(w, k), q) = w  BY CatPieces
<1>2. p \in Seq(S) /\ v \in Seq(S)  BY <1>1, CatType
<1>3. Cat(p, v) = left
  <2>1. Cat(p, v) = Cat(Cat(p, q), u)  BY <1>1, <1>2, CatAssociative
  <2>2. Cat(p, q) = Cat(b, w)  BY <1>1, CatAssociative
  <2>3. QED  BY <2>1, <2>2
<1> HIDE DEF p, q, v, left
<1>4. p # <<>>  BY DEF p
<1>5. left \in Seq(S)  BY <1>2, <1>3, CatType
<1>6. left # <<>> /\ left[1] = p[1] /\ Rest(p) \in Seq(S) /\ Cat(Rest(p), v) = Rest(left)
  BY <1>2, <1>3, <1>4, CatRest
<1>7. \A x \in Seq(S) : Cat(Cat(x, q), u) = Cat(x, v)  BY <1>1, CatAssociative DEF v
<1>8. Rest(p) # <<>> => /\ Rest(left) # <<>> /\ Rest(Rest(p)) \in Seq(S)
                        /\ Cat(Rest(Rest(p)), v) = Rest(Rest(left))
  BY <1>2, <1>6, CatRest
<1>9. QED  BY <1>1, <1>2, <1>5, <1>6, <1>7, <1>8 DEF p, q, left

\* On a connection.
LEMMA ReadTakes ==
    ASSUME NEW c \in Conns, Typed(c), NEW k \in 0..Len(wire[c]), Read(c, k) # <<>>
    PROVE  LET p == Read(c, k)
               w == From(wire[c], k)
           IN  /\ Left(c) \in Seq(Parts(c)) /\ Left(c) # <<>> /\ Left(c)[1] = p[1]
               /\ p \in Seq(Parts(c)) /\ w \in Seq(Parts(c))
               /\ Rest(p) \in Seq(Parts(c)) /\ Cat(Cat(Rest(p), w), unsent[c]) = Rest(Left(c))
               /\ Rest(p) # <<>> =>
                     /\ Rest(Left(c)) # <<>>
                     /\ Rest(Rest(p)) \in Seq(Parts(c))
                     /\ Cat(Cat(Rest(Rest(p)), w), unsent[c]) = Rest(Rest(Left(c)))
<1> DEFINE S == Parts(c)
<1>1. buf[c] \in Seq(S) /\ wire[c] \in Seq(S) /\ unsent[c] \in Seq(S)  BY DEF Typed
<1>2. /\ Read(c, k) = Cat(buf[c], First(wire[c], k))
      /\ Left(c) = Cat(Cat(buf[c], wire[c]), unsent[c])
  BY DEF Read, Left, Cat, First
<1> HIDE DEF S
<1>3. QED  BY <1>1, <1>2, ReadUses DEF S

\* A head that is read begins the latest request, of which all is left.
LEMMA HeadRead ==
    ASSUME NEW c \in Conns, ConnInv(c), stage[c] = "header",
           NEW k \in 0..Len(wire[c]), Read(c, k) # <<>>, Read(c, k)[1].kind = "head"
    PROVE  LET n == Len(sent[c])
               r == sent[c][n]
           IN  /\ n \in 1..MaxRequests[c] /\ n = Len(answered[c]) + 1
               /\ r \in Requests[c] /\ r.framing \in Framings
               /\ Read(c, k)[1].req = n
               /\ Left(c) = Of(KindsOf(r.framing), n)
<1> DEFINE n == Len(sent[c])
           r == sent[c][n]
           left == Left(c)
<1>1. Typed(c) /\ HeadAhead(c)  BY DEF ConnInv
<1>2. left \in Seq(Parts(c)) /\ left # <<>> /\ left[1] = Read(c, k)[1]  BY <1>1, ReadTakes
<1>3. Len(left) \in Nat \ {0}  BY <1>2, EmptySeq
<1>4. n = Len(answered[c]) + 1 /\ SubSeq(left, 1, Len(left)) = PartsOf(r, n)
  BY <1>1, <1>2, <1>3 DEF HeadAhead
<1>5. left = PartsOf(r, n)  BY <1>2, <1>4, SubSeqFull
<1>6. n \in 1..MaxRequests[c] /\ r \in Requests[c]
  BY <1>1, <1>4, LenProperties, ElementOfSeq, NumbersAssumption DEF Typed
<1>7. r.framing \in Framings  BY <1>6, RequestsAssumption
<1>8. left = Of(KindsOf(r.framing), n)  BY <1>5 DEF PartsOf, Of
<1>9. left[1].req = n
  <2>1. Len(left) = Len(KindsOf(r.framing)) /\ \A i \in 1..Len(left) : left[i].req = n
    BY <1>2, <1>3, <1>5 DEF PartsOf
  <2>2. QED  BY <1>3, <2>1
<1>10. QED  BY <1>2, <1>4, <1>6, <1>7, <1>8, <1>9

-----------------------------------------------------------------------------
(* Steps of one connection leave the others alone.                         *)

StepOf(c) ==
    \/ \E r \in Requests[c] : Begin(c, r)
    \/ Transmit(c) \/ ClientCloses(c)
    \/ Accept(c)
    \/ TimerExpires(c)
    \/ ServerStep(c)

\* Nothing of another connection changes; the thread enters or leaves the
\* resource function of this one only.
Elsewhere(c) ==
    /\ \A d \in Conns \ {c} :
          /\ sent'[d] = sent[d] /\ unsent'[d] = unsent[d] /\ closing'[d] = closing[d]
          /\ wire'[d] = wire[d] /\ stage'[d] = stage[d] /\ buf'[d] = buf[d]
          /\ cur'[d] = cur[d] /\ shut'[d] = shut[d] /\ answered'[d] = answered[d]
          /\ timer'[d] = timer[d] /\ expired'[d] = expired[d]
    /\ handling' = handling \/ {handling, handling'} \subseteq {None, c}

\* Every action of a connection writes to its own part of the variables.
LEMMA StepLocal ==
    ASSUME Functional, NEW c \in Conns, ConnInv(c), StepOf(c)
    PROVE  Functional' /\ Elsewhere(c)
<1>1. CASE \E r \in Requests[c] : Begin(c, r)
  BY <1>1 DEF Begin, Functional, Waiting, Elsewhere, session_vars, timeout_vars
<1>2. CASE Transmit(c) \/ ClientCloses(c)
  BY <1>2 DEF Transmit, ClientCloses, Functional, Waiting, Elsewhere, session_vars, timeout_vars
<1>3. CASE Accept(c) \/ TimerExpires(c) \/ TimeoutHandler(c)
  <2>1. CASE Accept(c)
    BY <2>1 DEF Accept, set_timeout, Functional, Waiting, Elsewhere, client_vars
  <2>2. CASE TimerExpires(c)
    BY <2>2 DEF TimerExpires, Functional, Elsewhere, client_vars, session_vars
  <2>3. CASE TimeoutHandler(c)
    BY <2>3 DEF TimeoutHandler, Functional, Elsewhere, client_vars, session_vars
  <2>4. QED  BY <1>3, <2>1, <2>2, <2>3
<1>4. CASE ReadHeader(c)
  <2>1. PICK k \in 0..Len(wire[c]) :
          LET p == Read(c, k)  r == sent[c][p[1].req] IN
          /\ p # <<>> /\ p[1].kind = "head"
          /\ Consume(c, k)
          /\ cur' = [cur EXCEPT ![c] = p[1].req]
          /\ CASE r.framing = "chunked" -> Await(c, "size", Tail(p))
               [] r.framing = "length" /\ Len(p) = 1 -> Await(c, "body", <<>>)
               [] r.framing = "length" /\ Len(p) > 1 -> Handle(c, Tail(Tail(p)))
               [] r.framing = "none" -> Handle(c, Tail(p))
    BY <1>4 DEF ReadHeader
  <2>2. /\ stage[c] = "header" /\ handling = None
        /\ set_timeout(c) /\ UNCHANGED <<client_vars, shut, answered>>
    BY <1>4 DEF ReadHeader, CanRead
  <2> DEFINE p == Read(c, k)
             framing == sent[c][p[1].req].framing
  <2>3. framing \in Framings  BY <2>1, <2>2, HeadRead
  <2>4. Len(p) \in Nat \ {0}  BY <2>1, ReadTakes, EmptySeq DEF ConnInv
  <2> HIDE DEF p
  <2>5. CASE framing = "chunked"
    <3>1. Await(c, "size", Tail(p))  BY <2>1, <2>5 DEF p
    <3>2. QED
      BY <2>1, <2>2, <3>1
      DEF Consume, Await, set_timeout, Functional, Waiting, Elsewhere, client_vars
  <2>6. CASE framing # "chunked"
    <3>1. \/ Await(c, "body", <<>>) \/ Handle(c, Tail(Tail(p))) \/ Handle(c, Tail(p))
      <4>1. CASE framing = "none"  BY <2>1, <4>1 DEF p
      <4>2. CASE framing = "length" /\ Len(p) = 1  BY <2>1, <4>2 DEF p
      <4>3. CASE framing = "length" /\ Len(p) > 1  BY <2>1, <4>3 DEF p
      <4>4. framing \in {"none", "length"}  BY <2>3, <2>6 DEF Framings
      <4>5. Len(p) = 1 \/ Len(p) > 1
        <5>1. PICK m \in Nat \ {0} : m = Len(p)  BY <2>4
        <5>2. m = 1 \/ m > 1  OBVIOUS
        <5>3. QED  BY <5>1, <5>2
      <4>6. QED  BY <4>1, <4>2, <4>3, <4>4, <4>5, Zenon
    <3>2. QED
      BY <2>1, <2>2, <3>1
      DEF Consume, Await, Handle, set_timeout, Functional, Waiting, Elsewhere, client_vars
  <2>7. QED  BY <2>5, <2>6
<1>5. CASE ReadBody(c) \/ ReadData(c)
  BY <1>5 DEF ReadBody, ReadData, CanRead, Consume, Await, Handle, Functional, Waiting, Elsewhere,
    client_vars, timeout_vars
<1>6. CASE ReadSize(c)
  <2>1. /\ \E k \in 0..Len(wire[c]) : Consume(c, k)
        /\ \E rest : Handle(c, rest) \/ Await(c, "data", rest) \/ Await(c, "size", rest)
        /\ handling = None /\ UNCHANGED <<client_vars, cur, shut, timeout_vars, answered>>
    BY <1>6 DEF ReadSize, CanRead
  <2>2. QED
    BY <2>1 DEF Consume, Await, Handle, Functional, Waiting, Elsewhere, client_vars, timeout_vars
<1>7. CASE ParseFails(c) \/ BadSize(c) \/ ReadFails(c)
  BY <1>7 DEF ParseFails, BadSize, ReadFails, Consume, Drop, Functional, Waiting, Elsewhere,
    client_vars
<1>8. CASE NoResource(c) \/ SendFails(c) \/ Finish(c)
  BY <1>8 DEF NoResource, SendFails, Finish, Drop, Functional, Waiting, Elsewhere, client_vars
<1>9. CASE HandlerReturns(c) \/ Sent(c) \/ Continue(c)
  BY <1>9 DEF HandlerReturns, Sent, Continue, set_timeout, Functional, Waiting, Elsewhere,
    client_vars, session_vars, timeout_vars
<1>10. QED
  BY <1>1, <1>2, <1>3, <1>4, <1>5, <1>6, <1>7, <1>8, <1>9 DEF StepOf, ServerStep

\* So what holds of the others goes on to hold.
LEMMA OthersInv ==
    ASSUME NEW c \in Conns, NEW d \in Conns \ {c}, Elsewhere(c), ConnInv(d)
    PROVE  ConnInv(d)'
<1>1. Left(d)' = Left(d)  BY DEF Left, Elsewhere
<1>2. handling' = d <=> handling = d  BY NumbersAssumption DEF Elsewhere
<1>3. Typed(d)'  BY <1>2 DEF ConnInv, Typed, Elsewhere, Parts
<1>4. Covered(d)'  BY DEF ConnInv, Covered, Elsewhere
<1>5. InStep(d)'  BY <1>1 DEF ConnInv, InStep, Request, Elsewhere
<1>6. HeadAhead(d)'  BY <1>1 DEF ConnInv, HeadAhead, Elsewhere
<1>7. QED  BY <1>3, <1>4, <1>5, <1>6 DEF ConnInv

-----------------------------------------------------------------------------
(* What a step does to its own connection.                                 *)

\* Steps that leave the parts and the stage alone.
LEMMA SameParts ==
    ASSUME NEW c \in Conns, InStep(c), HeadAhead(c),
           buf'[c] = buf[c], wire'[c] = wire[c], unsent'[c] = unsent[c],
           sent'[c] = sent[c], cur'[c] = cur[c], answered'[c] = answered[c],
           stage'[c] = stage[c]
    PROVE  InStep(c)' /\ HeadAhead(c)'
<1>1. Left(c)' = Left(c)  BY DEF Left
<1>2. QED  BY <1>1 DEF InStep, Request, HeadAhead

\* Clients that close, timers that expire, and their handler.
LEMMA WaitingInv ==
    ASSUME Functional, NEW c \in Conns, ConnInv(c),
           ClientCloses(c) \/ TimerExpires(c) \/ TimeoutHandler(c)
    PROVE  ConnInv(c)'
<1>1. /\ buf' = buf /\ wire' = wire /\ unsent' = unsent /\ sent' = sent /\ cur' = cur
      /\ answered' = answered /\ stage' = stage /\ handling' = handling
  BY DEF ClientCloses, TimerExpires, TimeoutHandler, client_vars, session_vars
<1>2. InStep(c)' /\ HeadAhead(c)'  BY <1>1, SameParts DEF ConnInv
<1>3. /\ closing'[c] \in BOOLEAN /\ shut'[c] \in BOOLEAN
      /\ timer'[c] \in BOOLEAN /\ expired'[c] \in BOOLEAN
  <2>1. /\ closing[c] \in BOOLEAN /\ shut[c] \in BOOLEAN
        /\ timer[c] \in BOOLEAN /\ expired[c] \in BOOLEAN
    BY DEF ConnInv, Typed
  <2>2. CASE ClientCloses(c)  BY <2>1, <2>2 DEF ClientCloses, Functional, timeout_vars
  <2>3. CASE TimerExpires(c)  BY <2>1, <2>3 DEF TimerExpires, Functional, client_vars
  <2>4. CASE TimeoutHandler(c)  BY <2>1, <2>4 DEF TimeoutHandler, Functional, client_vars
  <2>5. QED  BY <2>2, <2>3, <2>4
<1>4. Typed(c)'  BY <1>1, <1>3 DEF ConnInv, Typed, Parts
<1>5. Covered(c)'
  BY <1>1 DEF ConnInv, Typed, Covered, Functional, ClientCloses, TimerExpires, TimeoutHandler,
    timeout_vars
<1>6. QED  BY <1>2, <1>4, <1>5 DEF ConnInv

\* A connection that has gone waits for nothing.
LEMMA GoneInv ==
    ASSUME NEW c \in Conns, ConnInv(c), stage'[c] = "gone", handling' # c,
           buf'[c] = <<>>, wire'[c] \in Seq(Parts(c)),
           timer'[c] = FALSE, expired'[c] = FALSE,
           unsent'[c] = unsent[c], sent'[c] = sent[c], cur'[c] = cur[c],
           answered'[c] = answered[c], closing'[c] = closing[c], shut'[c] = shut[c]
    PROVE  ConnInv(c)'
<1>1. Parts(c)' = Parts(c) /\ <<>> \in Seq(Parts(c))  BY DEF Parts
<1>2. Typed(c)'
  <2>1. sent'[c] \in Seq(Requests[c]) /\ Len(sent'[c]) <= MaxRequests[c]  BY DEF ConnInv, Typed
  <2>2. /\ unsent'[c] \in Seq(Parts(c)) /\ wire'[c] \in Seq(Parts(c))
        /\ buf'[c] \in Seq(Parts(c))
    BY <1>1 DEF ConnInv, Typed
  <2>3. /\ answered'[c] \in Seq(1..MaxRequests[c])
        /\ \A i \in 1..Len(answered'[c]) : answered'[c][i] = i
    BY DEF ConnInv, Typed
  <2>4. /\ cur'[c] \in 0..MaxRequests[c]
        /\ stage'[c] \in Waiting \cup {"absent", "handle", "sent", "gone"}
        /\ stage'[c] = "handle" <=> handling' = c
        /\ closing'[c] \in BOOLEAN /\ shut'[c] \in BOOLEAN
        /\ timer'[c] \in BOOLEAN /\ expired'[c] \in BOOLEAN
    BY DEF ConnInv, Typed
  <2>5. QED  BY <1>1, <2>1, <2>2, <2>3, <2>4 DEF Typed, Waiting
<1>3. Covered(c)' /\ InStep(c)' /\ HeadAhead(c)'
  BY DEF Covered, InStep, HeadAhead, Waiting, Midway
<1>4. QED  BY <1>2, <1>3 DEF ConnInv

\* Each way in which a session and its connection go.
LEMMA DropInv ==
    ASSUME Functional, NEW c \in Conns, ConnInv(c),
           \/ ParseFails(c) \/ BadSize(c) \/ ReadFails(c)
           \/ NoResource(c) \/ SendFails(c) \/ Finish(c)
    PROVE  ConnInv(c)'
<1>1. /\ Drop(c) /\ handling' = None /\ UNCHANGED <<client_vars, cur, shut, answered>>
  BY DEF ParseFails, BadSize, ReadFails, NoResource, SendFails, Finish, CanRead
<1>2. wire[c] \in Seq(Parts(c))  BY DEF ConnInv, Typed
<1>3. wire'[c] \in Seq(Parts(c))
  <2>1. CASE ParseFails(c)
    <3>1. PICK k \in 0..Len(wire[c]) : wire'[c] = From(wire[c], k)
      BY <2>1 DEF ParseFails, Consume, From, Functional
    <3>2. From(wire[c], k) \in Seq(Parts(c))  BY <1>2, CatPieces
    <3>3. QED  BY <3>1, <3>2
  <2>2. CASE \/ BadSize(c) \/ ReadFails(c) \/ NoResource(c) \/ SendFails(c) \/ Finish(c)
    BY <1>2, <2>2 DEF BadSize, ReadFails, NoResource, SendFails, Finish
  <2>3. QED  BY <2>1, <2>2
<1>4. handling' # c  BY <1>1, NumbersAssumption
<1>5. /\ stage'[c] = "gone" /\ buf'[c] = <<>> /\ timer'[c] = FALSE /\ expired'[c] = FALSE
      /\ unsent'[c] = unsent[c] /\ sent'[c] = sent[c] /\ cur'[c] = cur[c]
      /\ answered'[c] = answered[c] /\ closing'[c] = closing[c] /\ shut'[c] = shut[c]
  BY <1>1 DEF Drop, Functional, client_vars
<1>6. QED  BY <1>3, <1>4, <1>5, GoneInv

\* An accepted connection has a timer before it reads.
LEMMA AcceptInv ==
    ASSUME Functional, NEW c \in Conns, ConnInv(c), Accept(c)
    PROVE  ConnInv(c)'
<1>1. /\ buf' = buf /\ wire' = wire /\ unsent' = unsent /\ sent' = sent /\ cur' = cur
      /\ answered' = answered /\ handling' = handling /\ closing' = closing /\ shut' = shut
      /\ stage[c] = "absent" /\ stage'[c] = "header" /\ timer'[c] = TRUE /\ expired' = expired
  BY DEF Accept, set_timeout, client_vars, Functional
<1>2. Left(c)' = Left(c)  BY <1>1 DEF Left
<1>3. HeadAhead(c)'  BY <1>1, <1>2 DEF ConnInv, HeadAhead
<1>4. InStep(c)' /\ Covered(c)'  BY <1>1 DEF InStep, Covered, Midway
<1>5. Typed(c)'  BY <1>1 DEF ConnInv, Typed, Parts, Waiting
<1>6. QED  BY <1>3, <1>4, <1>5 DEF ConnInv

\* The answer is sent under the timer that was set for the request.
LEMMA ReturnInv ==
    ASSUME Functional, NEW c \in Conns, ConnInv(c), HandlerReturns(c)
    PROVE  ConnInv(c)'
<1>1. /\ buf' = buf /\ wire' = wire /\ unsent' = unsent /\ sent' = sent /\ cur' = cur
      /\ answered' = answered /\ handling' = None /\ closing' = closing /\ shut' = shut
      /\ stage'[c] = "send" /\ timer' = timer /\ expired' = expired /\ handling = c
  BY DEF HandlerReturns, timeout_vars, client_vars, Functional
<1>2. stage[c] = "handle"  BY <1>1 DEF ConnInv, Typed
<1>3. Left(c)' = Left(c)  BY <1>1 DEF Left
<1>4. HeadAhead(c)'  BY <1>1 DEF HeadAhead
<1>5. InStep(c)'
  <2>1. Request(c)' = Request(c)  BY <1>1 DEF Request
  <2>2. Rests(stage[c], Request(c).framing) = Rests(stage'[c], Request(c).framing)
    BY <1>1, <1>2 DEF Rests
  <2>3. QED  BY <1>1, <1>2, <1>3, <2>1, <2>2 DEF ConnInv, InStep, Midway
<1>6. Covered(c)'  BY <1>1, <1>2 DEF ConnInv, Covered, Waiting
<1>7. Typed(c)'  BY <1>1, NumbersAssumption DEF ConnInv, Typed, Parts, Waiting
<1>8. QED  BY <1>4, <1>5, <1>6, <1>7 DEF ConnInv

\* A read of a single part, when nothing is in the buffer.
LEMMA ReadsOne ==
    ASSUME NEW c \in Conns, Typed(c), buf[c] = <<>>, wire[c] # <<>>
    PROVE  /\ From(wire[c], 1) \in Seq(Parts(c))
           /\ Cat(Cat(<<>>, From(wire[c], 1)), unsent[c]) = Rest(Left(c))
<1> DEFINE p == Read(c, 1)
           S == Parts(c)
<1>1. wire[c] \in Seq(S) /\ Len(wire[c]) \in Nat \ {0} /\ buf[c] \in Seq(S)
  BY EmptySeq DEF Typed
<1>2. 1 \in 0..Len(wire[c])  BY <1>1
<1>3. p = Cat(buf[c], First(wire[c], 1))  BY DEF Read, Cat, First
<1> HIDE DEF S, p
<1>4. First(wire[c], 1) \in Seq(S) /\ Len(First(wire[c], 1)) = 1  BY <1>1, <1>2, CatPieces
<1>5. p = First(wire[c], 1)  BY <1>3, <1>4, CatEmpty
<1>6. p \in Seq(S) /\ Len(p) = 1  BY <1>4, <1>5
<1>7. p # <<>> /\ Rest(p) = <<>>  BY <1>6, RestIsEmpty
<1>8. QED  BY <1>2, <1>7, ReadTakes DEF p

\* What remains of the parts of a request, one by one.
LEMMA PartsLeft ==
    ASSUME NEW n
    PROVE  /\ Rest(Of(<<"head">>, n)) = Of(<<>>, n)
           /\ Rest(Of(<<"head", "body">>, n)) = Of(<<"body">>, n)
           /\ Rest(Of(<<"body">>, n)) = Of(<<>>, n)
           /\ Rest(Of(<<"head", "size", "data", "zero", "end">>, n))
                = Of(<<"size", "data", "zero", "end">>, n)
           /\ Rest(Of(<<"size", "data", "zero", "end">>, n)) = Of(<<"data", "zero", "end">>, n)
           /\ Rest(Of(<<"data", "zero", "end">>, n)) = Of(<<"zero", "end">>, n)
           /\ Rest(Of(<<"zero", "end">>, n)) = Of(<<"end">>, n)
           /\ Of(<<"size", "data", "zero", "end">>, n)[1].kind = "size"
           /\ Of(<<"zero", "end">>, n)[1].kind = "zero"
<1> DEFINE S == {"head", "body", "size", "data", "zero", "end"}
<1>1. \A kinds \in Seq(S) : kinds # <<>> =>
          /\ Rest(Of(kinds, n)) = Of(Rest(kinds), n)
          /\ Of(kinds, n)[1].kind = kinds[1]
  <2>1. ASSUME NEW kinds \in Seq(S), kinds # <<>>
        PROVE  /\ Rest(Of(kinds, n)) = Of(Rest(kinds), n)
               /\ Of(kinds, n)[1].kind = kinds[1]
    BY <2>1, OfTail
  <2>2. QED  BY <2>1
<1>2. /\ <<"head">> \in Seq(S) /\ <<"head">> # <<>> /\ Rest(<<"head">>) = <<>>
      /\ <<"head", "body">> \in Seq(S) /\ <<"head", "body">> # <<>>
      /\ Rest(<<"head", "body">>) = <<"body">>
      /\ <<"body">> \in Seq(S) /\ <<"body">> # <<>> /\ Rest(<<"body">>) = <<>>
  BY DEF Rest
<1>3. /\ <<"head", "size", "data", "zero", "end">> \in Seq(S)
      /\ <<"head", "size", "data", "zero", "end">> # <<>>
      /\ Rest(<<"head", "size", "data", "zero", "end">>) = <<"size", "data", "zero", "end">>
      /\ <<"size", "data", "zero", "end">> \in Seq(S)
      /\ <<"size", "data", "zero", "end">> # <<>>
      /\ Rest(<<"size", "data", "zero", "end">>) = <<"data", "zero", "end">>
      /\ <<"size", "data", "zero", "end">>[1] = "size"
  BY DEF Rest
<1>4. /\ <<"data", "zero", "end">> \in Seq(S) /\ <<"data", "zero", "end">> # <<>>
      /\ Rest(<<"data", "zero", "end">>) = <<"zero", "end">>
      /\ <<"zero", "end">> \in Seq(S) /\ <<"zero", "end">> # <<>>
      /\ Rest(<<"zero", "end">>) = <<"end">>
      /\ <<"zero", "end">>[1] = "zero"
  BY DEF Rest
<1> HIDE DEF S
<1>5. QED  BY <1>1, <1>2, <1>3, <1>4

\* A read that leaves the connection within its request.
LEMMA MidwayInv ==
    ASSUME NEW c \in Conns, ConnInv(c),
           stage'[c] \in {"body", "size", "data", "handle"},
           stage'[c] = "handle" <=> handling' = c,
           buf'[c] \in Seq(Parts(c)), wire'[c] \in Seq(Parts(c)),
           stage'[c] \in {"body", "data"} => buf'[c] = <<>>,
           cur'[c] = Len(sent[c]), Len(sent[c]) = Len(answered[c]) + 1,
           \E kinds \in Rests(stage'[c], sent[c][Len(sent[c])].framing) :
              Cat(Cat(buf'[c], wire'[c]), unsent[c]) = Of(kinds, Len(sent[c])),
           timer'[c] \in BOOLEAN, expired'[c] \in BOOLEAN,
           timer'[c] \/ expired'[c] \/ shut[c],
           unsent'[c] = unsent[c], sent'[c] = sent[c], answered'[c] = answered[c],
           closing'[c] = closing[c], shut'[c] = shut[c]
    PROVE  ConnInv(c)'
<1>1. Parts(c)' = Parts(c)  BY DEF Parts
<1>2. Left(c)' = Cat(Cat(buf'[c], wire'[c]), unsent[c])  BY DEF Left, Cat
<1>3. InStep(c)'
  <2>1. Request(c)' = sent[c][Len(sent[c])]  BY DEF Request
  <2>2. QED  BY <1>2, <2>1 DEF InStep
<1>4. HeadAhead(c)'  BY DEF HeadAhead
<1>5. Covered(c)'  BY DEF Covered
<1>6. Len(sent[c]) \in 0..MaxRequests[c]
  BY LenProperties, NumbersAssumption DEF ConnInv, Typed
<1>7. Typed(c)'
  <2>1. sent'[c] \in Seq(Requests[c]) /\ Len(sent'[c]) <= MaxRequests[c]  BY DEF ConnInv, Typed
  <2>2. unsent'[c] \in Seq(Parts(c))  BY DEF ConnInv, Typed
  <2>3. /\ answered'[c] \in Seq(1..MaxRequests[c])
        /\ \A i \in 1..Len(answered'[c]) : answered'[c][i] = i
    BY DEF ConnInv, Typed
  <2>4. /\ cur'[c] \in 0..MaxRequests[c]
        /\ stage'[c] \in Waiting \cup {"absent", "handle", "sent", "gone"}
        /\ closing'[c] \in BOOLEAN /\ shut'[c] \in BOOLEAN
    BY <1>6 DEF ConnInv, Typed, Waiting
  <2>5. QED  BY <1>1, <2>1, <2>2, <2>3, <2>4 DEF Typed, Waiting
<1>8. QED  BY <1>3, <1>4, <1>5, <1>7 DEF ConnInv

\* Behind the head everything is left that belongs to its request.
LEMMA HeaderInv ==
    ASSUME Functional, NEW c \in Conns, ConnInv(c), ReadHeader(c)
    PROVE  ConnInv(c)'
<1> DEFINE n == Len(sent[c])
           framing == sent[c][n].framing
           u == unsent[c]
<1>1. PICK k \in 0..Len(wire[c]) :
          LET p == Read(c, k)  r == sent[c][p[1].req] IN
          /\ p # <<>> /\ p[1].kind = "head"
          /\ Consume(c, k)
          /\ cur' = [cur EXCEPT ![c] = p[1].req]
          /\ CASE r.framing = "chunked" -> Await(c, "size", Tail(p))
               [] r.framing = "length" /\ Len(p) = 1 -> Await(c, "body", <<>>)
               [] r.framing = "length" /\ Len(p) > 1 -> Handle(c, Tail(Tail(p)))
               [] r.framing = "none" -> Handle(c, Tail(p))
  BY DEF ReadHeader
<1>2. /\ stage[c] = "header" /\ handling = None
      /\ set_timeout(c) /\ UNCHANGED <<client_vars, shut, answered>>
  BY DEF ReadHeader, CanRead
<1> DEFINE p == Read(c, k)
           w == From(wire[c], k)
           left == Left(c)
<1>3. /\ n \in 1..MaxRequests[c] /\ n = Len(answered[c]) + 1 /\ framing \in Framings
      /\ p[1].req = n /\ left = Of(KindsOf(framing), n)
  BY <1>1, <1>2, HeadRead
<1>4. /\ p \in Seq(Parts(c)) /\ p # <<>> /\ w \in Seq(Parts(c))
      /\ Rest(p) \in Seq(Parts(c)) /\ Cat(Cat(Rest(p), w), u) = Rest(left)
      /\ Rest(p) # <<>> => /\ Rest(Rest(p)) \in Seq(Parts(c))
                           /\ Cat(Cat(Rest(Rest(p)), w), u) = Rest(Rest(left))
  BY <1>1, ReadTakes DEF ConnInv
<1>5. Len(p) = 1 \/ Len(p) > 1
  <2>1. PICK m \in Nat \ {0} : m = Len(p)  BY <1>4, EmptySeq
  <2>2. m = 1 \/ m > 1  OBVIOUS
  <2>3. QED  BY <2>1, <2>2
<1>6. /\ Len(p) = 1 => Rest(p) = <<>>
      /\ Len(p) > 1 => Rest(p) # <<>>
  BY <1>4, RestIsEmpty
<1>7. /\ wire'[c] = w /\ cur'[c] = n /\ timer'[c] = TRUE /\ expired' = expired
      /\ sent' = sent /\ unsent' = unsent /\ closing' = closing
      /\ shut' = shut /\ answered' = answered /\ handling # c
  BY <1>1, <1>2, <1>3, NumbersAssumption DEF Consume, From, set_timeout, client_vars, Functional
<1>8. expired'[c] \in BOOLEAN  BY <1>7 DEF ConnInv, Typed
<1>9. SUFFICES /\ stage'[c] \in {"body", "size", "handle"}
               /\ stage'[c] = "handle" <=> handling' = c
               /\ buf'[c] \in Seq(Parts(c))
               /\ stage'[c] = "body" => buf'[c] = <<>>
               /\ \E kinds \in Rests(stage'[c], framing) :
                     Cat(Cat(buf'[c], w), u) = Of(kinds, n)
  BY <1>3, <1>4, <1>7, <1>8, MidwayInv
<1>10. CASE framing = "chunked"
  <2>1. Await(c, "size", Rest(p))  BY <1>1, <1>3, <1>10 DEF Rest
  <2>2. stage'[c] = "size" /\ buf'[c] = Rest(p) /\ handling' = handling
    BY <2>1 DEF Await, Functional
  <2>3. left = Of(<<"head", "size", "data", "zero", "end">>, n)
    BY <1>3, <1>10 DEF KindsOf
  <2>4. Cat(Cat(Rest(p), w), u) = Of(<<"size", "data", "zero", "end">>, n)
    BY <1>4, <2>3, PartsLeft
  <2>5. QED  BY <1>4, <1>7, <1>10, <2>2, <2>4 DEF Rests
<1>11. CASE framing = "length" /\ Len(p) = 1
  <2>1. Await(c, "body", <<>>)  BY <1>1, <1>3, <1>11
  <2>2. stage'[c] = "body" /\ buf'[c] = <<>> /\ handling' = handling
    BY <2>1 DEF Await, Functional
  <2>3. left = Of(<<"head", "body">>, n)  BY <1>3, <1>11 DEF KindsOf
  <2>4. Cat(Cat(<<>>, w), u) = Of(<<"body">>, n)  BY <1>4, <1>6, <1>11, <2>3, PartsLeft
  <2>5. QED  BY <1>7, <1>11, <2>2, <2>4 DEF Rests
<1>12. CASE framing = "length" /\ Len(p) > 1
  <2>1. Handle(c, Rest(Rest(p)))  BY <1>1, <1>3, <1>12 DEF Rest
  <2>2. stage'[c] = "handle" /\ buf'[c] = Rest(Rest(p)) /\ handling' = c
    BY <2>1 DEF Handle, Functional
  <2>3. left = Of(<<"head", "body">>, n)  BY <1>3, <1>12 DEF KindsOf
  <2>4. Cat(Cat(Rest(Rest(p)), w), u) = Of(<<>>, n)
    BY <1>4, <1>6, <1>12, <2>3, PartsLeft
  <2>5. QED  BY <1>4, <1>6, <1>12, <2>2, <2>4 DEF Rests
<1>13. CASE framing = "none"
  <2>1. Handle(c, Rest(p))  BY <1>1, <1>3, <1>13 DEF Rest
  <2>2. stage'[c] = "handle" /\ buf'[c] = Rest(p) /\ handling' = c
    BY <2>1 DEF Handle, Functional
  <2>3. left = Of(<<"head">>, n)  BY <1>3, <1>13 DEF KindsOf
  <2>4. Cat(Cat(Rest(p), w), u) = Of(<<>>, n)  BY <1>4, <2>3, PartsLeft
  <2>5. QED  BY <1>4, <1>13, <2>2, <2>4 DEF Rests
<1>14. QED  BY <1>3, <1>5, <1>10, <1>11, <1>12, <1>13 DEF Framings

\* The rest of a request in hand, when a read is to take a body or a chunk.
LEMMA PieceRead ==
    ASSUME Functional, NEW c \in Conns, ConnInv(c), stage[c] \in {"body", "data"},
           wire[c] # <<>>, Consume(c, 1)
    PROVE  /\ cur[c] = Len(sent[c]) /\ Len(sent[c]) = Len(answered[c]) + 1
           /\ wire'[c] \in Seq(Parts(c))
           /\ sent[c][Len(sent[c])].framing = (IF stage[c] = "body" THEN "length" ELSE "chunked")
           /\ Cat(Cat(<<>>, wire'[c]), unsent[c])
                = Of(IF stage[c] = "body" THEN <<>> ELSE <<"zero", "end">>, Len(sent[c]))
<1> DEFINE n == Len(sent[c])
           framing == sent[c][n].framing
<1>1. /\ cur[c] = n /\ n = Len(answered[c]) + 1 /\ buf[c] = <<>>
      /\ \E kinds \in Rests(stage[c], framing) : Left(c) = Of(kinds, n)
  BY DEF ConnInv, InStep, Midway, Request
<1>2. wire'[c] = From(wire[c], 1)  BY DEF Consume, From, Functional
<1>3. wire'[c] \in Seq(Parts(c)) /\ Cat(Cat(<<>>, wire'[c]), unsent[c]) = Rest(Left(c))
  BY <1>1, <1>2, ReadsOne DEF ConnInv
<1>4. Rest(Left(c)) = Of(IF stage[c] = "body" THEN <<>> ELSE <<"zero", "end">>, n)
  <2>1. CASE stage[c] = "body"
    <3>1. Left(c) = Of(<<"body">>, n)  BY <1>1, <2>1 DEF Rests
    <3>2. QED  BY <2>1, <3>1, PartsLeft
  <2>2. CASE stage[c] = "data"
    <3>1. Left(c) = Of(<<"data", "zero", "end">>, n)  BY <1>1, <2>2 DEF Rests
    <3>2. QED  BY <2>2, <3>1, PartsLeft
  <2>3. QED  BY <2>1, <2>2
<1>5. framing = (IF stage[c] = "body" THEN "length" ELSE "chunked")
  BY <1>1 DEF Rests
<1>6. QED  BY <1>1, <1>3, <1>4, <1>5

\* Reads of an exact length take the body, or one chunk.
LEMMA PieceInv ==
    ASSUME Functional, NEW c \in Conns, ConnInv(c), ReadBody(c) \/ ReadData(c)
    PROVE  ConnInv(c)'
<1> DEFINE n == Len(sent[c])
           framing == sent[c][n].framing
<1>1. /\ stage[c] \in {"body", "data"} /\ wire[c] # <<>> /\ Consume(c, 1)
      /\ handling = None /\ cur' = cur /\ timer' = timer /\ expired' = expired
      /\ sent' = sent /\ unsent' = unsent /\ closing' = closing
      /\ shut' = shut /\ answered' = answered
  BY DEF ReadBody, ReadData, CanRead, client_vars, timeout_vars
<1>2. handling # c  BY <1>1, NumbersAssumption
<1>3. /\ cur[c] = n /\ n = Len(answered[c]) + 1
      /\ wire'[c] \in Seq(Parts(c))
      /\ framing = (IF stage[c] = "body" THEN "length" ELSE "chunked")
      /\ Cat(Cat(<<>>, wire'[c]), unsent[c])
           = Of(IF stage[c] = "body" THEN <<>> ELSE <<"zero", "end">>, n)
  BY <1>1, PieceRead
<1>4. /\ stage'[c] = IF stage[c] = "body" THEN "handle" ELSE "size"
      /\ stage'[c] = "handle" <=> handling' = c
      /\ buf'[c] = <<>>
  <2>1. CASE ReadBody(c)  BY <2>1 DEF ReadBody, Handle, Functional
  <2>2. CASE ReadData(c)  BY <1>2, <2>2 DEF ReadData, Await, Functional
  <2>3. QED  BY <2>1, <2>2
<1>5. \E kinds \in Rests(stage'[c], framing) :
          Cat(Cat(buf'[c], wire'[c]), unsent[c]) = Of(kinds, n)
  <2>1. CASE stage[c] = "body"
    <3>1. Cat(Cat(buf'[c], wire'[c]), unsent[c]) = Of(<<>>, n)  BY <1>3, <1>4, <2>1
    <3>2. QED  BY <1>3, <1>4, <2>1, <3>1 DEF Rests
  <2>2. CASE stage[c] = "data"
    <3>1. Cat(Cat(buf'[c], wire'[c]), unsent[c]) = Of(<<"zero", "end">>, n)
      BY <1>3, <1>4, <2>2
    <3>2. QED  BY <1>3, <1>4, <2>2, <3>1 DEF Rests
  <2>3. QED  BY <1>1, <2>1, <2>2
<1>6. /\ timer[c] \in BOOLEAN /\ expired[c] \in BOOLEAN
      /\ timer[c] \/ expired[c] \/ shut[c]
  BY <1>1 DEF ConnInv, Typed, Covered, Waiting
<1>7. buf'[c] \in Seq(Parts(c))  BY <1>4
<1>8. stage'[c] \in {"handle", "size"}  BY <1>4
<1>9. QED  BY <1>1, <1>3, <1>4, <1>5, <1>6, <1>7, <1>8, MidwayInv

\* A size is followed by its chunk, read already or not; zero ends the content.
LEMMA SizeInv ==
    ASSUME Functional, NEW c \in Conns, ConnInv(c), ReadSize(c)
    PROVE  ConnInv(c)'
<1> DEFINE n == Len(sent[c])
           u == unsent[c]
<1>1. PICK k \in 0..Len(wire[c]) :
          LET p == Read(c, k) IN
          /\ p # <<>>
          /\ Consume(c, k)
          /\ CASE p[1].kind = "zero" -> Handle(c, Tail(p))
               [] p[1].kind # "zero" /\ Len(p) = 1 -> Await(c, "data", <<>>)
               [] OTHER -> Await(c, "size", Tail(Tail(p)))
  BY DEF ReadSize
<1>2. /\ stage[c] = "size" /\ handling = None
      /\ cur' = cur /\ timer' = timer /\ expired' = expired
      /\ sent' = sent /\ unsent' = unsent /\ closing' = closing
      /\ shut' = shut /\ answered' = answered
  BY DEF ReadSize, CanRead, client_vars, timeout_vars
<1> DEFINE p == Read(c, k)
           w == From(wire[c], k)
           left == Left(c)
<1>3. /\ cur[c] = n /\ n = Len(answered[c]) + 1 /\ sent[c][n].framing = "chunked"
      /\ left = Of(<<"size", "data", "zero", "end">>, n) \/ left = Of(<<"zero", "end">>, n)
  BY <1>2 DEF ConnInv, InStep, Midway, Request, Rests
<1>4. /\ p \in Seq(Parts(c)) /\ p # <<>> /\ w \in Seq(Parts(c)) /\ left[1] = p[1]
      /\ Rest(p) \in Seq(Parts(c)) /\ Cat(Cat(Rest(p), w), u) = Rest(left)
      /\ Rest(p) # <<>> => /\ Rest(Rest(p)) \in Seq(Parts(c))
                           /\ Cat(Cat(Rest(Rest(p)), w), u) = Rest(Rest(left))
  BY <1>1, ReadTakes DEF ConnInv
<1>5. Len(p) = 1 \/ Len(p) > 1
  <2>1. PICK m \in Nat \ {0} : m = Len(p)  BY <1>4, EmptySeq
  <2>2. m = 1 \/ m > 1  OBVIOUS
  <2>3. QED  BY <2>1, <2>2
<1>6. /\ Len(p) = 1 => Rest(p) = <<>>
      /\ Len(p) > 1 => Rest(p) # <<>>
  BY <1>4, RestIsEmpty
<1>7. wire'[c] = w /\ handling # c
  BY <1>1, <1>2, NumbersAssumption DEF Consume, From, Functional
<1>8. /\ timer[c] \in BOOLEAN /\ expired[c] \in BOOLEAN
      /\ timer[c] \/ expired[c] \/ shut[c]
  BY <1>2 DEF ConnInv, Typed, Covered, Waiting
<1>9. SUFFICES /\ stage'[c] \in {"size", "data", "handle"}
               /\ stage'[c] = "handle" <=> handling' = c
               /\ buf'[c] \in Seq(Parts(c))
               /\ stage'[c] = "data" => buf'[c] = <<>>
               /\ \E kinds \in Rests(stage'[c], "chunked") :
                     Cat(Cat(buf'[c], w), u) = Of(kinds, n)
  BY <1>2, <1>3, <1>4, <1>7, <1>8, MidwayInv
<1>10. CASE left = Of(<<"zero", "end">>, n)
  <2>1. p[1].kind = "zero"  BY <1>4, <1>10, PartsLeft
  <2>2. Handle(c, Rest(p))  BY <1>1, <2>1 DEF Rest
  <2>3. stage'[c] = "handle" /\ buf'[c] = Rest(p) /\ handling' = c
    BY <2>2 DEF Handle, Functional
  <2>4. Cat(Cat(Rest(p), w), u) = Of(<<"end">>, n)  BY <1>4, <1>10, PartsLeft
  <2>5. QED  BY <1>4, <2>3, <2>4 DEF Rests
<1>11. CASE left = Of(<<"size", "data", "zero", "end">>, n)
  <2>1. p[1].kind = "size"  BY <1>4, <1>11, PartsLeft
  <2>2. Rest(left) = Of(<<"data", "zero", "end">>, n)  BY <1>11, PartsLeft
  <2>3. CASE Len(p) = 1
    <3>1. Await(c, "data", <<>>)  BY <1>1, <2>1, <2>3
    <3>2. stage'[c] = "data" /\ buf'[c] = <<>> /\ handling' = handling
      BY <3>1 DEF Await, Functional
    <3>3. Cat(Cat(<<>>, w), u) = Of(<<"data", "zero", "end">>, n)
      BY <1>4, <1>6, <2>2, <2>3
    <3>4. QED  BY <1>7, <3>2, <3>3 DEF Rests
  <2>4. CASE Len(p) # 1
    <3>1. Await(c, "size", Rest(Rest(p)))  BY <1>1, <2>1, <2>4 DEF Rest
    <3>2. stage'[c] = "size" /\ buf'[c] = Rest(Rest(p)) /\ handling' = handling
      BY <3>1 DEF Await, Functional
    <3>3. Cat(Cat(Rest(Rest(p)), w), u) = Of(<<"zero", "end">>, n)
      BY <1>4, <1>5, <1>6, <2>2, <2>4, PartsLeft
    <3>4. QED  BY <1>4, <1>5, <1>6, <1>7, <2>4, <3>2, <3>3 DEF Rests
  <2>5. QED  BY <2>3, <2>4
<1>12. QED  BY <1>3, <1>10, <1>11

\* No head is left of a request that has been served.
LEMMA NoHeadLeft ==
    ASSUME NEW left, NEW n, left = Of(<<>>, n) \/ left = Of(<<"end">>, n)
    PROVE  \A i \in 1..Len(left) : left[i].kind # "head"
<1>1. CASE left = Of(<<>>, n)  BY <1>1 DEF Of
<1>2. CASE left = Of(<<"end">>, n)
  <2>1. left = [i \in 1..1 |-> [kind |-> <<"end">>[i], req |-> n]]  BY <1>2 DEF Of
  <2>2. Len(left) = 1 /\ left[1].kind = "end"  BY <2>1
  <2>3. QED  BY <2>2
<1>3. QED  BY <1>1, <1>2

\* An answer that is out is the one of the latest request.
LEMMA SentInv ==
    ASSUME Functional, NEW c \in Conns, ConnInv(c), Sent(c)
    PROVE  ConnInv(c)'
<1> DEFINE n == Len(sent[c])
<1>1. /\ buf' = buf /\ wire' = wire /\ unsent' = unsent /\ sent' = sent /\ cur' = cur
      /\ handling' = handling /\ closing' = closing /\ shut' = shut
      /\ timer' = timer /\ expired' = expired /\ stage[c] = "send" /\ stage'[c] = "sent"
      /\ answered'[c] = Append(answered[c], cur[c]) \/ answered'[c] = answered[c]
  BY DEF Sent, client_vars, timeout_vars, Functional
<1>2. /\ cur[c] = n /\ n = Len(answered[c]) + 1
      /\ Left(c) = Of(<<>>, n) \/ Left(c) = Of(<<"end">>, n)
  BY <1>1 DEF ConnInv, InStep, Midway, Rests
<1>3. HeadAhead(c)'
  <2>1. Left(c)' = Left(c)  BY <1>1 DEF Left
  <2>2. \A i \in 1..Len(Left(c)) : Left(c)[i].kind # "head"  BY <1>2, NoHeadLeft
  <2>3. QED  BY <2>1, <2>2 DEF HeadAhead
<1>4. InStep(c)' /\ Covered(c)'  BY <1>1 DEF InStep, Covered, Midway, Waiting
<1>5. /\ answered'[c] \in Seq(1..MaxRequests[c])
      /\ \A i \in 1..Len(answered'[c]) : answered'[c][i] = i
  <2>1. /\ answered[c] \in Seq(1..MaxRequests[c]) /\ Len(answered[c]) \in Nat
        /\ \A i \in 1..Len(answered[c]) : answered[c][i] = i
    BY LenProperties DEF ConnInv, Typed
  <2>2. CASE answered'[c] = answered[c]  BY <2>1, <2>2
  <2>3. CASE answered'[c] = Append(answered[c], cur[c])
    <3>1. cur[c] = Len(answered[c]) + 1  BY <1>2
    <3>2. cur[c] \in 1..MaxRequests[c]
      <4>1. cur[c] \in 0..MaxRequests[c]  BY DEF ConnInv, Typed
      <4>2. QED  BY <2>1, <3>1, <4>1
    <3>3. /\ answered'[c] \in Seq(1..MaxRequests[c])
          /\ Len(answered'[c]) = Len(answered[c]) + 1
          /\ \A i \in 1..Len(answered[c]) : answered'[c][i] = answered[c][i]
          /\ answered'[c][Len(answered[c]) + 1] = cur[c]
      BY <2>1, <2>3, <3>2, AppendProperties
    <3>4. QED  BY <2>1, <3>1, <3>3
  <2>4. QED  BY <1>1, <2>2, <2>3
<1>6. Typed(c)'  BY <1>1, <1>5 DEF ConnInv, Typed, Parts, Waiting
<1>7. QED  BY <1>3, <1>4, <1>6 DEF ConnInv

\* The end of what is left is the end of its last piece.
LEMMA CatEnd ==
    \A S : \A p, v \in Seq(S) : \A i \in 1..Len(v) :
        /\ Len(p) + i \in 1..Len(Cat(p, v)) /\ Cat(p, v)[Len(p) + i] = v[i]
        /\ SubSeq(Cat(p, v), Len(p) + i, Len(Cat(p, v))) = SubSeq(v, i, Len(v))
<1> TAKE S
<1> TAKE p, v \in Seq(S)
<1> TAKE i \in 1..Len(v)
<1> DEFINE m == Len(p)  n == Len(v)  all == Cat(p, v)
<1>1. /\ m \in Nat /\ n \in Nat /\ all \in Seq(S) /\ Len(all) = m + n
      /\ \A j \in 1..m + n : all[j] = IF j <= m THEN p[j] ELSE v[j - m]
  BY LenProperties, ConcatProperties DEF Cat
<1> HIDE DEF m, n, all
<1>2. i \in 1..n /\ v \in Seq(S)  BY DEF n
<1>3. \A j \in 1..n : all[m + j] = v[j]
  <2>1. TAKE j \in 1..n
  <2>2. m + j \in 1..m + n /\ ~(m + j <= m) /\ m + j - m = j  BY <1>1
  <2>3. QED  BY <1>1, <2>2
<1>4. SubSeq(all, m + i, m + n) = SubSeq(v, i, n)
  <2> DEFINE s == SubSeq(all, m + i, m + n)  t == SubSeq(v, i, n)
  <2>1. /\ s \in Seq(S) /\ Len(s) = n - i + 1
        /\ \A j \in 1..n - i + 1 : s[j] = all[m + i + j - 1]
    <3>1. m + i \in 1..Len(all) + 1 /\ m + n \in m + i - 1..Len(all)  BY <1>1, <1>2
    <3>2. /\ s \in Seq(S)
          /\ Len(s) = IF m + i <= m + n THEN m + n - (m + i) + 1 ELSE 0
          /\ \A j \in 1..m + n - (m + i) + 1 : s[j] = all[m + i + j - 1]
      BY <1>1, <1>2, <3>1, SubSeqProperties
    <3>3. m + i <= m + n /\ m + n - (m + i) + 1 = n - i + 1  BY <1>1, <1>2
    <3>4. QED  BY <3>2, <3>3
  <2>2. /\ t \in Seq(S) /\ Len(t) = n - i + 1
        /\ \A j \in 1..n - i + 1 : t[j] = v[i + j - 1]
    <3>1. i \in 1..Len(v) + 1 /\ n \in i - 1..Len(v) /\ i <= n  BY <1>1, <1>2 DEF n
    <3>2. QED  BY <1>2, <3>1, SubSeqProperties
  <2> HIDE DEF s, t
  <2>3. ASSUME NEW j \in 1..Len(s) PROVE s[j] = t[j]
    <3>1. j \in 1..n - i + 1 /\ i + j - 1 \in 1..n /\ m + i + j - 1 = m + (i + j - 1)
      BY <1>1, <1>2, <2>1
    <3>2. QED  BY <1>3, <2>1, <2>2, <3>1
  <2>4. s = t  BY <2>1, <2>2, <2>3, SeqEqual
  <2>5. QED  BY <2>4 DEF s, t
<1>5. m + i \in 1..m + n  BY <1>1, <1>2
<1>6. QED  BY <1>1, <1>2, <1>3, <1>4, <1>5 DEF m, n, all

\* Left, in names that the provers do not look into.
LEMMA LeftIs ==
    ASSUME NEW c \in Conns, Typed(c)
    PROVE  /\ Left(c) = Cat(Cat(buf[c], wire[c]), unsent[c])
           /\ Left(c) = Cat(buf[c], Cat(wire[c], unsent[c]))
           /\ Cat(buf[c], wire[c]) \in Seq(Parts(c))
           /\ Cat(wire[c], unsent[c]) \in Seq(Parts(c))
<1> DEFINE S == Parts(c)
<1>1. buf[c] \in Seq(S) /\ wire[c] \in Seq(S) /\ unsent[c] \in Seq(S)  BY DEF Typed
<1>2. Left(c) = Cat(Cat(buf[c], wire[c]), unsent[c])  BY DEF Left, Cat
<1> HIDE DEF S
<1>3. \A b, w, u \in Seq(S) : /\ Cat(Cat(b, w), u) = Cat(b, Cat(w, u))
                              /\ Cat(b, w) \in Seq(S) /\ Cat(w, u) \in Seq(S)
  BY CatAssociative, CatType
<1>4. QED  BY <1>1, <1>2, <1>3 DEF S

\* A new session loses what was in the buffer, and that is no more than a
\* client has left ahead.
LEMMA ContinueInv ==
    ASSUME Functional, NEW c \in Conns, ConnInv(c), Continue(c)
    PROVE  ConnInv(c)'
<1> DEFINE v == Cat(wire[c], unsent[c])
<1>1. /\ wire' = wire /\ unsent' = unsent /\ sent' = sent /\ cur' = cur
      /\ answered' = answered /\ handling' = handling /\ closing' = closing /\ shut' = shut
      /\ stage[c] = "sent" /\ stage'[c] = "header" /\ buf'[c] = <<>>
      /\ timer'[c] = TRUE /\ expired' = expired
  BY DEF Continue, set_timeout, client_vars, Functional
<1>2. Typed(c)  BY DEF ConnInv
<1>3. /\ buf[c] \in Seq(Parts(c)) /\ v \in Seq(Parts(c)) /\ Left(c) = Cat(buf[c], v)
      /\ wire[c] \in Seq(Parts(c))
  BY <1>2, LeftIs DEF Typed
<1>4. Left(c)' = v
  <2>1. Left(c)' = Cat(Cat(<<>>, wire[c]), unsent[c])  BY <1>1 DEF Left, Cat
  <2>2. Cat(<<>>, wire[c]) = wire[c]  BY <1>3, CatEmpty
  <2>3. QED  BY <2>1, <2>2
<1> HIDE DEF v
<1>5. HeadAhead(c)'
  <2>1. SUFFICES ASSUME NEW i \in 1..Len(v), v[i].kind = "head"
                 PROVE  /\ Len(sent[c]) = Len(answered[c]) + 1
                        /\ SubSeq(v, i, Len(v)) = PartsOf(sent[c][Len(sent[c])], Len(sent[c]))
    BY <1>1, <1>4 DEF HeadAhead, PartsOf
  <2> DEFINE j == Len(buf[c]) + i
  <2>2. /\ j \in 1..Len(Left(c)) /\ Left(c)[j] = v[i]
        /\ SubSeq(Left(c), j, Len(Left(c))) = SubSeq(v, i, Len(v))
    <3> DEFINE b == buf[c]
               left == Left(c)
    <3>1. left = Cat(b, v) /\ b \in Seq(Parts(c)) /\ v \in Seq(Parts(c))  BY <1>3
    <3> HIDE DEF b, left
    <3>2. /\ Len(b) + i \in 1..Len(Cat(b, v)) /\ Cat(b, v)[Len(b) + i] = v[i]
          /\ SubSeq(Cat(b, v), Len(b) + i, Len(Cat(b, v))) = SubSeq(v, i, Len(v))
      BY <3>1, CatEnd
    <3>3. QED  BY <3>1, <3>2 DEF b, left
  <2> HIDE DEF j
  <2>3. Left(c)[j].kind = "head"  BY <2>1, <2>2
  <2>4. /\ Len(sent[c]) = Len(answered[c]) + 1
        /\ SubSeq(Left(c), j, Len(Left(c))) = PartsOf(sent[c][Len(sent[c])], Len(sent[c]))
    BY <1>1, <2>2, <2>3 DEF ConnInv, HeadAhead
  <2>5. QED  BY <2>2, <2>4
<1>6. InStep(c)' /\ Covered(c)'  BY <1>1 DEF InStep, Covered, Midway
<1>7. <<>> \in Seq(Parts(c))  OBVIOUS
<1>8. Typed(c)'  BY <1>1, <1>2, <1>7 DEF Typed, Parts, Waiting
<1>9. QED  BY <1>5, <1>6, <1>8 DEF ConnInv

\* Parts on their way are still left.
LEMMA TransmitLeft ==
    ASSUME Functional, NEW c \in Conns, ConnInv(c), Transmit(c)
    PROVE  /\ wire'[c] \in Seq(Parts(c)) /\ unsent'[c] \in Seq(Parts(c))
           /\ Left(c)' = Left(c)
<1> DEFINE S == Parts(c)
<1>1. PICK k \in 1..Len(unsent[c]) :
          /\ wire'[c] = Cat(wire[c], First(unsent[c], k))
          /\ unsent'[c] = From(unsent[c], k)
  BY DEF Transmit, Functional, Cat, First, From
<1>2. /\ buf' = buf /\ sent' = sent /\ cur' = cur /\ answered' = answered
      /\ handling' = handling /\ closing' = closing /\ shut' = shut
      /\ stage' = stage /\ timer' = timer /\ expired' = expired
  BY DEF Transmit, session_vars, timeout_vars
<1>3. Typed(c)  BY DEF ConnInv
<1>4. buf[c] \in Seq(S) /\ wire[c] \in Seq(S) /\ unsent[c] \in Seq(S)  BY <1>3 DEF Typed
<1>5. k \in 0..Len(unsent[c])  BY <1>4, LenProperties
<1>6. Left(c)' = Cat(Cat(buf[c], wire'[c]), unsent'[c])  BY <1>2 DEF Left, Cat
<1>7. Left(c) = Cat(Cat(buf[c], wire[c]), unsent[c])  BY <1>3, LeftIs
<1> HIDE DEF S
<1> DEFINE f == First(unsent[c], k)
           g == From(unsent[c], k)
<1>8. f \in Seq(S) /\ g \in Seq(S) /\ Cat(f, g) = unsent[c]  BY <1>4, <1>5, CatPieces
<1>9. wire'[c] = Cat(wire[c], f) /\ unsent'[c] = g  BY <1>1
<1> HIDE DEF f, g
<1>10. wire'[c] \in Seq(S) /\ unsent'[c] \in Seq(S)  BY <1>4, <1>8, <1>9, CatType
<1>11. Left(c)' = Left(c)
  <2> DEFINE a == Cat(buf[c], wire[c])
  <2>1. a \in Seq(S)  BY <1>4, CatType
  <2>2. Cat(buf[c], Cat(wire[c], f)) = Cat(a, f)  BY <1>4, <1>8, CatAssociative
  <2>3. Cat(Cat(a, f), g) = Cat(a, Cat(f, g))  BY <1>8, <2>1, CatAssociative
  <2>4. QED  BY <1>6, <1>7, <1>8, <1>9, <2>2, <2>3
<1>12. QED  BY <1>10, <1>11 DEF S

\* So nothing has changed for the server.
LEMMA TransmitInv ==
    ASSUME Functional, NEW c \in Conns, ConnInv(c), Transmit(c)
    PROVE  ConnInv(c)'
<1>1. /\ buf' = buf /\ sent' = sent /\ cur' = cur /\ answered' = answered
      /\ handling' = handling /\ closing' = closing /\ shut' = shut
      /\ stage' = stage /\ timer' = timer /\ expired' = expired
  BY DEF Transmit, session_vars, timeout_vars
<1>2. /\ wire'[c] \in Seq(Parts(c)) /\ unsent'[c] \in Seq(Parts(c)) /\ Left(c)' = Left(c)
  BY TransmitLeft
<1>3. InStep(c)' /\ HeadAhead(c)' /\ Covered(c)'
  BY <1>1, <1>2 DEF ConnInv, InStep, Request, HeadAhead, Covered
<1>4. Typed(c)'  BY <1>1, <1>2 DEF ConnInv, Typed, Parts
<1>5. QED  BY <1>3, <1>4 DEF ConnInv

\* The parts of a request, the first of which alone is a head.
LEMMA PartsOfRequest ==
    ASSUME NEW c \in Conns, NEW r \in Requests[c], NEW n \in 1..MaxRequests[c]
    PROVE  /\ PartsOf(r, n) \in Seq(Parts(c))
           /\ \A i \in 1..Len(PartsOf(r, n)) : PartsOf(r, n)[i].kind = "head" => i = 1
<1> DEFINE S == {"head", "body", "size", "data", "zero", "end"}
           kinds == KindsOf(r.framing)
           s == PartsOf(r, n)
<1>1. r.framing \in {"none", "length", "chunked"}  BY RequestsAssumption DEF Framings
<1>2. kinds \in Seq(S) /\ \A i \in 1..Len(kinds) : kinds[i] = "head" => i = 1
  <2>1. CASE r.framing = "none"
    <3>1. kinds = <<"head">>  BY <2>1 DEF KindsOf
    <3>2. QED  BY <3>1
  <2>2. CASE r.framing = "length"
    <3>1. kinds = <<"head", "body">>  BY <2>2 DEF KindsOf
    <3>2. QED  BY <3>1
  <2>3. CASE r.framing = "chunked"
    <3>1. kinds = <<"head", "size", "data", "zero", "end">>  BY <2>3 DEF KindsOf
    <3>2. QED  BY <3>1
  <2>4. QED  BY <1>1, <2>1, <2>2, <2>3
<1>3. /\ s = [i \in 1..Len(kinds) |-> [kind |-> kinds[i], req |-> n]]
      /\ Parts(c) = [kind : S, req : 1..MaxRequests[c]]
  BY DEF PartsOf, Parts
<1>4. Len(kinds) \in Nat /\ kinds \in [1..Len(kinds) -> S]  BY <1>2, LenProperties
<1> HIDE DEF kinds, S, s
<1>5. /\ s \in Seq(Parts(c)) /\ Len(s) = Len(kinds)
      /\ \A i \in 1..Len(kinds) : s[i] = [kind |-> kinds[i], req |-> n]
  BY <1>3, <1>4
<1>6. ASSUME NEW i \in 1..Len(s), s[i].kind = "head" PROVE i = 1
  <2>1. i \in 1..Len(kinds)  BY <1>5
  <2>2. s[i] = [kind |-> kinds[i], req |-> n]  BY <1>5, <2>1
  <2>3. kinds[i] = "head"  BY <1>6, <2>2
  <2>4. QED  BY <1>2, <2>1, <2>3
<1>7. QED  BY <1>5, <1>6 DEF s

\* A client that has all its answers has left no head behind: the only one
\* that is left then is the new request's.
LEMMA BeginInv ==
    ASSUME Functional, NEW c \in Conns, ConnInv(c), NEW r \in Requests[c], Begin(c, r)
    PROVE  ConnInv(c)'
<1> DEFINE n == Len(sent[c])
           u == Cat(buf[c], wire[c])
           v == PartsOf(r, n + 1)
<1>1. /\ buf' = buf /\ wire' = wire /\ cur' = cur /\ stage' = stage
      /\ answered' = answered /\ handling' = handling /\ closing' = closing /\ shut' = shut
      /\ timer' = timer /\ expired' = expired
      /\ sent'[c] = Append(sent[c], r) /\ unsent'[c] = v /\ unsent[c] = <<>>
      /\ n < MaxRequests[c] /\ Len(answered[c]) = n /\ stage[c] # "absent"
  BY DEF Begin, Functional, session_vars, timeout_vars
<1>2. Typed(c)  BY DEF ConnInv
<1>3. /\ sent'[c] \in Seq(Requests[c]) /\ Len(sent'[c]) = n + 1 /\ sent'[c][n + 1] = r
      /\ n + 1 \in 1..MaxRequests[c] /\ n + 1 # n /\ n \in Nat
  <2>1. sent[c] \in Seq(Requests[c]) /\ MaxRequests[c] \in Nat
    BY <1>2, NumbersAssumption DEF Typed
  <2>2. /\ Append(sent[c], r) \in Seq(Requests[c]) /\ Len(Append(sent[c], r)) = n + 1
        /\ Append(sent[c], r)[n + 1] = r
    <3>1. \A s \in Seq(Requests[c]) :
             /\ Append(s, r) \in Seq(Requests[c]) /\ Len(Append(s, r)) = Len(s) + 1
             /\ Append(s, r)[Len(s) + 1] = r
      BY AppendProperties
    <3>2. QED  BY <2>1, <3>1
  <2>3. n \in Nat  BY <2>1, LenProperties
  <2>4. n < MaxRequests[c]  BY <1>1
  <2> HIDE DEF n
  <2>5. n + 1 \in 1..MaxRequests[c] /\ n + 1 # n  BY <2>1, <2>3, <2>4
  <2>6. QED  BY <1>1, <2>2, <2>3, <2>5
<1>4. v \in Seq(Parts(c)) /\ \A i \in 1..Len(v) : v[i].kind = "head" => i = 1
  BY <1>3, PartsOfRequest
<1>5. u \in Seq(Parts(c)) /\ Left(c) = Cat(u, <<>>) /\ Left(c)' = Cat(u, v)
  BY <1>1, <1>2, LeftIs DEF Left, Cat
<1>6. Left(c) = u
  <2>1. Cat(u, <<>>) = u  BY <1>5, ConcatEmptySeq DEF Cat
  <2>2. QED  BY <1>5, <2>1
<1> HIDE DEF n, u, v
<1>7. HeadAhead(c)'
  <2>1. SUFFICES ASSUME stage[c] \in {"header", "sent"},
                        NEW i \in 1..Len(Cat(u, v)), Cat(u, v)[i].kind = "head"
                 PROVE  SubSeq(Cat(u, v), i, Len(Cat(u, v))) = v
    BY <1>1, <1>3, <1>5 DEF HeadAhead, PartsOf, v
  <2>2. Len(u) \in Nat /\ Len(v) \in Nat /\ Len(Cat(u, v)) = Len(u) + Len(v)
    BY <1>4, <1>5, CatType, LenProperties
  <2>3. \A j \in 1..Len(u) : Cat(u, v)[j] = u[j]
    BY <1>4, <1>5, <2>2, ConcatProperties DEF Cat
  <2>4. \A j \in 1..Len(u) : u[j].kind # "head"
    BY <1>1, <1>3, <1>6, <2>1 DEF ConnInv, HeadAhead, n
  <2>5. ~(i \in 1..Len(u))  BY <2>1, <2>3, <2>4
  <2>6. PICK j \in 1..Len(v) : i = Len(u) + j
    <3>1. i - Len(u) \in 1..Len(v) /\ i = Len(u) + (i - Len(u))  BY <2>2, <2>5
    <3>2. QED  BY <3>1
  <2>7. Cat(u, v)[i] = v[j] /\ SubSeq(Cat(u, v), i, Len(Cat(u, v))) = SubSeq(v, j, Len(v))
    <3>1. /\ Cat(u, v)[Len(u) + j] = v[j]
          /\ SubSeq(Cat(u, v), Len(u) + j, Len(Cat(u, v))) = SubSeq(v, j, Len(v))
      BY <1>4, <1>5, CatEnd
    <3>2. QED  BY <2>6, <3>1
  <2>8. j = 1  BY <1>4, <2>1, <2>7
  <2>9. QED  BY <1>4, <2>7, <2>8, SubSeqFull
<1>8. InStep(c)'
  BY <1>1, <1>3 DEF ConnInv, InStep, n
<1>9. Covered(c)'  BY <1>1 DEF ConnInv, Covered
<1>10. Typed(c)'
  BY <1>1, <1>2, <1>3, <1>4 DEF Typed, Parts
<1>11. QED  BY <1>7, <1>8, <1>9, <1>10 DEF ConnInv

-----------------------------------------------------------------------------
(* The invariant.                                                          *)

\* No connection has been accepted, and nothing is on its way.
LEMMA InitInv == Init => IInv
<1> SUFFICES ASSUME Init PROVE IInv  OBVIOUS
<1>1. Functional /\ handling \in Conns \cup {None}  BY DEF Init, Functional
<1>2. ASSUME NEW c \in Conns PROVE ConnInv(c)
  <2>1. /\ sent[c] = <<>> /\ unsent[c] = <<>> /\ wire[c] = <<>> /\ buf[c] = <<>>
        /\ answered[c] = <<>> /\ stage[c] = "absent" /\ cur[c] = 0
        /\ closing[c] = FALSE /\ shut[c] = FALSE /\ timer[c] = FALSE /\ expired[c] = FALSE
        /\ handling = None
    BY DEF Init
  <2>2. MaxRequests[c] \in Nat /\ handling # c  BY <2>1, NumbersAssumption
  <2>3. Typed(c)
    <3>1. /\ <<>> \in Seq(Requests[c]) /\ <<>> \in Seq(Parts(c))
          /\ <<>> \in Seq(1..MaxRequests[c]) /\ Len(<<>>) = 0
      OBVIOUS
    <3>2. 0 \in 0..MaxRequests[c] /\ 0 <= MaxRequests[c]  BY <2>2
    <3>3. ~(stage[c] = "handle") /\ stage[c] \in {"absent"}  BY <2>1
    <3>4. /\ sent[c] \in Seq(Requests[c]) /\ Len(sent[c]) <= MaxRequests[c]
          /\ unsent[c] \in Seq(Parts(c)) /\ wire[c] \in Seq(Parts(c)) /\ buf[c] \in Seq(Parts(c))
          /\ answered[c] \in Seq(1..MaxRequests[c])
          /\ \A i \in 1..Len(answered[c]) : answered[c][i] = i
      BY <2>1, <3>1, <3>2
    <3>5. /\ cur[c] \in 0..MaxRequests[c]
          /\ stage[c] = "handle" <=> handling = c
          /\ closing[c] \in BOOLEAN /\ shut[c] \in BOOLEAN
          /\ timer[c] \in BOOLEAN /\ expired[c] \in BOOLEAN
      BY <2>1, <2>2, <3>2, <3>3
    <3>6. QED  BY <3>3, <3>4, <3>5, Zenon DEF Typed
  <2>4. Left(c) = <<>>  BY <2>1 DEF Left
  <2>5. HeadAhead(c)  BY <2>4 DEF HeadAhead
  <2>6. InStep(c) /\ Covered(c)  BY <2>1 DEF InStep, Covered, Midway, Waiting
  <2>7. QED  BY <2>3, <2>5, <2>6 DEF ConnInv
<1>3. QED  BY <1>1, <1>2 DEF IInv

\* Every step of a connection keeps its part of the invariant.
LEMMA StepInv ==
    ASSUME Functional, NEW c \in Conns, ConnInv(c), StepOf(c)
    PROVE  ConnInv(c)'
<1>1. CASE \E r \in Requests[c] : Begin(c, r)  BY <1>1, BeginInv
<1>2. CASE Transmit(c)  BY <1>2, TransmitInv
<1>3. CASE ClientCloses(c) \/ TimerExpires(c) \/ TimeoutHandler(c)  BY <1>3, WaitingInv
<1>4. CASE Accept(c)  BY <1>4, AcceptInv
<1>5. CASE ReadHeader(c)  BY <1>5, HeaderInv
<1>6. CASE ReadBody(c) \/ ReadData(c)  BY <1>6, PieceInv
<1>7. CASE ReadSize(c)  BY <1>7, SizeInv
<1>8. CASE \/ ParseFails(c) \/ BadSize(c) \/ ReadFails(c)
           \/ NoResource(c) \/ SendFails(c) \/ Finish(c)
  BY <1>8, DropInv
<1>9. CASE HandlerReturns(c)  BY <1>9, ReturnInv
<1>10. CASE Sent(c)  BY <1>10, SentInv
<1>11. CASE Continue(c)  BY <1>11, ContinueInv
<1>12. QED
  BY <1>1, <1>2, <1>3, <1>4, <1>5, <1>6, <1>7, <1>8, <1>9, <1>10, <1>11
  DEF StepOf, ServerStep

\* And leaves the others theirs.
LEMMA NextInv == IInv /\ [Next]_vars => IInv'
<1> SUFFICES ASSUME IInv, [Next]_vars PROVE IInv'  OBVIOUS
<1>1. CASE UNCHANGED vars
  <2>1. /\ sent' = sent /\ unsent' = unsent /\ closing' = closing /\ wire' = wire
        /\ stage' = stage /\ buf' = buf /\ cur' = cur /\ shut' = shut
        /\ timer' = timer /\ expired' = expired /\ handling' = handling
        /\ answered' = answered
    BY <1>1 DEF vars, client_vars, session_vars, timeout_vars
  <2>2. Functional' /\ handling' \in Conns \cup {None}  BY <2>1 DEF IInv, Functional
  <2>3. ASSUME NEW c \in Conns PROVE ConnInv(c)'
    <3>1. ConnInv(c)  BY DEF IInv
    <3>2. InStep(c)' /\ HeadAhead(c)'  BY <2>1, <3>1, SameParts DEF ConnInv
    <3>3. Typed(c)' /\ Covered(c)'  BY <2>1, <3>1 DEF ConnInv, Typed, Covered, Parts
    <3>4. QED  BY <3>2, <3>3 DEF ConnInv
  <2>4. QED  BY <2>2, <2>3 DEF IInv
<1>2. CASE Next
  <2>1. PICK c \in Conns : StepOf(c)  BY <1>2 DEF Next, StepOf
  <2>2. Functional /\ ConnInv(c)  BY DEF IInv
  <2>3. Functional' /\ Elsewhere(c)  BY <2>1, <2>2, StepLocal
  <2>4. handling' \in Conns \cup {None}  BY <2>3 DEF IInv, Elsewhere
  <2>5. ConnInv(c)'  BY <2>1, <2>2, StepInv
  <2>6. ASSUME NEW d \in Conns \ {c} PROVE ConnInv(d)'
    BY <2>3, <2>6, OthersInv DEF IInv
  <2>7. QED  BY <2>3, <2>4, <2>5, <2>6 DEF IInv
<1>3. QED  BY <1>1, <1>2

\* The properties are parts of the invariant.
LEMMA InvImplies == IInv => ConnectionsInv /\ ServedWhole
<1> SUFFICES ASSUME IInv PROVE ConnectionsInv /\ ServedWhole  OBVIOUS
<1>1. ASSUME NEW c \in Conns PROVE Typed(c) /\ Covered(c) /\ InStep(c)
  BY DEF IInv, ConnInv
<1>2. TypeOK
  <2>1. \A c \in Conns :
          /\ sent[c] \in Seq(Requests[c])
          /\ unsent[c] \in Seq(Parts(c)) /\ wire[c] \in Seq(Parts(c)) /\ buf[c] \in Seq(Parts(c))
          /\ cur[c] \in 0..MaxRequests[c]
          /\ answered[c] \in Seq(1..MaxRequests[c])
          /\ stage[c] = "handle" <=> handling = c
    BY <1>1 DEF Typed
  <2>2. \A c \in Conns : /\ stage[c] \in Waiting \cup {"absent", "handle", "sent", "gone"}
                         /\ closing[c] \in BOOLEAN /\ shut[c] \in BOOLEAN
                         /\ timer[c] \in BOOLEAN /\ expired[c] \in BOOLEAN
    BY <1>1 DEF Typed
  <2>3. QED  BY <2>1, <2>2 DEF TypeOK, IInv, Functional
<1>3. Timed  BY <1>1 DEF Timed, Covered
<1>4. AnswersInOrder  BY <1>1 DEF AnswersInOrder, Typed
<1>5. ServedWhole
  <2>1. SUFFICES ASSUME NEW c \in Conns, stage[c] = "handle"
                 PROVE  \A i \in 1..Len(Left(c)) : Left(c)[i].kind = "end"
    BY DEF ServedWhole, Left
  <2>2. Left(c) = Of(<<>>, cur[c]) \/ Left(c) = Of(<<"end">>, cur[c])
    BY <1>1, <2>1 DEF InStep, Midway, Rests
  <2>3. QED  BY <2>2 DEF Of
<1>6. QED  BY <1>2, <1>3, <1>4, <1>5 DEF ConnectionsInv

-----------------------------------------------------------------------------
(* Persistent connections.                                                 *)

\* Drops, and the steps that begin with a head.
Drops(c) ==
    \/ ParseFails(c) \/ BadSize(c) \/ ReadFails(c)
    \/ NoResource(c) \/ SendFails(c) \/ Finish(c)

\* With the head in hand the connection reads content, or has all of it.
LEMMA HeadTaken ==
    ASSUME Functional, NEW c \in Conns, ConnInv(c), ReadHeader(c)
    PROVE  /\ stage'[c] \in {"size", "body", "handle"}
           /\ stage'[c] = "handle" => Request(c)'.framing # "chunked"
<1>1. PICK k \in 0..Len(wire[c]) :
          LET p == Read(c, k)  r == sent[c][p[1].req] IN
          /\ p # <<>> /\ p[1].kind = "head"
          /\ cur' = [cur EXCEPT ![c] = p[1].req]
          /\ CASE r.framing = "chunked" -> Await(c, "size", Tail(p))
               [] r.framing = "length" /\ Len(p) = 1 -> Await(c, "body", <<>>)
               [] r.framing = "length" /\ Len(p) > 1 -> Handle(c, Tail(Tail(p)))
               [] r.framing = "none" -> Handle(c, Tail(p))
  BY DEF ReadHeader
<1>2. stage[c] = "header" /\ sent' = sent  BY DEF ReadHeader, client_vars
<1> DEFINE p == Read(c, k)
           framing == sent[c][p[1].req].framing
<1>3. framing \in Framings  BY <1>1, <1>2, HeadRead
<1>4. p \in Seq(Parts(c)) /\ p # <<>>  BY <1>1, ReadTakes DEF ConnInv
<1>5. Len(p) = 1 \/ Len(p) > 1
  <2>1. PICK m \in Nat \ {0} : m = Len(p)  BY <1>4, EmptySeq
  <2>2. m = 1 \/ m > 1  OBVIOUS
  <2>3. QED  BY <2>1, <2>2
<1>6. Request(c)'.framing = framing  BY <1>1, <1>2 DEF Request, Functional
<1>7. CASE framing = "chunked"
  <2>1. Await(c, "size", Tail(p))  BY <1>1, <1>7
  <2>2. QED  BY <2>1 DEF Await, Functional
<1>8. CASE framing = "length" /\ Len(p) = 1
  <2>1. Await(c, "body", <<>>)  BY <1>1, <1>8
  <2>2. QED  BY <2>1 DEF Await, Functional
<1>9. CASE framing = "length" /\ Len(p) > 1
  <2>1. Handle(c, Tail(Tail(p)))  BY <1>1, <1>9
  <2>2. QED  BY <1>6, <1>9, <2>1 DEF Handle, Functional
<1>10. CASE framing = "none"
  <2>1. Handle(c, Tail(p))  BY <1>1, <1>10
  <2>2. QED  BY <1>6, <1>10, <2>1 DEF Handle, Functional
<1>11. QED  BY <1>3, <1>5, <1>7, <1>8, <1>9, <1>10 DEF Framings

\* Steps that leave the parts, the stage and the request in hand alone.
LEMMA SameAligned ==
    ASSUME NEW c \in Conns, Aligned(c), Left(c)' = Left(c),
           buf'[c] = buf[c], sent'[c] = sent[c], cur'[c] = cur[c],
           answered'[c] = answered[c], stage'[c] = stage[c]
    PROVE  Aligned(c)'
<1>1. Request(c)' = Request(c)  BY DEF Request
<1>2. Persists(c)' <=> Persists(c)  BY <1>1 DEF Persists
<1>3. Fresh(c)' <=> Fresh(c)  BY DEF Fresh, PartsOf
<1>4. QED  BY <1>1, <1>2, <1>3 DEF Aligned

\* A client that has all its answers sends its next request behind nothing.
LEMMA BeginAligned ==
    ASSUME Functional, NEW c \in Conns, ConnInv(c), Aligned(c),
           NEW r \in Requests[c], Begin(c, r)
    PROVE  Aligned(c)'
<1> DEFINE n == Len(sent[c])
           u == Cat(buf[c], wire[c])
           v == PartsOf(r, n + 1)
<1>1. /\ buf' = buf /\ wire' = wire /\ cur' = cur /\ stage' = stage /\ answered' = answered
      /\ sent'[c] = Append(sent[c], r) /\ unsent'[c] = v /\ unsent[c] = <<>>
      /\ n < MaxRequests[c] /\ Len(answered[c]) = n /\ stage[c] # "absent"
  BY DEF Begin, Functional, session_vars
<1>2. Typed(c)  BY DEF ConnInv
<1>3. n \in Nat /\ n + 1 \in 1..MaxRequests[c]
  BY <1>1, <1>2, LenProperties, NumbersAssumption DEF Typed
<1>4. /\ Len(sent'[c]) = n + 1 /\ sent'[c][n + 1] = r
      /\ \A i \in 1..n : sent'[c][i] = sent[c][i]
  BY <1>1, <1>2, AppendProperties DEF Typed
<1>5. stage[c] \notin Midway
  <2>1. SUFFICES ASSUME stage[c] \in Midway PROVE FALSE  OBVIOUS
  <2>2. n = Len(answered[c]) + 1  BY <2>1 DEF ConnInv, InStep
  <2>3. QED  BY <1>1, <1>3, <2>2
<1>6. stage[c] = "sent" => Request(c)' = Request(c)  BY <1>1, <1>4 DEF Request, Aligned
<1>7. stage[c] = "sent" => cur'[c] \in 1..Len(sent'[c])  BY <1>1, <1>3, <1>4 DEF Aligned
<1>8. Persists(c)' <=> Persists(c)  BY <1>1, <1>6 DEF Persists
<1>9. SUFFICES ASSUME stage[c] \in {"absent", "header"} \/ Persists(c) PROVE Fresh(c)'
  BY <1>1, <1>5, <1>7, <1>8 DEF Aligned, Midway
<1>10. ~Fresh(c)  BY <1>1, <1>3 DEF Fresh
<1>11. Left(c) = <<>>  BY <1>9, <1>10 DEF Aligned
<1>12. u \in Seq(Parts(c)) /\ v \in Seq(Parts(c)) /\ Left(c) = Cat(u, <<>>) /\ Left(c)' = Cat(u, v)
  BY <1>1, <1>2, <1>3, LeftIs, PartsOfRequest DEF Left, Cat
<1> HIDE DEF u, v
<1>13. u = <<>>
  <2>1. Cat(u, <<>>) = u  BY <1>12, ConcatEmptySeq DEF Cat
  <2>2. QED  BY <1>11, <1>12, <2>1
<1>14. Left(c)' = v  BY <1>12, <1>13, CatEmpty
<1>15. QED  BY <1>1, <1>4, <1>14 DEF Fresh, PartsOf, v

\* A request that its connection outlives has been read to its end.
LEMMA SentAligned ==
    ASSUME ChunksLast, Functional, NEW c \in Conns, ConnInv(c), Aligned(c), Sent(c)
    PROVE  Aligned(c)'
<1> DEFINE n == Len(sent[c])
<1>1. /\ buf' = buf /\ wire' = wire /\ unsent' = unsent /\ sent' = sent /\ cur' = cur
      /\ stage[c] = "send" /\ stage'[c] = "sent"
  BY DEF Sent, client_vars, Functional
<1>2. /\ cur[c] = n /\ n = Len(answered[c]) + 1
      /\ Left(c) = Of(IF Request(c).framing = "chunked" THEN <<"end">> ELSE <<>>, n)
  BY <1>1 DEF ConnInv, InStep, Midway, Rests
<1>3. n \in 1..n /\ Request(c) \in Requests[c]
  <2>1. sent[c] \in Seq(Requests[c]) /\ Len(answered[c]) \in Nat
    BY LenProperties DEF ConnInv, Typed
  <2>2. n \in 1..n  BY <1>2, <2>1
  <2>3. QED  BY <1>2, <2>1, <2>2, ElementOfSeq DEF Request
<1>4. Left(c)' = Left(c) /\ Request(c)' = Request(c)  BY <1>1 DEF Left, Request
<1>5. SUFFICES ASSUME ~Request(c).last PROVE Left(c) = <<>> /\ buf[c] = <<>>
  BY <1>1, <1>2, <1>3, <1>4 DEF Aligned, Persists
<1>6. Request(c).framing # "chunked"
  BY <1>1, <1>3, <1>5 DEF ChunksLast, Aligned
<1>7. Left(c) = <<>>  BY <1>2, <1>6 DEF Of
<1>8. buf[c] = <<>>
  <2> DEFINE v == Cat(wire[c], unsent[c])
  <2>1. buf[c] \in Seq(Parts(c)) /\ v \in Seq(Parts(c)) /\ Left(c) = Cat(buf[c], v)
    BY LeftIs DEF ConnInv, Typed
  <2> HIDE DEF v
  <2>2. Cat(buf[c], v) = <<>>  BY <1>7, <2>1
  <2>3. buf[c] # <<>> => Cat(buf[c], v) # <<>>  BY <2>1, CatRest
  <2>4. QED  BY <2>2, <2>3
<1>9. QED  BY <1>7, <1>8

\* The new session's buffer is as empty as the old one's was.
LEMMA ContinueAligned ==
    ASSUME Functional, NEW c \in Conns, ConnInv(c), Aligned(c), Continue(c)
    PROVE  Aligned(c)'
<1>1. /\ wire' = wire /\ unsent' = unsent /\ sent' = sent /\ cur' = cur /\ answered' = answered
      /\ stage'[c] = "header" /\ buf'[c] = <<>> /\ Persists(c)
  BY DEF Continue, client_vars, Functional, Persists
<1>2. buf[c] = <<>> /\ (Left(c) = <<>> \/ Fresh(c))  BY <1>1 DEF Aligned
<1>3. Left(c)' = Left(c)  BY <1>1, <1>2 DEF Left
<1>4. Fresh(c)' <=> Fresh(c)  BY <1>1, <1>3 DEF Fresh, PartsOf
<1>5. QED  BY <1>1, <1>2, <1>3, <1>4 DEF Aligned, Persists

\* Each step of a connection keeps what is left of it in line.
LEMMA StepAligned ==
    ASSUME ChunksLast, Functional, NEW c \in Conns, ConnInv(c), Aligned(c), StepOf(c)
    PROVE  Aligned(c)'
<1>1. CASE \E r \in Requests[c] : Begin(c, r)  BY <1>1, BeginAligned
<1>2. CASE Transmit(c)
  <2>1. Left(c)' = Left(c)  BY <1>2, TransmitLeft
  <2>2. QED
    BY <1>2, <2>1, SameAligned DEF Transmit, session_vars
<1>3. CASE ClientCloses(c) \/ TimerExpires(c) \/ TimeoutHandler(c)
  <2>1. /\ buf' = buf /\ wire' = wire /\ unsent' = unsent /\ sent' = sent /\ cur' = cur
        /\ answered' = answered /\ stage' = stage
    BY <1>3 DEF ClientCloses, TimerExpires, TimeoutHandler, client_vars, session_vars
  <2>2. Left(c)' = Left(c)  BY <2>1 DEF Left
  <2>3. QED  BY <2>1, <2>2, SameAligned
<1>4. CASE Accept(c)
  <2>1. /\ buf' = buf /\ wire' = wire /\ unsent' = unsent /\ sent' = sent
        /\ answered' = answered /\ stage[c] = "absent" /\ stage'[c] = "header"
    BY <1>4 DEF Accept, client_vars, Functional
  <2>2. Left(c)' = Left(c)  BY <2>1 DEF Left
  <2>3. Fresh(c)' <=> Fresh(c)  BY <2>1, <2>2 DEF Fresh, PartsOf
  <2>4. QED  BY <2>1, <2>2, <2>3 DEF Aligned, Persists
<1>5. CASE ReadHeader(c)  BY <1>5, HeadTaken DEF Aligned, Persists
<1>6. CASE ReadBody(c)
  <2>1. stage[c] = "body" /\ stage'[c] = "handle" /\ Request(c)' = Request(c)
    BY <1>6 DEF ReadBody, Handle, Request, client_vars, Functional
  <2>2. Request(c).framing = "length"  BY <2>1 DEF ConnInv, InStep, Midway, Rests
  <2>3. QED  BY <2>1, <2>2 DEF Aligned, Persists
<1>7. CASE ReadData(c)
  <2>1. stage'[c] = "size"  BY <1>7 DEF ReadData, Await, Functional
  <2>2. QED  BY <2>1 DEF Aligned, Persists
<1>8. CASE ReadSize(c)
  <2>1. stage'[c] \in {"handle", "data", "size"} /\ Request(c).outcome # "bad_size"
    <3>1. \E rest : Handle(c, rest) \/ Await(c, "data", rest) \/ Await(c, "size", rest)
      BY <1>8 DEF ReadSize
    <3>2. QED  BY <1>8, <3>1 DEF ReadSize, Handle, Await, Functional
  <2>2. Request(c)' = Request(c)  BY <1>8 DEF ReadSize, Request, client_vars
  <2>3. QED  BY <2>1, <2>2 DEF Aligned, Persists
<1>9. CASE Drops(c)
  <2>1. stage'[c] = "gone"
    BY <1>9 DEF Drops, ParseFails, BadSize, ReadFails, NoResource, SendFails, Finish, Drop,
      Functional
  <2>2. QED  BY <2>1 DEF Aligned, Persists
<1>10. CASE HandlerReturns(c)
  <2>1. /\ stage[c] = "handle" /\ stage'[c] = "send" /\ Request(c)' = Request(c)
    BY <1>10 DEF HandlerReturns, Request, client_vars, Functional, ConnInv, Typed
  <2>2. QED  BY <2>1 DEF Aligned, Persists
<1>11. CASE Sent(c)  BY <1>11, SentAligned
<1>12. CASE Continue(c)  BY <1>12, ContinueAligned
<1>13. QED
  BY <1>1, <1>2, <1>3, <1>4, <1>5, <1>6, <1>7, <1>8, <1>9, <1>10, <1>11, <1>12
  DEF StepOf, ServerStep, Drops

\* A head that does not parse is the latest request's, and it is malformed:
\* nothing stands in front of it.
LEMMA ParseFailsForCause ==
    ASSUME NEW c \in Conns, ConnInv(c), Aligned(c), ParseFails(c)
    PROVE  sent[c][Len(sent[c])].outcome = "malformed"
<1> DEFINE n == Len(sent[c])
           r == sent[c][n]
<1>1. PICK k \in 0..Len(wire[c]) :
          /\ HasHead(Read(c, k))
          /\ Read(c, k)[1].kind # "head" \/ sent[c][Read(c, k)[1].req].outcome = "malformed"
  BY DEF ParseFails
<1>2. stage[c] = "header" /\ Typed(c)  BY DEF ParseFails, ConnInv
<1> DEFINE p == Read(c, k)
<1>3. p # <<>>  BY <1>1 DEF HasHead
<1>4. Left(c) # <<>> /\ Left(c)[1] = p[1]  BY <1>2, <1>3, ReadTakes
<1>5. Left(c) = PartsOf(r, n) /\ n = Len(answered[c]) + 1
  BY <1>2, <1>4 DEF Aligned, Fresh
<1>6. n \in 1..MaxRequests[c] /\ r \in Requests[c]
  BY <1>2, <1>5, LenProperties, ElementOfSeq, NumbersAssumption DEF Typed
<1>7. r.framing \in Framings  BY <1>6, RequestsAssumption
<1>8. p[1] = [kind |-> "head", req |-> n]
  <2>1. Left(c) = Of(KindsOf(r.framing), n)  BY <1>5 DEF PartsOf, Of
  <2>2. KindsOf(r.framing)[1] = "head" /\ 1 \in 1..Len(KindsOf(r.framing))
    BY <1>7 DEF KindsOf, Framings
  <2>3. Left(c)[1] = [kind |-> "head", req |-> n]  BY <2>1, <2>2 DEF Of
  <2>4. QED  BY <1>4, <2>3
<1>9. p[1].kind = "head" /\ p[1].req = n  BY <1>8
<1>10. QED  BY <1>1, <1>9

\* Why a connection goes.
Cause(c) ==
    \/ closing[c] \/ shut[c]
    \/ stage[c] = "sent" /\ Request(c).last
    \/ stage[c] = "handle" /\ Request(c).outcome = "unmatched"
    \/ stage[c] = "header" /\ sent[c][Len(sent[c])].outcome = "malformed"
    \/ stage[c] = "size" /\ Request(c).outcome = "bad_size"

\* The steps with which a connection goes have one of the causes, and the
\* others do not end it.
LEMMA GoesForCause ==
    ASSUME Functional, NEW c \in Conns, ConnInv(c), Aligned(c), StepOf(c),
           stage[c] # "gone", stage'[c] = "gone"
    PROVE  Cause(c)
<1>1. CASE ParseFails(c)
  <2>1. sent[c][Len(sent[c])].outcome = "malformed"  BY <1>1, ParseFailsForCause
  <2>2. stage[c] = "header"  BY <1>1 DEF ParseFails
  <2>3. QED  BY <2>1, <2>2 DEF Cause
<1>2. CASE BadSize(c)  BY <1>2 DEF BadSize, Cause
<1>3. CASE ReadFails(c)  BY <1>3 DEF ReadFails, Cause
<1>4. CASE NoResource(c)
  <2>1. stage[c] = "handle"  BY <1>4 DEF NoResource, ConnInv, Typed
  <2>2. QED  BY <1>4, <2>1 DEF NoResource, Cause
<1>5. CASE SendFails(c)  BY <1>5 DEF SendFails, Cause
<1>6. CASE Finish(c)  BY <1>6 DEF Finish, Cause
<1>7. CASE \/ \E r \in Requests[c] : Begin(c, r)
           \/ Transmit(c) \/ ClientCloses(c) \/ TimerExpires(c) \/ TimeoutHandler(c)
  BY <1>7 DEF Begin, Transmit, ClientCloses, TimerExpires, TimeoutHandler, session_vars
<1>8. CASE Accept(c) \/ HandlerReturns(c) \/ Sent(c) \/ Continue(c)
  BY <1>8 DEF Accept, HandlerReturns, Sent, Continue, Functional
<1>9. CASE ReadHeader(c)  BY <1>9, HeadTaken
<1>10. CASE ReadBody(c) \/ ReadData(c)
  BY <1>10 DEF ReadBody, ReadData, Handle, Await, Functional
<1>11. CASE ReadSize(c)
  <2>1. \E rest : Handle(c, rest) \/ Await(c, "data", rest) \/ Await(c, "size", rest)
    BY <1>11 DEF ReadSize
  <2>2. QED  BY <2>1 DEF Handle, Await, Functional
<1>12. QED
  BY <1>1, <1>2, <1>3, <1>4, <1>5, <1>6, <1>7, <1>8, <1>9, <1>10, <1>11 DEF StepOf, ServerStep

\* Every connection stays in line, and one that goes has a cause.
LEMMA NextAligned ==
    ASSUME ChunksLast, IInv, \A c \in Conns : Aligned(c), [Next]_vars
    PROVE  /\ \A c \in Conns : Aligned(c)'
           /\ \A c \in Conns : stage[c] # "gone" /\ stage'[c] = "gone" => Cause(c)
<1>1. CASE UNCHANGED vars
  <2>1. /\ sent' = sent /\ unsent' = unsent /\ wire' = wire /\ stage' = stage /\ buf' = buf
        /\ cur' = cur /\ answered' = answered
    BY <1>1 DEF vars, client_vars, session_vars
  <2>2. ASSUME NEW c \in Conns PROVE Aligned(c)'
    <3>1. Left(c)' = Left(c)  BY <2>1 DEF Left
    <3>2. QED  BY <2>1, <3>1, SameAligned
  <2>3. QED  BY <2>1, <2>2
<1>2. CASE Next
  <2>1. PICK c \in Conns : StepOf(c)  BY <1>2 DEF Next, StepOf
  <2>2. Functional /\ ConnInv(c) /\ Aligned(c)  BY DEF IInv
  <2>3. Elsewhere(c)  BY <2>1, <2>2, StepLocal
  <2>4. Aligned(c)'  BY <2>1, <2>2, StepAligned
  <2>5. ASSUME NEW d \in Conns \ {c} PROVE Aligned(d)'
    <3>1. /\ buf'[d] = buf[d] /\ sent'[d] = sent[d] /\ cur'[d] = cur[d]
          /\ answered'[d] = answered[d] /\ stage'[d] = stage[d]
      BY <2>3 DEF Elsewhere
    <3>2. Left(d)' = Left(d)  BY <2>3 DEF Left, Elsewhere
    <3>3. QED  BY <3>1, <3>2, SameAligned
  <2>6. ASSUME NEW d \in Conns, stage[d] # "gone", stage'[d] = "gone" PROVE Cause(d)
    <3>1. d = c  BY <2>3, <2>6 DEF Elsewhere
    <3>2. QED  BY <2>1, <2>2, <2>6, <3>1, GoesForCause
  <2>7. QED  BY <2>4, <2>5, <2>6
<1>3. QED  BY <1>1, <1>2

-----------------------------------------------------------------------------
\* Whatever clients send and however it arrives, no accepted connection waits
\* without a limit, and the n-th answer on a connection is the n-th request's.
THEOREM ConnectionsCorrect == Spec => []ConnectionsInv
<1>1. IInv => ConnectionsInv  BY InvImplies
<1>2. QED  BY <1>1, InitInv, NextInv, PTL DEF Spec

\* Every resource function is called with the whole of its request.
THEOREM ServedCorrect == Spec => []ServedWhole
<1>1. IInv => ServedWhole  BY InvImplies
<1>2. QED  BY <1>1, InitInv, NextInv, PTL DEF Spec

\* If chunked content comes only in requests that close their connection, a
\* connection goes for a cause: its client closed it or was too slow, or the
\* request in hand asks for it, has no resource, or does not parse.
THEOREM ConnectionsPersist == ASSUME ChunksLast PROVE Spec => DroppedForCause
<1>1. Init => \A c \in Conns : Aligned(c)
  BY DEF Init, Aligned, Persists, Left
<1>2. IInv /\ (\A c \in Conns : Aligned(c)) /\ [Next]_vars => (\A c \in Conns : Aligned(c))'
  BY NextAligned
<1>3. IInv /\ (\A c \in Conns : Aligned(c)) /\ [Next]_vars =>
        [\A c \in Conns : stage[c] # "gone" /\ stage'[c] = "gone" =>
          \/ closing[c] \/ shut[c]
          \/ stage[c] = "sent" /\ Request(c).last
          \/ stage[c] = "handle" /\ Request(c).outcome = "unmatched"
          \/ stage[c] = "header" /\ sent[c][Len(sent[c])].outcome = "malformed"
          \/ stage[c] = "size" /\ Request(c).outcome = "bad_size"]_vars
  BY NextAligned DEF Cause
<1>4. QED  BY <1>1, <1>2, <1>3, InitInv, NextInv, PTL DEF Spec, DroppedForCause

==============================================================================
