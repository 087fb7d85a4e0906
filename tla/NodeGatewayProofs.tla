-------------------------- MODULE NodeGatewayProofs --------------------------
(***************************************************************************)
(* Proofs about ewdGateway.js as NodeGateway models it, for any number of  *)
(* requests and any pool size.                                             *)
(*                                                                         *)
(* The first part is about the loop of processQueue: it hands as many      *)
(* requests out as the queue and the free connections allow, each to a     *)
(* connection of its own.  The second is the invariant IInv: what is in    *)
(* the pipes of a connection at rest and of one at work.  The third is the *)
(* refinement of RequestPool, the last one the way of a page through the   *)
(* chunks to its client (WorkWhole, GotWhole).                             *)
(***************************************************************************)
EXTENDS NodeGateway, TLAPS, FunctionTheorems, FiniteSetTheorems, SequenceTheorems

(* How many requests processQueue hands out.                               *)
Dealt(q, conns) == IF Len(q) <= Cardinality(conns) THEN Len(q) ELSE Cardinality(conns)

LEMMA ConnsFinite ==
    /\ IsFiniteSet(Conns) /\ Cardinality(Conns) = PoolSize
    /\ \A S \in SUBSET Conns : IsFiniteSet(S) /\ Cardinality(S) \in Nat
<1>1. IsFiniteSet(Conns) /\ Cardinality(Conns) = PoolSize
  BY PoolSizeAssumption, FS_Interval DEF Conns
<1>2. ASSUME NEW S \in SUBSET Conns PROVE IsFiniteSet(S) /\ Cardinality(S) \in Nat
  BY <1>1, FS_Subset, FS_CardinalityType
<1>3. QED
  BY <1>1, <1>2

(* The rank of a free connection says the how manieth it is: ranks are     *)
(* different, and all numbers up to the number of free connections occur.  *)
LEMMA RankBijects ==
    ASSUME NEW conns \in SUBSET Conns
    PROVE  /\ \A c \in conns : Rank(c, conns) \in 1 .. Cardinality(conns)
           /\ \A c, d \in conns : Rank(c, conns) = Rank(d, conns) => c = d
           /\ \A i \in 1 .. Cardinality(conns) : \E c \in conns : Rank(c, conns) = i
<1> DEFINE Upto(c) == {d \in conns : d <= c}
           N == Cardinality(conns)
           rank == [c \in conns |-> Rank(c, conns)]
<1>1. IsFiniteSet(conns) /\ N \in Nat
  BY ConnsFinite
<1>2. ASSUME NEW c \in conns
      PROVE  IsFiniteSet(Upto(c)) /\ Rank(c, conns) = Cardinality(Upto(c))
             /\ Rank(c, conns) \in 1 .. N
  <2>1. Upto(c) \in SUBSET conns
    OBVIOUS
  <2>2. IsFiniteSet(Upto(c)) /\ Cardinality(Upto(c)) <= N
    BY <1>1, <2>1, FS_Subset
  <2>3. c \in Upto(c)
    BY DEF Conns
  <2>4. Cardinality(Upto(c)) \in Nat
    BY <2>2, FS_CardinalityType
  <2>5. Cardinality(Upto(c)) # 0
    BY <2>2, <2>3, FS_EmptySet
  <2>6. Rank(c, conns) = Cardinality(Upto(c))
    BY DEF Rank
  <2>7. QED
    BY <1>1, <2>2, <2>4, <2>5, <2>6
<1>3. ASSUME NEW c \in conns, NEW d \in conns, c < d
      PROVE  Rank(c, conns) # Rank(d, conns)
  <2>1. \A e \in conns : e \in Nat
    BY PoolSizeAssumption DEF Conns
  <2>2. \A e \in conns : e <= c => e <= d
    BY <1>3, <2>1
  <2>3. Upto(c) \in SUBSET Upto(d)
    BY <2>2, Zenon
  <2>4. d \in Upto(d) /\ d \notin Upto(c)
    BY <1>3, <2>1
  <2>5. Upto(c) # Upto(d)
    BY <2>4
  <2>6. Cardinality(Upto(d)) # Cardinality(Upto(c))
    BY <1>2, <2>3, <2>5, FS_Subset
  <2>7. QED
    BY <1>2, <2>6
<1>4. \A c, d \in conns : Rank(c, conns) = Rank(d, conns) => c = d
  BY <1>3 DEF Conns
<1>5. rank \in Injection(conns, 1 .. N)
  BY <1>2, <1>4, Fun_IsInj
<1>6. IsFiniteSet(1 .. N) /\ Cardinality(1 .. N) = N
  BY <1>1, FS_Interval
<1>7. rank \in Surjection(conns, 1 .. N)
  BY <1>5, <1>6, FS_Injection
<1>8. \A i \in 1 .. N : \E c \in conns : rank[c] = i
  <2> HIDE DEF rank, N
  <2> QED
    BY <1>7 DEF Surjection
<1>9. QED
  BY <1>2, <1>4, <1>8

(* The loop of processQueue ends when the queue is empty or no connection  *)
(* is free, and what it has handed out are the first requests of the queue.*)
LEMMA TakersDealt ==
    ASSUME NEW conns \in SUBSET Conns, NEW S, NEW q \in Seq(S)
    PROVE  /\ Dealt(q, conns) \in Nat
           /\ Takers(q, conns) \subseteq conns
           /\ Cardinality(Takers(q, conns)) = Dealt(q, conns)
           /\ \A c \in Takers(q, conns) : Rank(c, conns) \in 1 .. Dealt(q, conns)
           /\ \A c, d \in Takers(q, conns) : Rank(c, conns) = Rank(d, conns) => c = d
           /\ \A i \in 1 .. Dealt(q, conns) : \E c \in Takers(q, conns) : Rank(c, conns) = i
           /\ Dealt(q, conns) = Len(q) \/ conns \ Takers(q, conns) = {}
<1> DEFINE T == Takers(q, conns)
           n == Dealt(q, conns)
           rank == [c \in T |-> Rank(c, conns)]
<1>1. Len(q) \in Nat /\ Cardinality(conns) \in Nat
  BY LenProperties, ConnsFinite
<1>2. n \in Nat /\ n <= Len(q) /\ n <= Cardinality(conns)
  BY <1>1 DEF Dealt
<1>3. T \subseteq conns
  BY DEF Takers
<1>4. \A c \in T : Rank(c, conns) \in 1 .. n
  BY <1>1, <1>3, RankBijects DEF Takers, Dealt
<1>5. \A c, d \in T : Rank(c, conns) = Rank(d, conns) => c = d
  BY <1>3, RankBijects
<1>6. \A i \in 1 .. n : \E c \in T : Rank(c, conns) = i
  <2> TAKE i \in 1 .. n
  <2>1. i \in 1 .. Cardinality(conns) /\ i <= Len(q)
    BY <1>1, <1>2
  <2>2. PICK c \in conns : Rank(c, conns) = i
    BY <2>1, RankBijects
  <2>3. QED
    BY <2>1, <2>2 DEF Takers
<1>7. Cardinality(T) = n
  <2>1. rank \in Bijection(T, 1 .. n)
    BY <1>4, <1>5, <1>6, Fun_IsBij
  <2>2. ExistsBijection(T, 1 .. n)
    BY <2>1 DEF ExistsBijection
  <2>3. IsFiniteSet(T)
    BY <1>3, ConnsFinite
  <2>4. Cardinality(1 .. n) = n
    BY <1>2, FS_Interval
  <2>5. QED
    BY <2>2, <2>3, <2>4, FS_Bijection
<1>8. n = Len(q) \/ conns \ T = {}
  <2>1. SUFFICES ASSUME n # Len(q) PROVE conns \subseteq T
    OBVIOUS
  <2>2. Cardinality(conns) <= Len(q)
    BY <1>1, <2>1 DEF Dealt
  <2>3. QED
    BY <1>1, <2>2, RankBijects DEF Takers
<1>9. QED
  BY <1>2, <1>3, <1>4, <1>5, <1>6, <1>7, <1>8

-----------------------------------------------------------------------------
(* What a connection has in its pipes.                                     *)

PartNames == {"headers", "blank1", "blank2", "body", "eor1", "eor2", "refresh"}
Texts == [of : Requests \cup {NoRequest}, part : PartNames]

(* Text of no request, without the terminator.                             *)
Silent(s) == \A i \in 1 .. Len(s) : s[i].of = NoRequest /\ ~IsEor(s[i])

(* Text of the request r or of none, without the terminator.               *)
Saying(s, r) == \A i \in 1 .. Len(s) : s[i].of \in {r, NoRequest} /\ ~IsEor(s[i])

(* A text of r, up to and with the terminator, then silence.               *)
Closing(s, r, k) ==
    /\ k \in 1 .. Len(s)
    /\ IsEor(s[k]) /\ s[k].of = NoRequest
    /\ \A i \in 1 .. Len(s) : i < k => s[i].of \in {r, NoRequest} /\ ~IsEor(s[i])
    /\ \A i \in 1 .. Len(s) : i > k => s[i].of = NoRequest /\ ~IsEor(s[i])

Mentions(s, r) == \E i \in 1 .. Len(s) : s[i].of = r

(* The page of r is in s once and in one piece, and nothing else for r.    *)
Whole(s, r) ==
    \E b \in 0 .. (Len(s) - 4) :
        /\ \A i \in 1 .. 4 : s[b + i] = Page(r)[i]
        /\ \A j \in 1 .. Len(s) : s[j].of = r => j \in (b + 1) .. (b + 4)

(* The same, with the first half of the terminator behind the page.        *)
Told(s, r) ==
    \E b \in 0 .. (Len(s) - 5) :
        /\ \A i \in 1 .. 4 : s[b + i] = Page(r)[i]
        /\ ~IsEor(s[b + 5])
        /\ \A j \in 1 .. Len(s) : s[j].of = r => j \in (b + 1) .. (b + 4)

(* A connection that is free: nothing asked, nothing said for anybody.     *)
AtRest(in, out, text) == in = <<>> /\ Silent(out) /\ Silent(text)

(* A connection at work for r: either r is still to be read, or it was, and*)
(* all of its answer with one terminator is under way.                     *)
AtWork(r, in, out, text) ==
    \/ in = <<r>> /\ Silent(out) /\ Silent(text)
    \/ /\ in = <<>> /\ Saying(text, r)
       /\ \E k \in 1 .. Len(out) : Closing(out, r, k)
       /\ Mentions(text, r) \/ Mentions(out, r)

(* A chunk and what is left of the output after it.                        *)
LEMMA Chunked ==
    ASSUME NEW out \in Seq(Texts), NEW n \in 1 .. Len(out), NEW text \in Seq(Texts)
    PROVE  LET chunk == SubSeq(out, 1, n)
               rest == SubSeq(out, n + 1, Len(out))
               both == text \o chunk
           IN  /\ chunk \in Seq(Texts) /\ Len(chunk) = n
               /\ rest \in Seq(Texts) /\ Len(rest) = Len(out) - n
               /\ both \in Seq(Texts) /\ Len(both) = Len(text) + n
               /\ \A i \in 1 .. n : chunk[i] = out[i]
               /\ \A i \in 1 .. (Len(out) - n) : rest[i] = out[n + i]
               /\ \A i \in 1 .. Len(text) : both[i] = text[i]
               /\ \A i \in 1 .. n : both[Len(text) + i] = out[i]
<1> DEFINE chunk == SubSeq(out, 1, n)
           rest == SubSeq(out, n + 1, Len(out))
           both == text \o chunk
<1>1. Len(out) \in Nat /\ Len(text) \in Nat /\ n \in Nat /\ n <= Len(out)
  BY LenProperties
<1>2. \A i \in 1 .. Len(out) : out[i] \in Texts
  BY ElementOfSeq
<1>3. /\ chunk \in Seq(Texts) /\ Len(chunk) = n
      /\ \A i \in 1 .. n : chunk[i] = out[i]
  <2>1. \A i \in 1 .. n : out[i] \in Texts
    BY <1>1, <1>2
  <2>2. /\ chunk \in Seq(Texts)
        /\ Len(chunk) = IF 1 <= n THEN n - 1 + 1 ELSE 0
        /\ \A i \in 1 .. (n - 1 + 1) : chunk[i] = out[1 + i - 1]
    BY <1>1, <2>1, SubSeqProperties
  <2> HIDE DEF chunk
  <2>3. QED
    BY <1>1, <2>2
<1>4. /\ rest \in Seq(Texts) /\ Len(rest) = Len(out) - n
      /\ \A i \in 1 .. (Len(out) - n) : rest[i] = out[n + i]
  <2>1. n + 1 \in Int /\ Len(out) \in Int /\ \A i \in (n + 1) .. Len(out) : out[i] \in Texts
    BY <1>1, <1>2
  <2>2. /\ rest \in Seq(Texts)
        /\ Len(rest) = IF n + 1 <= Len(out) THEN Len(out) - (n + 1) + 1 ELSE 0
        /\ \A i \in 1 .. (Len(out) - (n + 1) + 1) : rest[i] = out[(n + 1) + i - 1]
    BY <2>1, SubSeqProperties
  <2> HIDE DEF rest
  <2>3. QED
    BY <1>1, <2>2
<1>5. /\ both \in Seq(Texts) /\ Len(both) = Len(text) + n
      /\ \A i \in 1 .. Len(text) : both[i] = text[i]
      /\ \A i \in 1 .. n : both[Len(text) + i] = out[i]
  <2> HIDE DEF chunk
  <2>1. /\ both \in Seq(Texts) /\ Len(both) = Len(text) + Len(chunk)
        /\ \A i \in 1 .. (Len(text) + Len(chunk)) :
              both[i] = IF i <= Len(text) THEN text[i] ELSE chunk[i - Len(text)]
    BY <1>3, ConcatProperties
  <2> HIDE DEF both
  <2>2. ASSUME NEW i \in 1 .. n PROVE both[Len(text) + i] = chunk[i]
    BY <1>1, <1>3, <2>1
  <2>3. QED
    BY <1>1, <1>3, <2>1, <2>2
<1>6. QED
  BY <1>3, <1>4, <1>5

(* A chunk that brings no terminator leaves a free connection free and one *)
(* at work at work.                                                        *)
LEMMA ChunkCollected ==
    ASSUME NEW out \in Seq(Texts), NEW n \in 1 .. Len(out), NEW text \in Seq(Texts),
           NEW in, NEW r
    PROVE  LET rest == SubSeq(out, n + 1, Len(out))
               both == text \o SubSeq(out, 1, n)
           IN  /\ AtRest(in, out, text) => AtRest(in, rest, both) /\ \A i \in DOMAIN both : ~IsEor(both[i])
               /\ AtWork(r, in, out, text) /\ (\A i \in DOMAIN both : ~IsEor(both[i]))
                    => AtWork(r, in, rest, both)
<1> DEFINE rest == SubSeq(out, n + 1, Len(out))
           both == text \o SubSeq(out, 1, n)
<1>1. /\ Len(out) \in Nat /\ Len(text) \in Nat /\ n \in Nat /\ n <= Len(out)
      /\ rest \in Seq(Texts) /\ Len(rest) = Len(out) - n
      /\ both \in Seq(Texts) /\ Len(both) = Len(text) + n
      /\ \A i \in 1 .. (Len(out) - n) : rest[i] = out[n + i]
      /\ \A i \in 1 .. Len(text) : both[i] = text[i]
      /\ \A i \in 1 .. n : both[Len(text) + i] = out[i]
  BY Chunked, LenProperties
<1>2. DOMAIN both = 1 .. Len(both)
  BY <1>1, LenProperties
<1> HIDE DEF rest, both
<1>3. ASSUME NEW i \in 1 .. Len(both)
      PROVE  \/ i \in 1 .. Len(text) /\ both[i] = text[i]
             \/ i - Len(text) \in 1 .. Len(out) /\ i - Len(text) <= n /\ both[i] = out[i - Len(text)]
  <2>1. CASE i <= Len(text)
    BY <1>1, <2>1
  <2>2. CASE i > Len(text)
    <3>1. i - Len(text) \in 1 .. n /\ Len(text) + (i - Len(text)) = i
      BY <1>1, <2>2
    <3>2. QED
      BY <1>1, <3>1
  <2>3. QED
    BY <1>1, <2>1, <2>2
<1>4. ASSUME NEW i \in 1 .. Len(rest)
      PROVE  n + i \in 1 .. Len(out) /\ n + i > n /\ rest[i] = out[n + i]
  BY <1>1
<1>5. Silent(out) => Silent(rest)
  BY <1>4 DEF Silent
<1>6. Silent(out) /\ Silent(text) => Silent(both)
  BY <1>3 DEF Silent
<1>7. AtRest(in, out, text) => AtRest(in, rest, both) /\ \A i \in DOMAIN both : ~IsEor(both[i])
  BY <1>2, <1>5, <1>6 DEF AtRest, Silent
<1>8. ASSUME AtWork(r, in, out, text), \A i \in DOMAIN both : ~IsEor(both[i])
      PROVE  AtWork(r, in, rest, both)
  <2>1. CASE in = <<r>> /\ Silent(out) /\ Silent(text)
    BY <1>5, <1>6, <2>1 DEF AtWork
  <2>2. ASSUME in = <<>>, Saying(text, r), NEW k \in 1 .. Len(out), Closing(out, r, k),
               Mentions(text, r) \/ Mentions(out, r)
        PROVE  AtWork(r, in, rest, both)
    <3>1. k > n
      <4>1. SUFFICES ASSUME k <= n PROVE FALSE
        BY <1>1
      <4>2. k \in 1 .. n /\ Len(text) + k \in 1 .. Len(both)
        BY <1>1, <4>1
      <4>3. IsEor(both[Len(text) + k])
        BY <1>1, <2>2, <4>2 DEF Closing
      <4>4. QED
        BY <1>2, <1>8, <4>2, <4>3
    <3>2. k - n \in 1 .. Len(rest) /\ rest[k - n] = out[k]
      <4>1. k - n \in 1 .. Len(rest) /\ n + (k - n) = k
        BY <1>1, <3>1
      <4>2. QED
        BY <1>4, <4>1
    <3>3. Closing(rest, r, k - n)
      <4>1. ASSUME NEW i \in 1 .. Len(rest), i < k - n
            PROVE  rest[i].of \in {r, NoRequest} /\ ~IsEor(rest[i])
        <5>1. n + i < k
          BY <1>1, <4>1
        <5>2. QED
          BY <1>4, <2>2, <5>1 DEF Closing
      <4>2. ASSUME NEW i \in 1 .. Len(rest), i > k - n
            PROVE  rest[i].of = NoRequest /\ ~IsEor(rest[i])
        <5>1. n + i > k
          BY <1>1, <4>2
        <5>2. QED
          BY <1>4, <2>2, <5>1 DEF Closing
      <4>3. IsEor(rest[k - n]) /\ rest[k - n].of = NoRequest
        BY <2>2, <3>2 DEF Closing
      <4>4. QED
        BY <3>2, <4>1, <4>2, <4>3 DEF Closing
    <3>4. Saying(both, r)
      <4>1. ASSUME NEW i \in 1 .. Len(both)
            PROVE  both[i].of \in {r, NoRequest} /\ ~IsEor(both[i])
        <5>1. CASE i \in 1 .. Len(text) /\ both[i] = text[i]
          BY <2>2, <5>1 DEF Saying
        <5>2. CASE i - Len(text) \in 1 .. Len(out) /\ i - Len(text) <= n
                   /\ both[i] = out[i - Len(text)]
          <6>1. i - Len(text) < k
            BY <1>1, <3>1, <5>2
          <6>2. QED
            BY <2>2, <5>2, <6>1 DEF Closing
        <5>3. QED
          BY <1>3, <5>1, <5>2
      <4>2. QED
        BY <4>1 DEF Saying
    <3>5. Mentions(both, r) \/ Mentions(rest, r)
      <4>1. CASE Mentions(text, r)
        <5>1. PICK i \in 1 .. Len(text) : text[i].of = r
          BY <4>1 DEF Mentions
        <5>2. i \in 1 .. Len(both) /\ both[i].of = r
          BY <1>1, <5>1
        <5>3. QED
          BY <5>2 DEF Mentions
      <4>2. CASE Mentions(out, r)
        <5>1. PICK i \in 1 .. Len(out) : out[i].of = r
          BY <4>2 DEF Mentions
        <5>2. CASE i <= n
          <6>1. i \in 1 .. n /\ Len(text) + i \in 1 .. Len(both)
            BY <1>1, <5>2
          <6>2. QED
            BY <1>1, <5>1, <6>1 DEF Mentions
        <5>3. CASE i > n
          <6>1. i - n \in 1 .. Len(rest) /\ n + (i - n) = i
            BY <1>1, <5>3
          <6>2. QED
            BY <1>4, <5>1, <6>1 DEF Mentions
        <5>4. QED
          BY <1>1, <5>2, <5>3
      <4>3. QED
        BY <2>2, <4>1, <4>2
    <3>6. QED
      BY <2>2, <3>2, <3>3, <3>4, <3>5 DEF AtWork
  <2>3. QED
    BY <1>8, <2>1, <2>2 DEF AtWork
<1>9. QED
  BY <1>7, <1>8 DEF rest, both

(* A chunk that brings the terminator brings all that is left of the answer*)
(* of the request at work, and nothing of another one.                     *)
LEMMA ChunkAnswers ==
    ASSUME NEW out \in Seq(Texts), NEW n \in 1 .. Len(out), NEW text \in Seq(Texts),
           NEW in, NEW r, AtWork(r, in, out, text),
           \E i \in DOMAIN (text \o SubSeq(out, 1, n)) : IsEor((text \o SubSeq(out, 1, n))[i])
    PROVE  LET rest == SubSeq(out, n + 1, Len(out))
               both == text \o SubSeq(out, 1, n)
               page == SubSeq(both, 1, FirstEor(both) - 2)
           IN  /\ AtRest(in, rest, <<>>)
               /\ page \in Seq(Texts)
               /\ \A i \in 1 .. Len(page) : page[i].of \in {r, NoRequest}
<1> DEFINE rest == SubSeq(out, n + 1, Len(out))
           both == text \o SubSeq(out, 1, n)
           end == FirstEor(both)
           page == SubSeq(both, 1, end - 2)
<1>1. /\ Len(out) \in Nat /\ Len(text) \in Nat /\ n \in Nat /\ n <= Len(out)
      /\ rest \in Seq(Texts) /\ Len(rest) = Len(out) - n
      /\ both \in Seq(Texts) /\ Len(both) = Len(text) + n
      /\ \A i \in 1 .. (Len(out) - n) : rest[i] = out[n + i]
      /\ \A i \in 1 .. Len(text) : both[i] = text[i]
      /\ \A i \in 1 .. n : both[Len(text) + i] = out[i]
  BY Chunked, LenProperties
<1>2. DOMAIN both = 1 .. Len(both) /\ \E i \in DOMAIN both : IsEor(both[i])
  BY <1>1, LenProperties
<1> HIDE DEF rest, both
<1>3. ASSUME NEW i \in 1 .. Len(both)
      PROVE  \/ i \in 1 .. Len(text) /\ both[i] = text[i]
             \/ i - Len(text) \in 1 .. Len(out) /\ i - Len(text) <= n /\ both[i] = out[i - Len(text)]
  <2>1. CASE i <= Len(text)
    BY <1>1, <2>1
  <2>2. CASE i > Len(text)
    <3>1. i - Len(text) \in 1 .. n /\ Len(text) + (i - Len(text)) = i
      BY <1>1, <2>2
    <3>2. QED
      BY <1>1, <3>1
  <2>3. QED
    BY <1>1, <2>1, <2>2
<1>4. ASSUME NEW i \in 1 .. Len(rest)
      PROVE  n + i \in 1 .. Len(out) /\ n + i > n /\ rest[i] = out[n + i]
  BY <1>1
<1>5. ~(Silent(out) /\ Silent(text))
  <2>1. SUFFICES ASSUME Silent(out), Silent(text) PROVE FALSE
    OBVIOUS
  <2>2. PICK i \in 1 .. Len(both) : IsEor(both[i])
    BY <1>2
  <2>3. QED
    BY <1>3, <2>1, <2>2 DEF Silent
<1>6. /\ in = <<>> /\ Saying(text, r)
      /\ \E k \in 1 .. Len(out) : Closing(out, r, k)
  BY <1>5 DEF AtWork
<1>7. PICK k \in 1 .. Len(out) : Closing(out, r, k)
  BY <1>6
<1>8. k <= n
  <2>1. SUFFICES ASSUME k > n PROVE FALSE
    BY <1>1
  <2>2. PICK i \in 1 .. Len(both) : IsEor(both[i])
    BY <1>2
  <2>3. CASE i \in 1 .. Len(text) /\ both[i] = text[i]
    BY <1>6, <2>2, <2>3 DEF Saying
  <2>4. CASE i - Len(text) \in 1 .. Len(out) /\ i - Len(text) <= n /\ both[i] = out[i - Len(text)]
    <3>1. i - Len(text) < k
      BY <1>1, <2>1, <2>4
    <3>2. QED
      BY <1>7, <2>2, <2>4, <3>1 DEF Closing
  <2>5. QED
    BY <1>3, <2>3, <2>4
<1>9. Silent(rest)
  <2>1. ASSUME NEW i \in 1 .. Len(rest) PROVE rest[i].of = NoRequest /\ ~IsEor(rest[i])
    <3>1. n + i > k
      BY <1>1, <1>8, <2>1
    <3>2. QED
      BY <1>4, <1>7, <3>1 DEF Closing
  <2>2. QED
    BY <2>1 DEF Silent
<1>10. AtRest(in, rest, <<>>)
  <2>1. Silent(<<>>)
    BY EmptySeq DEF Silent
  <2>2. QED
    BY <1>6, <1>9, <2>1 DEF AtRest
<1>11. \A i \in 1 .. Len(both) : both[i].of \in {r, NoRequest}
  <2> TAKE i \in 1 .. Len(both)
  <2>1. CASE i \in 1 .. Len(text) /\ both[i] = text[i]
    BY <1>6, <2>1 DEF Saying
  <2>2. CASE i - Len(text) \in 1 .. Len(out) /\ i - Len(text) <= n /\ both[i] = out[i - Len(text)]
    <3>1. i - Len(text) < k \/ i - Len(text) = k \/ i - Len(text) > k
      BY <2>2
    <3>2. QED
      BY <1>7, <2>2, <3>1 DEF Closing
  <2>3. QED
    BY <1>3, <2>1, <2>2
<1>12. end \in 1 .. Len(both)
  <2>1. Len(text) + k \in 1 .. Len(both) /\ IsEor(both[Len(text) + k])
    <3>1. k \in 1 .. n
      BY <1>1, <1>8
    <3>2. Len(text) + k \in 1 .. Len(both) /\ both[Len(text) + k] = out[k]
      BY <1>1, <3>1
    <3>3. QED
      BY <1>7, <3>2 DEF Closing
  <2>2. ASSUME NEW j \in 1 .. ((Len(text) + k) - 1) PROVE ~IsEor(both[j])
    <3>1. j \in 1 .. Len(both)
      BY <1>1, <1>8
    <3>2. CASE j \in 1 .. Len(text) /\ both[j] = text[j]
      BY <1>6, <3>2 DEF Saying
    <3>3. CASE j - Len(text) \in 1 .. Len(out) /\ j - Len(text) <= n /\ both[j] = out[j - Len(text)]
      <4>1. j - Len(text) < k
        BY <1>1
      <4>2. QED
        BY <1>7, <3>3, <4>1 DEF Closing
    <3>4. QED
      BY <1>3, <3>1, <3>2, <3>3
  <2>3. \E i \in DOMAIN both : IsEor(both[i]) /\ \A j \in 1 .. (i - 1) : ~IsEor(both[j])
    BY <1>2, <2>1, <2>2
  <2>4. end \in DOMAIN both
    BY <2>3 DEF FirstEor
  <2>5. QED
    BY <1>2, <2>4
<1>13. /\ page \in Seq(Texts)
       /\ \A i \in 1 .. Len(page) : page[i].of \in {r, NoRequest}
  <2>1. end - 2 \in Int /\ end - 2 < Len(both) /\ end - 2 >= -1
    BY <1>1, <1>12
  <2> HIDE DEF end
  <2>2. \A i \in 1 .. (end - 2) : i \in 1 .. Len(both) /\ both[i] \in Texts
    BY <1>1, <2>1, ElementOfSeq
  <2>3. /\ page \in Seq(Texts)
        /\ Len(page) = IF 1 <= end - 2 THEN (end - 2) - 1 + 1 ELSE 0
        /\ \A i \in 1 .. ((end - 2) - 1 + 1) : page[i] = both[1 + i - 1]
    BY <2>1, <2>2, SubSeqProperties
  <2> HIDE DEF page
  <2>4. ASSUME NEW i \in 1 .. Len(page) PROVE i \in 1 .. (end - 2) /\ page[i] = both[i]
    BY <2>1, <2>3
  <2>5. QED
    BY <1>11, <2>2, <2>3, <2>4
<1>14. QED
  BY <1>10, <1>13 DEF rest, both

(* An M process that reads a request writes its answer with one terminator.*)
LEMMA ListenerAnswers ==
    ASSUME NEW out \in Seq(Texts), NEW text \in Seq(Texts), NEW r \in Requests,
           NEW in \in Seq(Requests), in # <<>>, AtWork(r, in, out, text),
           NEW rest \in {<<>>, <<Refresh>>}
    PROVE  LET new == out \o Page(Head(in)) \o Eor \o rest
           IN  /\ AtWork(r, Tail(in), new, text) /\ new \in Seq(Texts) /\ Tail(in) = <<>>
               /\ Told(new, r)
<1> DEFINE page == Page(r)
           new == out \o page \o Eor \o rest
<1>1. in = <<r>> /\ Silent(out) /\ Silent(text)
  BY DEF AtWork
<1>2. Head(in) = r /\ Tail(in) = <<>>
  BY <1>1
<1>3. /\ page \in Seq(Texts) /\ Len(page) = 4
      /\ \A i \in 1 .. 4 : page[i].of = r /\ ~IsEor(page[i])
  BY DEF Page, Text, Texts, PartNames, IsEor
<1>4. /\ Eor \in Seq(Texts) /\ Len(Eor) = 2
      /\ Eor[1].of = NoRequest /\ ~IsEor(Eor[1])
      /\ Eor[2].of = NoRequest /\ IsEor(Eor[2])
  BY DEF Eor, Text, Texts, PartNames, IsEor
<1>5. /\ rest \in Seq(Texts) /\ Len(rest) \in Nat /\ Silent(rest)
  <2>1. CASE rest = <<>>
    BY <2>1, EmptySeq DEF Silent
  <2>2. CASE rest = <<Refresh>>
    <3>1. Refresh \in Texts /\ Refresh.of = NoRequest /\ ~IsEor(Refresh)
      BY DEF Refresh, Text, Texts, PartNames, IsEor
    <3>2. <<Refresh>> \in Seq(Texts) /\ Len(<<Refresh>>) = 1 /\ <<Refresh>>[1] = Refresh
      BY <3>1
    <3>3. QED
      BY <2>2, <3>1, <3>2 DEF Silent
  <2>3. QED
    BY <2>1, <2>2
<1>6. Len(out) \in Nat
  BY LenProperties
<1> DEFINE ab == out \o page
           abc == ab \o Eor
           L == Len(out)
<1>7. /\ ab \in Seq(Texts) /\ Len(ab) = L + 4
      /\ \A i \in 1 .. (L + 4) : ab[i] = IF i <= L THEN out[i] ELSE page[i - L]
  <2> HIDE DEF page
  <2>1. /\ out \o page \in Seq(Texts) /\ Len(out \o page) = Len(out) + Len(page)
        /\ \A i \in 1 .. (Len(out) + Len(page)) :
              (out \o page)[i] = IF i <= Len(out) THEN out[i] ELSE page[i - Len(out)]
    BY <1>3, ConcatProperties
  <2> HIDE DEF new, abc, ab
  <2>2. ab = out \o page
    BY DEF ab
  <2>3. QED
    BY <1>3, <1>6, <2>1, <2>2
<1>8. /\ abc \in Seq(Texts) /\ Len(abc) = L + 6
      /\ \A i \in 1 .. (L + 6) : abc[i] = IF i <= L + 4 THEN ab[i] ELSE Eor[i - (L + 4)]
  <2> HIDE DEF ab
  <2>1. /\ ab \o Eor \in Seq(Texts) /\ Len(ab \o Eor) = Len(ab) + Len(Eor)
        /\ \A i \in 1 .. (Len(ab) + Len(Eor)) :
              (ab \o Eor)[i] = IF i <= Len(ab) THEN ab[i] ELSE Eor[i - Len(ab)]
    <3>1. ab \in Seq(Texts) /\ Eor \in Seq(Texts)
      BY <1>4, <1>7
    <3> HIDE DEF ab
    <3>2. QED
      BY <3>1, ConcatProperties
  <2> HIDE DEF new, abc
  <2>2. abc = ab \o Eor
    BY DEF abc
  <2>3. Len(ab) + Len(Eor) = L + 6
    BY <1>4, <1>6, <1>7
  <2>4. QED
    BY <1>6, <1>7, <2>1, <2>2, <2>3
<1>9. /\ new \in Seq(Texts) /\ Len(new) = L + 6 + Len(rest)
      /\ \A i \in 1 .. (L + 6 + Len(rest)) : new[i] = IF i <= L + 6 THEN abc[i] ELSE rest[i - (L + 6)]
  <2>1. new = abc \o rest
    OBVIOUS
  <2> HIDE DEF abc, new
  <2>2. /\ abc \o rest \in Seq(Texts) /\ Len(abc \o rest) = Len(abc) + Len(rest)
        /\ \A i \in 1 .. (Len(abc) + Len(rest)) :
              (abc \o rest)[i] = IF i <= Len(abc) THEN abc[i] ELSE rest[i - Len(abc)]
    BY <1>5, <1>8, ConcatProperties
  <2>3. QED
    BY <1>6, <1>8, <2>1, <2>2
<1>10. \A i \in 1 .. L : new[i] = out[i]
  <2> HIDE DEF ab, abc, new, page, L
  <2> TAKE i \in 1 .. L
  <2>1. L \in Nat
    BY <1>6 DEF L
  <2>2. /\ i \in 1 .. (L + 6 + Len(rest)) /\ i \in 1 .. (L + 6) /\ i \in 1 .. (L + 4)
        /\ i <= L + 6 /\ i <= L + 4 /\ i <= L
    BY <1>5, <2>1
  <2>3. new[i] = abc[i]
    BY <1>9, <2>2
  <2>4. abc[i] = ab[i]
    BY <1>8, <2>2
  <2>5. ab[i] = out[i]
    BY <1>7, <2>2
  <2>6. QED
    BY <2>3, <2>4, <2>5
<1>11. ASSUME NEW i \in (L + 1) .. (L + 4) PROVE i - L \in 1 .. 4 /\ new[i] = page[i - L]
  <2> HIDE DEF ab, abc, new, page, L
  <2>1. L \in Nat
    BY <1>6 DEF L
  <2>2. /\ i \in 1 .. (L + 6 + Len(rest)) /\ i \in 1 .. (L + 6) /\ i \in 1 .. (L + 4)
        /\ i <= L + 6 /\ i <= L + 4 /\ ~(i <= L) /\ i - L \in 1 .. 4
    BY <1>5, <2>1
  <2>3. new[i] = abc[i]
    BY <1>9, <2>2
  <2>4. abc[i] = ab[i]
    BY <1>8, <2>2
  <2>5. ab[i] = page[i - L]
    BY <1>7, <2>2
  <2>6. QED
    BY <2>2, <2>3, <2>4, <2>5
<1>12. /\ L + 5 \in 1 .. Len(new) /\ new[L + 5] = Eor[1]
       /\ L + 6 \in 1 .. Len(new) /\ new[L + 6] = Eor[2]
  <2> HIDE DEF ab, abc, new, page
  <2>1. (L + 5) - (L + 4) = 1 /\ (L + 6) - (L + 4) = 2
    BY <1>6
  <2>2. abc[L + 5] = Eor[1] /\ abc[L + 6] = Eor[2]
    <3>1. /\ L + 5 \in 1 .. (L + 6) /\ ~(L + 5 <= L + 4)
          /\ L + 6 \in 1 .. (L + 6) /\ ~(L + 6 <= L + 4)
      BY <1>6
    <3>2. abc[L + 5] = Eor[(L + 5) - (L + 4)] /\ abc[L + 6] = Eor[(L + 6) - (L + 4)]
      BY <1>8, <3>1
    <3>3. QED
      BY <2>1, <3>2
  <2>3. QED
    BY <1>5, <1>6, <1>9, <2>2
<1>13. ASSUME NEW i \in 1 .. Len(new), i > L + 6 PROVE new[i].of = NoRequest /\ ~IsEor(new[i])
  <2> HIDE DEF ab, abc, new, page
  <2>1. i - (L + 6) \in 1 .. Len(rest) /\ new[i] = rest[i - (L + 6)]
    BY <1>5, <1>6, <1>9, <1>13
  <2>2. QED
    BY <1>5, <2>1 DEF Silent
<1> HIDE DEF page, new
<1>14. Closing(new, r, L + 6)
  <2>1. ASSUME NEW i \in 1 .. Len(new), i < L + 6
        PROVE  new[i].of \in {r, NoRequest} /\ ~IsEor(new[i])
    <3>1. CASE i <= L
      <4>1. i \in 1 .. L
        BY <1>6, <3>1
      <4>2. QED
        BY <1>1, <1>10, <4>1 DEF Silent
    <3>2. CASE i > L /\ i # L + 5
      <4>1. i \in (L + 1) .. (L + 4)
        BY <1>6, <2>1, <3>2
      <4>2. QED
        BY <1>3, <1>11, <4>1
    <3>3. CASE i = L + 5
      BY <1>4, <1>12, <3>3
    <3>4. QED
      BY <1>6, <3>1, <3>2, <3>3
  <2>2. QED
    BY <1>4, <1>12, <1>13, <2>1 DEF Closing
<1>15. Mentions(new, r)
  <2>1. L + 1 \in (L + 1) .. (L + 4) /\ L + 1 \in 1 .. Len(new)
    BY <1>5, <1>6, <1>9
  <2>2. QED
    BY <1>3, <1>11, <2>1 DEF Mentions
<1>16. Saying(text, r)
  BY <1>1 DEF Silent, Saying
<1>17. AtWork(r, <<>>, new, text)
  BY <1>12, <1>14, <1>15, <1>16 DEF AtWork
<1>18. Told(new, r)
  <2>1. L \in 0 .. (Len(new) - 5) /\ ~IsEor(new[L + 5])
    BY <1>4, <1>5, <1>6, <1>9, <1>12
  <2>2. ASSUME NEW i \in 1 .. 4 PROVE new[L + i] = Page(r)[i]
    <3>1. L + i \in (L + 1) .. (L + 4) /\ (L + i) - L = i
      BY <1>6
    <3>2. new[L + i] = page[i]
      BY <1>11, <3>1
    <3>3. QED
      BY <3>2 DEF page
  <2>3. ASSUME NEW j \in 1 .. Len(new), new[j].of = r PROVE j \in (L + 1) .. (L + 4)
    <3>1. ~(j <= L)
      <4>1. SUFFICES ASSUME j <= L PROVE FALSE
        OBVIOUS
      <4>2. j \in 1 .. L
        BY <1>6, <4>1
      <4>3. new[j].of = NoRequest
        BY <1>1, <1>10, <4>2 DEF Silent
      <4>4. QED
        BY <2>3, <4>3, RequestsAssumption
    <3>2. j # L + 5 /\ j # L + 6
      BY <1>4, <1>12, <2>3, RequestsAssumption
    <3>3. ~(j > L + 6)
      BY <1>13, <2>3, RequestsAssumption
    <3>4. QED
      BY <1>6, <3>1, <3>2, <3>3
  <2> HIDE DEF L
  <2>4. QED
    BY <2>1, <2>2, <2>3 DEF Told
<1>19. QED
  BY <1>2, <1>9, <1>17, <1>18 DEF new, page

-----------------------------------------------------------------------------
(* The inductive invariant.                                                *)

Typed ==
    /\ free \subseteq Conns
    /\ response \in [Conns -> Requests \cup {NoRequest}]
    /\ queue \in Seq(Requests)
    /\ stdin \in [Conns -> Seq(Requests)]
    /\ stdout \in [Conns -> Seq(Texts)]
    /\ content \in [Conns -> Seq(Texts)]
    /\ state \in [Requests -> {"idle", "open", "ended"}]

Working == Conns \ free

(* A free connection has done with the request it had.                     *)
FreeRest ==
    \A c \in free :
        /\ AtRest(stdin[c], stdout[c], content[c])
        /\ response[c] \in Requests => state[response[c]] = "ended"

OthersWork ==
    \A c \in Working :
        /\ response[c] \in Requests
        /\ Open(response[c])
        /\ AtWork(response[c], stdin[c], stdout[c], content[c])

(* A request is at one connection, or at one place in the queue.           *)
OnePlace ==
    /\ \A c, d \in Working : response[c] = response[d] => c = d
    /\ \A i \in 1 .. Len(queue) :
          Open(queue[i]) /\ \A c \in Working : response[c] # queue[i]
    /\ \A i, j \in 1 .. Len(queue) : queue[i] = queue[j] => i = j

Serves == FreeRest /\ OthersWork /\ OnePlace /\ (queue = <<>> \/ free = {})

GotOwn ==
    /\ got \in [Requests -> Seq(Texts)]
    /\ \A r \in Requests : \A i \in 1 .. Len(got[r]) : got[r][i].of \in {r, NoRequest}

IInv == Typed /\ (gateway = "ewdGateway" => Serves /\ GotOwn)

(* What processQueue makes of a queue and a set of free connections, when  *)
(* the connections that are free are at rest, the others at work, and no   *)
(* request is in two places.                                               *)
Before(q, conns) ==
    /\ \A c \in conns :
          /\ AtRest(stdin[c], stdout'[c], content'[c])
          /\ response[c] \in Requests => state'[response[c]] = "ended"
    /\ \A c \in Conns \ conns :
          /\ response[c] \in Requests
          /\ state'[response[c]] = "open"
          /\ AtWork(response[c], stdin[c], stdout'[c], content'[c])
    /\ \A c, d \in Conns \ conns : response[c] = response[d] => c = d
    /\ \A i \in 1 .. Len(q) :
          state'[q[i]] = "open" /\ \A c \in Conns \ conns : response[c] # q[i]
    /\ \A i, j \in 1 .. Len(q) : q[i] = q[j] => i = j

(* What processQueue does to the queue and to each connection.             *)
Deal(q, conns, n, takers) ==
    /\ free' = conns \ takers /\ takers \subseteq conns
    /\ queue' \in Seq(Requests) /\ Len(queue') = Len(q) - n
    /\ n \in Nat /\ n <= Len(q)
    /\ \A i \in 1 .. Len(queue') : n + i \in 1 .. Len(q) /\ queue'[i] = q[n + i]
    /\ response' \in [Conns -> Requests \cup {NoRequest}]
    /\ stdin' \in [Conns -> Seq(Requests)]
    /\ \A c \in takers :
          /\ Rank(c, conns) \in 1 .. n
          /\ response'[c] = q[Rank(c, conns)]
          /\ stdin'[c] = Append(stdin[c], q[Rank(c, conns)])
    /\ \A c \in Conns \ takers : response'[c] = response[c] /\ stdin'[c] = stdin[c]
    /\ queue' = <<>> \/ free' = {}

LEMMA Deals ==
    ASSUME NEW conns \in SUBSET Conns, NEW q \in Seq(Requests),
           Typed, ProcessQueue(q, conns)
    PROVE  Deal(q, conns, Dealt(q, conns), Takers(q, conns))
<1> DEFINE n == Dealt(q, conns)
           takers == Takers(q, conns)
<1>1. /\ n \in Nat /\ takers \subseteq conns /\ Cardinality(takers) = n
      /\ \A c \in takers : Rank(c, conns) \in 1 .. n
      /\ n = Len(q) \/ conns \ takers = {}
  BY TakersDealt
<1>2. Len(q) \in Nat /\ \A i \in 1 .. Len(q) : q[i] \in Requests
  BY LenProperties, ElementOfSeq
<1>3. n <= Len(q)
  BY <1>2, ConnsFinite DEF Dealt
<1>4. /\ free' = conns \ takers
      /\ queue' = SubSeq(q, n + 1, Len(q))
      /\ response' = [c \in Conns |-> IF c \in takers THEN q[Rank(c, conns)] ELSE response[c]]
      /\ stdin' = [c \in Conns |-> IF c \in takers THEN Append(stdin[c], q[Rank(c, conns)])
                                   ELSE stdin[c]]
  BY <1>1 DEF ProcessQueue
<1> HIDE DEF n, takers
<1>5. /\ queue' \in Seq(Requests) /\ Len(queue') = Len(q) - n
      /\ \A i \in 1 .. Len(queue') : n + i \in 1 .. Len(q) /\ queue'[i] = q[n + i]
  <2>1. n + 1 \in Int /\ Len(q) \in Int /\ \A i \in (n + 1) .. Len(q) : q[i] \in Requests
    BY <1>1, <1>2
  <2>2. /\ queue' \in Seq(Requests)
        /\ Len(queue') = IF n + 1 <= Len(q) THEN Len(q) - (n + 1) + 1 ELSE 0
        /\ \A i \in 1 .. (Len(q) - (n + 1) + 1) : queue'[i] = q[(n + 1) + i - 1]
    BY <1>4, <2>1, SubSeqProperties
  <2>3. QED
    BY <1>1, <1>2, <1>3, <2>2
<1>6. \A c \in takers : q[Rank(c, conns)] \in Requests
  BY <1>1, <1>2, <1>3
<1>7. response' \in [Conns -> Requests \cup {NoRequest}] /\ stdin' \in [Conns -> Seq(Requests)]
  <2>1. ASSUME NEW c \in Conns
        PROVE  (IF c \in takers THEN q[Rank(c, conns)] ELSE response[c]) \in Requests \cup {NoRequest}
    BY <1>6 DEF Typed
  <2>2. ASSUME NEW c \in Conns
        PROVE  (IF c \in takers THEN Append(stdin[c], q[Rank(c, conns)]) ELSE stdin[c]) \in Seq(Requests)
    BY <1>6 DEF Typed
  <2>3. QED
    BY <1>4, <2>1, <2>2
<1>8. \A c \in takers :
         /\ response'[c] = q[Rank(c, conns)]
         /\ stdin'[c] = Append(stdin[c], q[Rank(c, conns)])
  BY <1>1, <1>4
<1>9. \A c \in Conns \ takers : response'[c] = response[c] /\ stdin'[c] = stdin[c]
  BY <1>4
<1>10. queue' = <<>> \/ free' = {}
  <2>1. CASE n = Len(q)
    <3>1. Len(queue') = 0
      BY <1>2, <1>5, <2>1
    <3>2. QED
      BY <1>5, <3>1, EmptySeq
  <2>2. CASE conns \ takers = {}
    BY <1>4, <2>2
  <2>3. QED
    BY <1>1, <2>1, <2>2
<1>11. QED
  <2> SUFFICES Deal(q, conns, n, takers)
    BY DEF n, takers
  <2> QED
    BY <1>1, <1>3, <1>4, <1>5, <1>7, <1>8, <1>9, <1>10 DEF Deal

LEMMA ServesOn ==
    ASSUME NEW conns \in SUBSET Conns, NEW q \in Seq(Requests),
           Typed, ProcessQueue(q, conns), Before(q, conns)
    PROVE  Serves'
<1> DEFINE n == Dealt(q, conns)
           takers == Takers(q, conns)
<1>1. Deal(q, conns, n, takers)
  BY Deals
<1>2. \A c, d \in takers : Rank(c, conns) = Rank(d, conns) => c = d
  BY TakersDealt
<1>3. Len(q) \in Nat /\ Len(queue') \in Nat
  BY <1>1, LenProperties DEF Deal
<1>4. \A c \in takers : Rank(c, conns) \in 1 .. Len(q) /\ q[Rank(c, conns)] \in Requests
  <2>1. \A c \in takers : Rank(c, conns) \in 1 .. Len(q)
    BY <1>1, <1>3 DEF Deal
  <2>2. QED
    BY <2>1, ElementOfSeq
<1> HIDE DEF n, takers
<1> USE DEF Deal
<1>5. Working' = (Conns \ conns) \cup takers
  BY <1>1 DEF Working
<1>6. FreeRest'
  <2>1. ASSUME NEW c \in free'
        PROVE  /\ AtRest(stdin'[c], stdout'[c], content'[c])
               /\ response'[c] \in Requests => state'[response'[c]] = "ended"
    <3>1. c \in conns /\ c \in Conns \ takers
      BY <1>1
    <3>2. response'[c] = response[c] /\ stdin'[c] = stdin[c]
      BY <1>1, <3>1
    <3>3. QED
      BY <3>1, <3>2 DEF Before
  <2>2. QED
    BY <2>1 DEF FreeRest
<1>7. OthersWork'
  <2>1. ASSUME NEW c \in Conns \ conns
        PROVE  /\ response'[c] \in Requests /\ state'[response'[c]] = "open"
               /\ AtWork(response'[c], stdin'[c], stdout'[c], content'[c])
    <3>1. response'[c] = response[c] /\ stdin'[c] = stdin[c]
      BY <1>1
    <3>2. QED
      BY <3>1 DEF Before
  <2>2. ASSUME NEW c \in takers
        PROVE  /\ response'[c] \in Requests /\ state'[response'[c]] = "open"
               /\ AtWork(response'[c], stdin'[c], stdout'[c], content'[c])
    <3>1. AtRest(stdin[c], stdout'[c], content'[c])
      BY <1>1 DEF Before
    <3>2. stdin[c] = <<>> /\ Silent(stdout'[c]) /\ Silent(content'[c])
      BY <3>1 DEF AtRest
    <3>3. stdin'[c] = <<q[Rank(c, conns)]>>
      BY <1>1, <3>2
    <3>4. state'[q[Rank(c, conns)]] = "open"
      BY <1>4 DEF Before
    <3>5. AtWork(q[Rank(c, conns)], stdin'[c], stdout'[c], content'[c])
      BY <3>2, <3>3 DEF AtWork
    <3>6. QED
      BY <1>1, <1>4, <3>4, <3>5
  <2>3. \A c \in Working' :
          /\ response'[c] \in Requests /\ state'[response'[c]] = "open"
          /\ AtWork(response'[c], stdin'[c], stdout'[c], content'[c])
    BY <1>5, <2>1, <2>2
  <2>4. QED
    BY <2>3 DEF OthersWork, Open
<1>8. OnePlace'
  <2>1. ASSUME NEW c \in Working', NEW d \in Working', response'[c] = response'[d]
        PROVE  c = d
    <3>1. CASE c \in takers /\ d \in takers
      <4>1. q[Rank(c, conns)] = q[Rank(d, conns)]
        BY <1>1, <2>1, <3>1
      <4>2. Rank(c, conns) = Rank(d, conns)
        BY <1>4, <3>1, <4>1 DEF Before
      <4>3. QED
        BY <1>2, <3>1, <4>2
    <3>2. CASE c \in Conns \ conns /\ d \in Conns \ conns
      <4>1. response[c] = response[d]
        BY <1>1, <2>1, <3>2
      <4>2. QED
        BY <3>2, <4>1 DEF Before
    <3>3. CASE c \in takers /\ d \in Conns \ conns
      <4>1. response[d] = q[Rank(c, conns)]
        BY <1>1, <2>1, <3>3
      <4>2. QED
        BY <1>4, <3>3, <4>1 DEF Before
    <3>4. CASE d \in takers /\ c \in Conns \ conns
      <4>1. response[c] = q[Rank(d, conns)]
        BY <1>1, <2>1, <3>4
      <4>2. QED
        BY <1>4, <3>4, <4>1 DEF Before
    <3>5. QED
      BY <1>5, <3>1, <3>2, <3>3, <3>4
  <2>2. ASSUME NEW i \in 1 .. Len(queue')
        PROVE  state'[queue'[i]] = "open" /\ \A c \in Working' : response'[c] # queue'[i]
    <3>1. n + i \in 1 .. Len(q) /\ queue'[i] = q[n + i]
      BY <1>1
    <3>2. state'[q[n + i]] = "open"
      BY <3>1 DEF Before
    <3>3. ASSUME NEW c \in takers PROVE response'[c] # q[n + i]
      <4>1. Rank(c, conns) # n + i
        BY <1>1, <1>3
      <4>2. q[Rank(c, conns)] # q[n + i]
        BY <1>4, <3>1, <4>1 DEF Before
      <4>3. QED
        BY <1>1, <4>2
    <3>4. ASSUME NEW c \in Conns \ conns PROVE response'[c] # q[n + i]
      <4>1. response[c] # q[n + i]
        BY <3>1 DEF Before
      <4>2. QED
        BY <1>1, <4>1
    <3>5. QED
      BY <1>5, <3>1, <3>2, <3>3, <3>4
  <2>3. ASSUME NEW i \in 1 .. Len(queue'), NEW j \in 1 .. Len(queue'), queue'[i] = queue'[j]
        PROVE  i = j
    <3>1. /\ n + i \in 1 .. Len(q) /\ queue'[i] = q[n + i]
          /\ n + j \in 1 .. Len(q) /\ queue'[j] = q[n + j]
      BY <1>1
    <3>2. n + i = n + j
      BY <2>3, <3>1 DEF Before
    <3>3. QED
      BY <1>1, <3>2
  <2>4. QED
    BY <2>1, <2>2, <2>3 DEF OnePlace, Open
<1>9. QED
  BY <1>1, <1>6, <1>7, <1>8 DEF Serves

-----------------------------------------------------------------------------
(* The steps of either gateway keep the types.                             *)

LEMMA TypedInit == Init => Typed
<1> SUFFICES ASSUME Init PROVE Typed
  OBVIOUS
<1>1. free \subseteq Conns
  BY DEF Init, Started, Conns
<1>2. response \in [Conns -> Requests \cup {NoRequest}] /\ state \in [Requests -> {"idle", "open", "ended"}]
  BY DEF Init
<1>3. queue \in Seq(Requests) /\ stdin \in [Conns -> Seq(Requests)]
  BY EmptySeq DEF Init
<1>4. stdout \in [Conns -> Seq(Texts)] /\ content \in [Conns -> Seq(Texts)]
  BY EmptySeq DEF Init
<1>5. QED
  BY <1>1, <1>2, <1>3, <1>4 DEF Typed

LEMMA TypedDeal ==
    ASSUME NEW conns \in SUBSET Conns, NEW q \in Seq(Requests), Typed, ProcessQueue(q, conns)
    PROVE  /\ free' \subseteq Conns /\ queue' \in Seq(Requests)
           /\ response' \in [Conns -> Requests \cup {NoRequest}]
           /\ stdin' \in [Conns -> Seq(Requests)]
<1>1. Deal(q, conns, Dealt(q, conns), Takers(q, conns))
  BY Deals
<1>2. QED
  BY <1>1 DEF Deal

LEMMA QueueGrows ==
    ASSUME Typed, NEW r \in Requests
    PROVE  /\ AddToQueue(r) \in Seq(Requests) /\ Len(AddToQueue(r)) = Len(queue) + 1
           /\ Len(queue) \in Nat
           /\ \A i \in 1 .. Len(queue) : AddToQueue(r)[i] = queue[i]
           /\ AddToQueue(r)[Len(queue) + 1] = r
  BY LenProperties DEF AddToQueue, Typed

LEMMA TypedSend == ASSUME Typed, NEW r \in Requests, SendToCachey(r) PROVE Typed'
<1>1. state' \in [Requests -> {"idle", "open", "ended"}] /\ UNCHANGED <<stdout, content>>
  BY DEF SendToCachey, Typed
<1>2. CASE UNCHANGED <<queue, free, response, stdin>>
  BY <1>1, <1>2 DEF Typed
<1>3. CASE ProcessQueue(AddToQueue(r), free)
  <2>1. free \in SUBSET Conns /\ AddToQueue(r) \in Seq(Requests)
    BY QueueGrows DEF Typed
  <2>2. QED
    BY <1>1, <1>3, <2>1, TypedDeal DEF Typed
<1>4. QED
  BY <1>2, <1>3 DEF SendToCachey

LEMMA TypedTimer == ASSUME Typed, Timer PROVE Typed'
<1>1. free \in SUBSET Conns /\ queue \in Seq(Requests) /\ ProcessQueue(queue, free)
      /\ UNCHANGED <<stdout, content, state>>
  BY DEF Typed, Timer
<1>2. QED
  BY <1>1, TypedDeal DEF Typed

LEMMA TypedSendToGTM == ASSUME Typed, NEW r \in Requests, SendToGTM(r) PROVE Typed'
<1>1. PICK c \in Conns : /\ response' = [response EXCEPT ![c] = r]
                         /\ stdin' = [stdin EXCEPT ![c] = Append(@, r)]
  BY DEF SendToGTM
<1>2. response' \in [Conns -> Requests \cup {NoRequest}] /\ stdin' \in [Conns -> Seq(Requests)]
  BY <1>1 DEF Typed
<1>3. state' \in [Requests -> {"idle", "open", "ended"}]
  BY DEF SendToGTM, Typed
<1>4. UNCHANGED <<free, queue, stdout, content>>
  BY DEF SendToGTM
<1>5. QED
  BY <1>2, <1>3, <1>4 DEF Typed

LEMMA TypedData == ASSUME Typed, NEW c \in Conns, Data(c) PROVE Typed'
<1>1. PICK n \in 1 .. Len(stdout[c]) :
         /\ stdout' = [stdout EXCEPT ![c] = SubSeq(@, n + 1, Len(@))]
         /\ \/ CacheyData(c, SubSeq(stdout[c], 1, n))
            \/ GTMData(c, SubSeq(stdout[c], 1, n))
  BY DEF Data
<1> DEFINE out == stdout[c]
           text == content[c]
           both == text \o SubSeq(out, 1, n)
<1>2. out \in Seq(Texts) /\ text \in Seq(Texts)
  BY DEF Typed
<1>3. SubSeq(out, n + 1, Len(out)) \in Seq(Texts) /\ both \in Seq(Texts)
  BY <1>2, Chunked
<1>4. stdout' \in [Conns -> Seq(Texts)]
  BY <1>1, <1>3 DEF Typed
<1>5. CASE GTMData(c, SubSeq(stdout[c], 1, n))
  <2>1. state' \in [Requests -> {"idle", "open", "ended"}]
    BY <1>5 DEF GTMData, Typed
  <2>2. UNCHANGED <<queue, free, response, stdin, content>>
    BY <1>5 DEF GTMData
  <2>3. QED
    BY <1>4, <2>1, <2>2 DEF Typed
<1>6. CASE CacheyData(c, SubSeq(stdout[c], 1, n))
  <2>1. CASE content' = [content EXCEPT ![c] = both]
             /\ UNCHANGED <<queue, free, response, stdin, state>>
    <3>1. content' \in [Conns -> Seq(Texts)]
      BY <1>3, <2>1 DEF Typed
    <3>2. QED
      BY <1>4, <2>1, <3>1 DEF Typed
  <2>2. CASE /\ content' = [content EXCEPT ![c] = <<>>]
             /\ state' = [state EXCEPT ![response[c]] = "ended"]
             /\ ProcessQueue(queue, free \cup {c})
    <3>1. content' \in [Conns -> Seq(Texts)]
      BY <2>2, EmptySeq DEF Typed
    <3>2. state' \in [Requests -> {"idle", "open", "ended"}]
      BY <2>2 DEF Typed
    <3>3. free \cup {c} \in SUBSET Conns /\ queue \in Seq(Requests)
      BY DEF Typed
    <3>4. QED
      BY <1>4, <2>2, <3>1, <3>2, <3>3, TypedDeal DEF Typed
  <2>3. QED
    BY <1>6, <2>1, <2>2 DEF CacheyData, Collected
<1>7. QED
  BY <1>1, <1>5, <1>6

LEMMA TypedListener == ASSUME Typed, NEW c \in Conns, Listener(c) PROVE Typed'
<1>1. stdin[c] \in Seq(Requests) /\ stdin[c] # <<>> /\ stdout[c] \in Seq(Texts)
      /\ stdin' = [stdin EXCEPT ![c] = Tail(@)]
  BY DEF Listener, Typed
<1>2. PICK rest \in {<<>>, <<Refresh>>} :
         stdout' = [stdout EXCEPT ![c] = @ \o Page(Head(stdin[c])) \o Eor \o rest]
  BY DEF Listener
<1>3. Head(stdin[c]) \in Requests /\ Tail(stdin[c]) \in Seq(Requests)
  BY <1>1, HeadTailProperties
<1>4. stdin' \in [Conns -> Seq(Requests)]
  BY <1>1, <1>3 DEF Typed
<1>5. /\ Page(Head(stdin[c])) \in Seq(Texts) /\ Eor \in Seq(Texts) /\ rest \in Seq(Texts)
  <2>1. Refresh \in Texts
    BY DEF Refresh, Text, Texts, PartNames
  <2>2. Page(Head(stdin[c])) \in Seq(Texts)
    BY <1>3 DEF Page, Text, Texts, PartNames
  <2>3. Eor \in Seq(Texts)
    BY DEF Eor, Text, Texts, PartNames
  <2>4. <<Refresh>> \in Seq(Texts) /\ <<>> \in Seq(Texts)
    BY <2>1
  <2>5. QED
    BY <2>2, <2>3, <2>4
<1>6. stdout[c] \o Page(Head(stdin[c])) \o Eor \o rest \in Seq(Texts)
  BY <1>1, <1>5, ConcatProperties
<1>7. stdout' \in [Conns -> Seq(Texts)]
  BY <1>2, <1>6 DEF Typed
<1>8. UNCHANGED <<queue, free, response, content, state>>
  BY DEF Listener
<1>9. QED
  BY <1>4, <1>7, <1>8 DEF Typed

LEMMA TypedNext == Typed /\ [Next]_vars => Typed'
<1> SUFFICES ASSUME Typed, [Next]_vars PROVE Typed'
  OBVIOUS
<1>1. CASE MethodsAnswer
  BY <1>1 DEF MethodsAnswer, Typed
<1>2. CASE UNCHANGED vars
  BY <1>2 DEF vars, Typed
<1>3. QED
  BY <1>1, <1>2, TypedSend, TypedSendToGTM, TypedData, TypedListener, TypedTimer DEF Next

(* The type invariant: pipes, queue and connections hold requests only.    *)
THEOREM TypeCorrect == Spec => []TypeOK
<1>1. Typed => TypeOK
  BY DEF Typed, TypeOK
<1>2. QED
  BY <1>1, TypedInit, TypedNext, PTL DEF Spec

-----------------------------------------------------------------------------
(* The steps of ewdGateway.js and its M processes keep Serves.             *)

LEMMA ServesInit == Init => Serves /\ GotOwn
<1> SUFFICES ASSUME Init PROVE Serves /\ GotOwn
  OBVIOUS
<1>1. free = Conns /\ Working = {} /\ queue = <<>> /\ Len(queue) = 0
  BY EmptySeq DEF Init, Started, Conns, Working
<1>2. FreeRest
  <2>1. ASSUME NEW c \in free
        PROVE  /\ AtRest(stdin[c], stdout[c], content[c])
               /\ response[c] \in Requests => state[response[c]] = "ended"
    <3>1. stdin[c] = <<>> /\ stdout[c] = <<>> /\ content[c] = <<>> /\ response[c] = NoRequest
      BY <1>1 DEF Init
    <3>2. Silent(<<>>)
      BY EmptySeq DEF Silent
    <3>3. QED
      BY <3>1, <3>2, RequestsAssumption DEF AtRest
  <2>2. QED
    BY <2>1 DEF FreeRest
<1>3. OthersWork /\ OnePlace
  BY <1>1 DEF OthersWork, OnePlace
<1>4. GotOwn
  <2>1. got = [r \in Requests |-> <<>>]
    BY DEF Init
  <2>2. QED
    BY <2>1, EmptySeq DEF GotOwn
<1>5. QED
  BY <1>1, <1>2, <1>3, <1>4 DEF Serves

LEMMA SendBefore ==
    ASSUME Typed, Serves, NEW r \in Requests, SendToCachey(r)
    PROVE  Before(AddToQueue(r), free)
<1>1. /\ state[r] = "idle" /\ UNCHANGED <<stdout, content>>
      /\ state' = [state EXCEPT ![r] = "open"]
  BY DEF SendToCachey
<1>2. \A s \in Requests : s # r => state'[s] = state[s]
  BY <1>1 DEF Typed
<1>3. state'[r] = "open"
  BY <1>1 DEF Typed
<1>4. \A c \in free : response[c] \in Requests => state'[response[c]] = "ended"
  BY <1>1, <1>2 DEF Serves, FreeRest
<1>5. \A c \in Working : response[c] # r /\ state'[response[c]] = "open"
  BY <1>1, <1>2 DEF Serves, OthersWork, Open
<1>6. Len(queue) \in Nat /\ \A i \in 1 .. Len(queue) : queue[i] \in Requests
  BY LenProperties, ElementOfSeq DEF Typed
<1>7. \A i \in 1 .. Len(queue) : queue[i] # r /\ state'[queue[i]] = "open"
  BY <1>1, <1>2, <1>6 DEF Serves, OnePlace, Open
<1> DEFINE q == AddToQueue(r)
<1>8. /\ q \in Seq(Requests) /\ Len(q) = Len(queue) + 1
      /\ \A i \in 1 .. Len(queue) : q[i] = queue[i]
      /\ q[Len(queue) + 1] = r
  BY QueueGrows
<1> HIDE DEF q
<1>9. ASSUME NEW i \in 1 .. Len(q)
      PROVE  (i \in 1 .. Len(queue) /\ q[i] = queue[i]) \/ (i = Len(queue) + 1 /\ q[i] = r)
  BY <1>6, <1>8
<1>10. \A c \in free :
        /\ AtRest(stdin[c], stdout'[c], content'[c])
        /\ response[c] \in Requests => state'[response[c]] = "ended"
  BY <1>1, <1>4 DEF Serves, FreeRest
<1>11. \A c \in Conns \ free :
        /\ response[c] \in Requests
        /\ state'[response[c]] = "open"
        /\ AtWork(response[c], stdin[c], stdout'[c], content'[c])
  BY <1>1, <1>5 DEF Serves, OthersWork, Working
<1>12. \A i \in 1 .. Len(q) :
        state'[q[i]] = "open" /\ \A c \in Conns \ free : response[c] # q[i]
  <2> TAKE i \in 1 .. Len(q)
  <2>1. CASE i \in 1 .. Len(queue) /\ q[i] = queue[i]
    BY <1>7, <2>1 DEF Serves, OnePlace, Working
  <2>2. CASE i = Len(queue) + 1 /\ q[i] = r
    BY <1>3, <1>5, <2>2 DEF Working
  <2>3. QED
    BY <1>9, <2>1, <2>2
<1>13. \A i, j \in 1 .. Len(q) : q[i] = q[j] => i = j
  <2> TAKE i, j \in 1 .. Len(q)
  <2>1. (i \in 1 .. Len(queue) /\ q[i] = queue[i]) \/ (i = Len(queue) + 1 /\ q[i] = r)
    BY <1>9
  <2>2. (j \in 1 .. Len(queue) /\ q[j] = queue[j]) \/ (j = Len(queue) + 1 /\ q[j] = r)
    BY <1>9
  <2>3. QED
    BY <1>7, <2>1, <2>2 DEF Serves, OnePlace
<1>14. Before(q, free)
  BY <1>10, <1>11, <1>12, <1>13 DEF Before, Serves, OnePlace, Working
<1>15. QED
  BY <1>14 DEF q

LEMMA SendServes == ASSUME Typed, Serves, NEW r \in Requests, SendToCachey(r) PROVE Serves'
<1>1. /\ state[r] = "idle" /\ UNCHANGED <<stdout, content>>
      /\ state' = [state EXCEPT ![r] = "open"]
  BY DEF SendToCachey
<1>2. \A s \in Requests : s # r => state'[s] = state[s]
  BY <1>1 DEF Typed
<1>3. state'[r] = "open"
  BY <1>1 DEF Typed
<1>4. \A c \in free : response[c] \in Requests => state'[response[c]] = "ended"
  BY <1>1, <1>2 DEF Serves, FreeRest
<1>5. \A c \in Working : response[c] # r /\ state'[response[c]] = "open"
  BY <1>1, <1>2 DEF Serves, OthersWork, Open
<1>6. Len(queue) \in Nat /\ \A i \in 1 .. Len(queue) : queue[i] \in Requests
  BY LenProperties, ElementOfSeq DEF Typed
<1>7. \A i \in 1 .. Len(queue) : queue[i] # r /\ state'[queue[i]] = "open"
  BY <1>1, <1>2, <1>6 DEF Serves, OnePlace, Open
<1>8. CASE UNCHANGED <<queue, free, response, stdin>>
  <2>1. FreeRest'
    BY <1>1, <1>4, <1>8 DEF Serves, FreeRest
  <2>2. OthersWork'
    BY <1>1, <1>5, <1>8 DEF Serves, OthersWork, Open, Working
  <2>3. OnePlace'
    BY <1>1, <1>7, <1>8 DEF Serves, OnePlace, Open, Working
  <2>4. QED
    BY <1>8, <2>1, <2>2, <2>3 DEF Serves
<1>9. CASE ProcessQueue(AddToQueue(r), free)
  <2>1. free \in SUBSET Conns /\ AddToQueue(r) \in Seq(Requests)
    BY QueueGrows DEF Typed
  <2>2. QED
    BY <1>9, <2>1, SendBefore, ServesOn
<1>10. QED
  BY <1>8, <1>9 DEF SendToCachey

LEMMA TimerServes == ASSUME Typed, Serves, Timer PROVE Serves'
<1>1. /\ free \in SUBSET Conns /\ queue \in Seq(Requests) /\ ProcessQueue(queue, free)
      /\ UNCHANGED <<stdout, content, state>>
  BY DEF Typed, Timer
<1>2. Before(queue, free)
  BY <1>1 DEF Before, Serves, FreeRest, OthersWork, OnePlace, Open, Working
<1>3. QED
  BY <1>1, <1>2, ServesOn

LEMMA ListenerServes == ASSUME Typed, Serves, NEW c \in Conns, Listener(c) PROVE Serves'
<1> DEFINE r == response[c]
<1>1. /\ stdin[c] # <<>> /\ stdin' = [stdin EXCEPT ![c] = Tail(@)]
      /\ UNCHANGED <<queue, free, response, content, state>>
  BY DEF Listener
<1>2. c \in Working
  BY <1>1 DEF Serves, FreeRest, AtRest, Working
<1>3. r \in Requests /\ AtWork(r, stdin[c], stdout[c], content[c])
  BY <1>2 DEF Serves, OthersWork
<1>4. PICK rest \in {<<>>, <<Refresh>>} :
         stdout' = [stdout EXCEPT ![c] = @ \o Page(Head(stdin[c])) \o Eor \o rest]
  BY DEF Listener
<1>5. stdin'[c] = Tail(stdin[c])
      /\ stdout'[c] = stdout[c] \o Page(Head(stdin[c])) \o Eor \o rest
  BY <1>1, <1>4 DEF Typed
<1>6. stdin[c] \in Seq(Requests) /\ stdout[c] \in Seq(Texts) /\ content[c] \in Seq(Texts)
  BY DEF Typed
<1>7. AtWork(r, stdin'[c], stdout'[c], content'[c])
  <2> DEFINE new == stdout[c] \o Page(Head(stdin[c])) \o Eor \o rest
  <2>1. AtWork(r, Tail(stdin[c]), new, content[c])
    BY <1>1, <1>3, <1>6, ListenerAnswers
  <2> HIDE DEF new
  <2>2. stdout'[c] = new
    BY <1>5 DEF new
  <2>3. QED
    BY <1>1, <1>5, <2>1, <2>2
<1>8. \A d \in Conns : d # c => stdin'[d] = stdin[d] /\ stdout'[d] = stdout[d]
  BY <1>1, <1>4 DEF Typed
<1>9. FreeRest'
  <2>1. \A d \in free' : d # c /\ d \in Conns
    BY <1>1, <1>2 DEF Typed, Working
  <2>2. QED
    BY <1>1, <1>8, <2>1 DEF Serves, FreeRest
<1>10. OthersWork'
  <2>1. ASSUME NEW d \in Working'
        PROVE  /\ response'[d] \in Requests /\ state'[response'[d]] = "open"
               /\ AtWork(response'[d], stdin'[d], stdout'[d], content'[d])
    <3>1. /\ d \in Working /\ d \in Conns /\ response'[d] = response[d] /\ content'[d] = content[d]
          /\ response[d] \in Requests /\ state'[response[d]] = "open"
          /\ AtWork(response[d], stdin[d], stdout[d], content[d])
      BY <1>1 DEF Serves, OthersWork, Working, Open
    <3>2. CASE d = c
      BY <1>7, <3>1, <3>2
    <3>3. CASE d # c
      BY <1>8, <3>1, <3>3
    <3>4. QED
      BY <3>2, <3>3
  <2>2. QED
    BY <2>1 DEF OthersWork, Open
<1>11. OnePlace'
  BY <1>1 DEF Serves, OnePlace, Open, Working
<1>12. QED
  BY <1>1, <1>9, <1>10, <1>11 DEF Serves

(* A chunk is collected, or it ends the answer and the connection is free  *)
(* when processQueue looks at the queue.                                   *)
Collects(c, out, n, both) ==
    /\ \A i \in DOMAIN both : ~IsEor(both[i])
    /\ content' = [content EXCEPT ![c] = both]
    /\ UNCHANGED <<queue, free, response, stdin, got, state>>

Completes(c, out, n, both) ==
    /\ \E i \in DOMAIN both : IsEor(both[i])
    /\ content' = [content EXCEPT ![c] = <<>>]
    /\ got' = [got EXCEPT ![response[c]] = SubSeq(both, 1, FirstEor(both) - 2)]
    /\ state' = [state EXCEPT ![response[c]] = "ended"]
    /\ ProcessQueue(queue, free \cup {c})

LEMMA DataSplits ==
    ASSUME gateway = "ewdGateway", NEW c \in Conns, Data(c)
    PROVE  \E n \in 1 .. Len(stdout[c]) :
              LET both == content[c] \o SubSeq(stdout[c], 1, n)
              IN  /\ stdout' = [stdout EXCEPT ![c] = SubSeq(@, n + 1, Len(@))]
                  /\ Collects(c, stdout[c], n, both) \/ Completes(c, stdout[c], n, both)
<1>1. PICK n \in 1 .. Len(stdout[c]) :
         /\ stdout' = [stdout EXCEPT ![c] = SubSeq(@, n + 1, Len(@))]
         /\ \/ CacheyData(c, SubSeq(stdout[c], 1, n))
            \/ GTMData(c, SubSeq(stdout[c], 1, n))
  BY DEF Data
<1>2. CacheyData(c, SubSeq(stdout[c], 1, n))
  BY <1>1 DEF GTMData, Runs
<1> DEFINE both == content[c] \o SubSeq(stdout[c], 1, n)
<1>3. Collects(c, stdout[c], n, both) \/ Completes(c, stdout[c], n, both)
  BY <1>2 DEF CacheyData, Collected, Collects, Completes
<1>4. QED
  BY <1>1, <1>3

LEMMA CollectServes ==
    ASSUME Typed, Serves, NEW c \in Conns, NEW n \in 1 .. Len(stdout[c]),
           stdout' = [stdout EXCEPT ![c] = SubSeq(@, n + 1, Len(@))],
           Collects(c, stdout[c], n, content[c] \o SubSeq(stdout[c], 1, n))
    PROVE  Serves'
<1> DEFINE rest == SubSeq(stdout[c], n + 1, Len(stdout[c]))
           both == content[c] \o SubSeq(stdout[c], 1, n)
<1>1. /\ \A i \in DOMAIN both : ~IsEor(both[i])
      /\ content' = [content EXCEPT ![c] = both]
      /\ UNCHANGED <<queue, free, response, stdin, state>>
  BY DEF Collects
<1>2. stdout[c] \in Seq(Texts) /\ content[c] \in Seq(Texts)
  BY DEF Typed
<1>3. stdout'[c] = rest /\ content'[c] = both
  BY <1>1 DEF Typed
<1>4. \A d \in Conns : d # c => stdout'[d] = stdout[d] /\ content'[d] = content[d]
  BY <1>1 DEF Typed
<1>5. AtRest(stdin[c], stdout[c], content[c]) => AtRest(stdin[c], rest, both)
  BY <1>2, ChunkCollected
<1>6. AtWork(response[c], stdin[c], stdout[c], content[c]) => AtWork(response[c], stdin[c], rest, both)
  BY <1>1, <1>2, ChunkCollected
<1> HIDE DEF rest, both
<1>7. FreeRest'
  <2>1. ASSUME NEW d \in free'
        PROVE  /\ AtRest(stdin'[d], stdout'[d], content'[d])
               /\ response'[d] \in Requests => state'[response'[d]] = "ended"
    <3>1. /\ d \in Conns /\ stdin'[d] = stdin[d] /\ AtRest(stdin[d], stdout[d], content[d])
          /\ response'[d] \in Requests => state'[response'[d]] = "ended"
      BY <1>1 DEF Serves, FreeRest, Typed
    <3>2. CASE d = c
      BY <1>3, <1>5, <3>1, <3>2
    <3>3. CASE d # c
      BY <1>4, <3>1, <3>3
    <3>4. QED
      BY <3>1, <3>2, <3>3
  <2>2. QED
    BY <2>1 DEF FreeRest
<1>8. OthersWork'
  <2>1. ASSUME NEW d \in Working'
        PROVE  /\ response'[d] \in Requests /\ state'[response'[d]] = "open"
               /\ AtWork(response'[d], stdin'[d], stdout'[d], content'[d])
    <3>1. /\ d \in Conns /\ response'[d] = response[d] /\ stdin'[d] = stdin[d]
          /\ response[d] \in Requests /\ state'[response[d]] = "open"
          /\ AtWork(response[d], stdin[d], stdout[d], content[d])
      BY <1>1 DEF Serves, OthersWork, Working, Open
    <3>2. CASE d = c
      BY <1>3, <1>6, <3>1, <3>2
    <3>3. CASE d # c
      BY <1>4, <3>1, <3>3
    <3>4. QED
      BY <3>2, <3>3
  <2>2. QED
    BY <2>1 DEF OthersWork, Open
<1>9. OnePlace'
  BY <1>1 DEF Serves, OnePlace, Open, Working
<1>10. QED
  BY <1>1, <1>7, <1>8, <1>9 DEF Serves

(* The terminator comes to a connection at work, and to processQueue that  *)
(* connection is a free one at rest.                                       *)
LEMMA CompleteDeals ==
    ASSUME Typed, Serves, NEW c \in Conns, NEW n \in 1 .. Len(stdout[c]),
           stdout' = [stdout EXCEPT ![c] = SubSeq(@, n + 1, Len(@))],
           Completes(c, stdout[c], n, content[c] \o SubSeq(stdout[c], 1, n))
    PROVE  /\ c \in Working /\ response[c] \in Requests /\ Open(response[c])
           /\ Before(queue, free \cup {c})
           /\ LET page == got'[response[c]]
              IN  got \in [Requests -> Seq(Texts)] =>
                     /\ page \in Seq(Texts)
                     /\ \A i \in 1 .. Len(page) : page[i].of \in {response[c], NoRequest}
<1> DEFINE rest == SubSeq(stdout[c], n + 1, Len(stdout[c]))
           both == content[c] \o SubSeq(stdout[c], 1, n)
           page == SubSeq(both, 1, FirstEor(both) - 2)
           r == response[c]
<1>1. /\ \E i \in DOMAIN both : IsEor(both[i])
      /\ content' = [content EXCEPT ![c] = <<>>]
      /\ got' = [got EXCEPT ![r] = page]
      /\ state' = [state EXCEPT ![r] = "ended"]
  BY DEF Completes
<1>2. stdout[c] \in Seq(Texts) /\ content[c] \in Seq(Texts)
  BY DEF Typed
<1>3. stdout'[c] = rest /\ content'[c] = <<>>
  BY <1>1 DEF Typed
<1>4. \A d \in Conns : d # c => stdout'[d] = stdout[d] /\ content'[d] = content[d]
  BY <1>1 DEF Typed
<1>5. c \in Working
  <2>1. SUFFICES ASSUME c \in free PROVE FALSE
    BY DEF Working
  <2>2. AtRest(stdin[c], stdout[c], content[c])
    BY <2>1 DEF Serves, FreeRest
  <2>3. \A i \in DOMAIN both : ~IsEor(both[i])
    BY <1>2, <2>2, ChunkCollected
  <2>4. QED
    BY <1>1, <2>3
<1>6. r \in Requests /\ Open(r) /\ AtWork(r, stdin[c], stdout[c], content[c])
  BY <1>5 DEF Serves, OthersWork
<1>7. /\ AtRest(stdin[c], rest, <<>>)
      /\ page \in Seq(Texts)
      /\ \A i \in 1 .. Len(page) : page[i].of \in {r, NoRequest}
  BY <1>1, <1>2, <1>6, ChunkAnswers
<1> HIDE DEF rest, both, page
<1>8. \A s \in Requests : s # r => state'[s] = state[s]
  BY <1>1 DEF Typed
<1>9. state'[r] = "ended"
  BY <1>1, <1>6 DEF Typed
<1>10. \A d \in free \cup {c} :
         /\ AtRest(stdin[d], stdout'[d], content'[d])
         /\ response[d] \in Requests => state'[response[d]] = "ended"
  <2> TAKE d \in free \cup {c}
  <2>1. CASE d = c
    BY <1>3, <1>7, <1>9, <2>1
  <2>2. CASE d # c
    <3>1. d \in free /\ d \in Conns
      BY <2>2 DEF Typed
    <3>2. AtRest(stdin[d], stdout'[d], content'[d])
      BY <1>4, <2>2, <3>1 DEF Serves, FreeRest
    <3>3. response[d] \in Requests => state'[response[d]] = "ended"
      BY <1>8, <1>9, <3>1 DEF Serves, FreeRest
    <3>4. QED
      BY <3>2, <3>3
  <2>3. QED
    BY <2>1, <2>2
<1>11. \A d \in Conns \ (free \cup {c}) :
         /\ response[d] \in Requests
         /\ state'[response[d]] = "open"
         /\ AtWork(response[d], stdin[d], stdout'[d], content'[d])
  <2> TAKE d \in Conns \ (free \cup {c})
  <2>1. d \in Working /\ d # c
    BY DEF Working
  <2>2. response[d] # r
    BY <1>5, <2>1 DEF Serves, OnePlace
  <2>3. response[d] \in Requests /\ state[response[d]] = "open"
        /\ AtWork(response[d], stdin[d], stdout[d], content[d])
    BY <2>1 DEF Serves, OthersWork, Open
  <2>4. QED
    BY <1>4, <1>8, <2>1, <2>2, <2>3
<1>12. \A i \in 1 .. Len(queue) :
         state'[queue[i]] = "open" /\ \A d \in Conns \ (free \cup {c}) : response[d] # queue[i]
  <2> TAKE i \in 1 .. Len(queue)
  <2>1. queue[i] \in Requests
    BY ElementOfSeq DEF Typed
  <2>2. queue[i] # r /\ state[queue[i]] = "open"
    BY <1>5 DEF Serves, OnePlace, Open
  <2>3. QED
    BY <1>8, <2>1, <2>2 DEF Serves, OnePlace, Working
<1>13. Before(queue, free \cup {c})
  <2>1. \A d, e \in Conns \ (free \cup {c}) : response[d] = response[e] => d = e
    BY DEF Serves, OnePlace, Working
  <2>2. \A i, j \in 1 .. Len(queue) : queue[i] = queue[j] => i = j
    BY DEF Serves, OnePlace
  <2>3. QED
    BY <1>10, <1>11, <1>12, <2>1, <2>2 DEF Before
<1>14. got \in [Requests -> Seq(Texts)] => got'[r] = page
  BY <1>1, <1>6
<1>15. QED
  BY <1>5, <1>6, <1>7, <1>13, <1>14

LEMMA ServesNext == ASSUME Typed, gateway = "ewdGateway", Serves, [Next]_vars PROVE Serves'
<1>1. ASSUME NEW c \in Conns, Data(c) PROVE Serves'
  <2>1. PICK n \in 1 .. Len(stdout[c]) :
           LET both == content[c] \o SubSeq(stdout[c], 1, n)
           IN  /\ stdout' = [stdout EXCEPT ![c] = SubSeq(@, n + 1, Len(@))]
               /\ Collects(c, stdout[c], n, both) \/ Completes(c, stdout[c], n, both)
    BY <1>1, DataSplits
  <2> DEFINE both == content[c] \o SubSeq(stdout[c], 1, n)
  <2>2. CASE Collects(c, stdout[c], n, both)
    BY <2>1, <2>2, CollectServes
  <2>3. CASE Completes(c, stdout[c], n, both)
    <3>1. Before(queue, free \cup {c})
      BY <2>1, <2>3, CompleteDeals
    <3>2. free \cup {c} \in SUBSET Conns /\ queue \in Seq(Requests) /\ ProcessQueue(queue, free \cup {c})
      BY <2>3 DEF Typed, Completes
    <3>3. QED
      BY <3>1, <3>2, ServesOn
  <2>4. QED
    BY <2>1, <2>2, <2>3
<1>2. ASSUME UNCHANGED <<queue, free, response, stdin, stdout, content, state>> PROVE Serves'
  <2>1. FreeRest'
    BY <1>2 DEF Serves, FreeRest
  <2>2. OthersWork'
    BY <1>2 DEF Serves, OthersWork, Open, Working
  <2>3. OnePlace'
    BY <1>2 DEF Serves, OnePlace, Open, Working
  <2>4. QED
    BY <1>2, <2>1, <2>2, <2>3 DEF Serves
<1>3. CASE MethodsAnswer
  BY <1>2, <1>3 DEF MethodsAnswer
<1>4. CASE UNCHANGED vars
  BY <1>2, <1>4 DEF vars
<1>5. ASSUME NEW r \in Requests, SendToGTM(r) PROVE FALSE
  BY <1>5 DEF SendToGTM, Runs
<1>6. QED
  BY <1>1, <1>3, <1>4, <1>5, SendServes, TimerServes, ListenerServes DEF Next

LEMMA GotOwnNext ==
    ASSUME Typed, gateway = "ewdGateway", Serves, GotOwn, [Next]_vars PROVE GotOwn'
<1>1. ASSUME UNCHANGED got PROVE GotOwn'
  BY <1>1 DEF GotOwn
<1>2. ASSUME NEW c \in Conns, Data(c) PROVE GotOwn'
  <2>1. PICK n \in 1 .. Len(stdout[c]) :
           LET both == content[c] \o SubSeq(stdout[c], 1, n)
           IN  /\ stdout' = [stdout EXCEPT ![c] = SubSeq(@, n + 1, Len(@))]
               /\ Collects(c, stdout[c], n, both) \/ Completes(c, stdout[c], n, both)
    BY <1>2, DataSplits
  <2> DEFINE both == content[c] \o SubSeq(stdout[c], 1, n)
             r == response[c]
  <2>2. CASE Collects(c, stdout[c], n, both)
    BY <1>1, <2>2 DEF Collects
  <2>3. CASE Completes(c, stdout[c], n, both)
    <3>1. got \in [Requests -> Seq(Texts)]
      BY DEF GotOwn
    <3>2. /\ got'[r] \in Seq(Texts)
          /\ \A i \in 1 .. Len(got'[r]) : got'[r][i].of \in {r, NoRequest}
          /\ r \in Requests
      BY <2>1, <2>3, <3>1, CompleteDeals
    <3>3. got' = [got EXCEPT ![r] = SubSeq(both, 1, FirstEor(both) - 2)]
      BY <2>3 DEF Completes
    <3> DEFINE page == SubSeq(both, 1, FirstEor(both) - 2)
    <3> HIDE DEF page
    <3>4. got' = [got EXCEPT ![r] = page]
      BY <3>3 DEF page
    <3>5. got'[r] = page
      BY <3>1, <3>2, <3>4
    <3>6. got' \in [Requests -> Seq(Texts)]
      BY <3>1, <3>2, <3>4, <3>5
    <3>7. \A s \in Requests : s # r => got'[s] = got[s]
      BY <3>1, <3>4
    <3>8. QED
      BY <3>2, <3>6, <3>7 DEF GotOwn
  <2>4. QED
    BY <2>1, <2>2, <2>3
<1>3. ASSUME NEW r \in Requests, SendToGTM(r) PROVE FALSE
  BY <1>3 DEF SendToGTM, Runs
<1>4. CASE UNCHANGED vars
  BY <1>1, <1>4 DEF vars
<1>5. ASSUME NEW r \in Requests, SendToCachey(r) PROVE GotOwn'
  BY <1>1, <1>5 DEF SendToCachey
<1>6. ASSUME NEW c \in Conns, Listener(c) PROVE GotOwn'
  BY <1>1, <1>6 DEF Listener
<1>7. CASE Timer
  BY <1>1, <1>7 DEF Timer
<1>8. CASE MethodsAnswer
  BY <1>1, <1>8 DEF MethodsAnswer
<1>9. QED
  BY <1>2, <1>3, <1>4, <1>5, <1>6, <1>7, <1>8 DEF Next

(* Nothing changes which gateway runs.                                     *)
LEMMA GatewayStays == [Next]_vars => gateway' = gateway
  BY DEF Next, vars, SendToCachey, SendToGTM, Data, Listener, Timer, MethodsAnswer

THEOREM Invariance == Spec => []IInv
<1>1. Init => IInv
  BY TypedInit, ServesInit DEF IInv
<1>2. IInv /\ [Next]_vars => IInv'
  BY TypedNext, ServesNext, GotOwnNext, GatewayStays DEF IInv
<1>3. QED
  BY <1>1, <1>2, PTL DEF Spec

-----------------------------------------------------------------------------
(* What follows from the invariant.                                        *)

(* However requests, answers and the timer fall, no process idles while a  *)
(* request waits.                                                          *)
THEOREM NoneIdlesInVain == Spec => []NoIdleWhileQueued
<1>1. IInv => NoIdleWhileQueued
  BY DEF IInv, Serves, NoIdleWhileQueued
<1>2. QED
  BY <1>1, Invariance, PTL

(* Clients of ewdGateway.js get text of their own requests only.           *)
THEOREM NothingOfOthers == Spec => [](gateway = "ewdGateway" => OwnAnswer)
<1>1. IInv => (gateway = "ewdGateway" => OwnAnswer)
  <2>1. SUFFICES ASSUME GotOwn, NEW r \in Requests, NEW i \in DOMAIN got[r]
                 PROVE  got[r][i].of \in {r, NoRequest}
    BY DEF IInv, OwnAnswer
  <2>2. got[r] \in Seq(Texts)
    BY <2>1 DEF GotOwn
  <2>3. DOMAIN got[r] = 1 .. Len(got[r])
    BY <2>2, LenProperties
  <2>4. QED
    BY <2>1, <2>3 DEF GotOwn
<1>2. QED
  BY <1>1, Invariance, PTL

LEMMA TextsJoin ==
    ASSUME NEW text \in Seq(Texts), NEW out \in Seq(Texts)
    PROVE  LET texts == text \o out
           IN  /\ DOMAIN texts = 1 .. (Len(text) + Len(out))
               /\ Len(text) \in Nat /\ Len(out) \in Nat
               /\ \A i \in 1 .. Len(text) : i \in DOMAIN texts /\ texts[i] = text[i]
               /\ \A i \in 1 .. Len(out) :
                     Len(text) + i \in DOMAIN texts /\ texts[Len(text) + i] = out[i]
               /\ \A i \in DOMAIN texts :
                     \/ i \in 1 .. Len(text) /\ texts[i] = text[i]
                     \/ i - Len(text) \in 1 .. Len(out) /\ texts[i] = out[i - Len(text)]
<1> DEFINE texts == text \o out
<1>1. /\ texts \in Seq(Texts) /\ Len(texts) = Len(text) + Len(out)
      /\ \A i \in 1 .. (Len(text) + Len(out)) :
            texts[i] = IF i <= Len(text) THEN text[i] ELSE out[i - Len(text)]
  BY ConcatProperties
<1>2. Len(text) \in Nat /\ Len(out) \in Nat
  BY LenProperties
<1>3. DOMAIN texts = 1 .. (Len(text) + Len(out))
  BY <1>1, LenProperties
<1> HIDE DEF texts
<1>4. \A i \in 1 .. Len(text) : i \in DOMAIN texts /\ texts[i] = text[i]
  BY <1>1, <1>2, <1>3
<1>5. ASSUME NEW i \in 1 .. Len(out)
      PROVE  Len(text) + i \in DOMAIN texts /\ texts[Len(text) + i] = out[i]
  <2>1. /\ Len(text) + i \in 1 .. (Len(text) + Len(out)) /\ ~(Len(text) + i <= Len(text))
        /\ (Len(text) + i) - Len(text) = i
    BY <1>2
  <2>2. QED
    BY <1>1, <1>3, <2>1
<1>6. ASSUME NEW i \in DOMAIN texts
      PROVE  \/ i \in 1 .. Len(text) /\ texts[i] = text[i]
             \/ i - Len(text) \in 1 .. Len(out) /\ texts[i] = out[i - Len(text)]
  BY <1>1, <1>2, <1>3
<1>7. QED
  BY <1>2, <1>3, <1>4, <1>5, <1>6 DEF texts

(* A connection of ewdGateway.js that is not free has one request under    *)
(* way, a free one has none.                                               *)
THEOREM OneAtATime == Spec => []OneRequestPerConnection
<1>1. IInv => OneRequestPerConnection
  <2> SUFFICES ASSUME Typed, Serves, NEW c \in Conns
               PROVE  LET texts == content[c] \o stdout[c]
                          under == {texts[i].of : i \in DOMAIN texts}
                                     \cup {stdin[c][i] : i \in DOMAIN stdin[c]}
                      IN  IF c \in free THEN under \subseteq {NoRequest}
                          ELSE Open(response[c]) /\ response[c] \in under
                               /\ under \subseteq {response[c], NoRequest}
    BY DEF IInv, OneRequestPerConnection
  <2> DEFINE texts == content[c] \o stdout[c]
             said == {texts[i].of : i \in DOMAIN texts}
             asked == {stdin[c][i] : i \in DOMAIN stdin[c]}
             r == response[c]
  <2>1. content[c] \in Seq(Texts) /\ stdout[c] \in Seq(Texts)
    BY DEF Typed
  <2>2. /\ \A i \in 1 .. Len(content[c]) : i \in DOMAIN texts /\ texts[i] = content[c][i]
        /\ \A i \in 1 .. Len(stdout[c]) :
              Len(content[c]) + i \in DOMAIN texts /\ texts[Len(content[c]) + i] = stdout[c][i]
        /\ \A i \in DOMAIN texts :
              \/ i \in 1 .. Len(content[c]) /\ texts[i] = content[c][i]
              \/ /\ i - Len(content[c]) \in 1 .. Len(stdout[c])
                 /\ texts[i] = stdout[c][i - Len(content[c])]
    BY <2>1, TextsJoin
  <2> HIDE DEF texts
  <2>3. ASSUME Silent(content[c]), Silent(stdout[c]) PROVE said \subseteq {NoRequest}
    BY <2>2, <2>3 DEF Silent
  <2>4. ASSUME c \in free PROVE said \cup asked \subseteq {NoRequest}
    <3>1. stdin[c] = <<>> /\ Silent(stdout[c]) /\ Silent(content[c])
      BY <2>4 DEF Serves, FreeRest, AtRest
    <3>2. asked = {}
      BY <3>1
    <3>3. QED
      BY <2>3, <3>1, <3>2
  <2>5. ASSUME c \notin free
        PROVE  Open(r) /\ r \in said \cup asked /\ said \cup asked \subseteq {r, NoRequest}
    <3>1. Open(r) /\ AtWork(r, stdin[c], stdout[c], content[c])
      BY <2>5 DEF Serves, OthersWork, Working
    <3>2. CASE stdin[c] = <<r>> /\ Silent(stdout[c]) /\ Silent(content[c])
      <4>1. asked = {r}
        BY <3>2
      <4>2. QED
        BY <2>3, <3>1, <3>2, <4>1
    <3>3. CASE /\ stdin[c] = <<>> /\ Saying(content[c], r)
               /\ \E k \in 1 .. Len(stdout[c]) : Closing(stdout[c], r, k)
               /\ Mentions(content[c], r) \/ Mentions(stdout[c], r)
      <4>1. asked = {}
        BY <3>3
      <4>2. \A i \in 1 .. Len(stdout[c]) : stdout[c][i].of \in {r, NoRequest}
        <5>1. PICK k \in 1 .. Len(stdout[c]) : Closing(stdout[c], r, k)
          BY <3>3
        <5>2. TAKE i \in 1 .. Len(stdout[c])
        <5>3. i < k \/ i = k \/ i > k
          OBVIOUS
        <5>4. QED
          BY <5>1, <5>3 DEF Closing
      <4>3. said \subseteq {r, NoRequest}
        BY <2>2, <3>3, <4>2 DEF Saying
      <4>4. r \in said
        BY <2>2, <3>3 DEF Mentions
      <4>5. QED
        BY <3>1, <4>1, <4>3, <4>4
    <3>4. QED
      BY <3>1, <3>2, <3>3 DEF AtWork
  <2>6. QED
    BY <2>4, <2>5 DEF texts
<1>2. QED
  BY <1>1, Invariance, PTL

-----------------------------------------------------------------------------
(* ewdGateway.js implements RequestPool.                                   *)

Running == {r \in Requests :
               gateway = "ewdGateway" /\ Open(r) /\ \E c \in Conns : response[c] = r}

LEMMA RunningIs ==
    Typed /\ Serves /\ gateway = "ewdGateway" => Running = {response[c] : c \in Working}
<1> SUFFICES ASSUME Typed, Serves, gateway = "ewdGateway" PROVE Running = {response[c] : c \in Working}
  OBVIOUS
<1>1. ASSUME NEW r \in Running PROVE \E c \in Working : response[c] = r
  <2>1. PICK c \in Conns : response[c] = r /\ r \in Requests /\ state[r] = "open"
    BY DEF Running, Open
  <2>2. c \notin free
    BY <2>1 DEF Serves, FreeRest
  <2>3. QED
    BY <2>1, <2>2 DEF Working
<1>2. ASSUME NEW c \in Working PROVE response[c] \in Running
  BY DEF Serves, OthersWork, Working, Running
<1>3. QED
  BY <1>1, <1>2

RunOf(conns) == {response[c] : c \in Conns \ conns}

(* As many requests run as connections are not free.                       *)
LEMMA RoomLeft ==
    ASSUME NEW conns \in SUBSET Conns,
           \A c, d \in Conns \ conns : response[c] = response[d] => c = d
    PROVE  PoolSize - Cardinality(RunOf(conns)) = Cardinality(conns)
<1> DEFINE S == Conns \ conns
           T == RunOf(conns)
           f == [c \in S |-> response[c]]
<1>1. f \in Bijection(S, T)
  <2>1. f \in [S -> T] /\ (\A a, b \in S : f[a] = f[b] => a = b)
        /\ (\A y \in T : \E s \in S : f[s] = y)
    BY DEF RunOf
  <2>2. QED
    BY <2>1, Fun_IsBij
<1>2. ExistsBijection(S, T)
  BY <1>1 DEF ExistsBijection
<1>3. IsFiniteSet(S) /\ Cardinality(S) \in Nat /\ Cardinality(conns) \in Nat
  BY ConnsFinite
<1>4. Cardinality(T) = Cardinality(S)
  <2> HIDE DEF S, T
  <2> QED
    BY <1>2, <1>3, FS_Bijection
<1>5. Cardinality(S) = PoolSize - Cardinality(conns)
  <2>1. Cardinality(S) = Cardinality(Conns) - Cardinality(Conns \cap conns)
    BY ConnsFinite, FS_Difference
  <2>2. Conns \cap conns = conns
    OBVIOUS
  <2>3. QED
    BY <2>1, <2>2, ConnsFinite
<1>6. QED
  BY <1>3, <1>4, <1>5, PoolSizeAssumption

(* RequestPool's Fill, of a queue and a set of requests that run before, and*)
(* a queue and a set of requests that run after.                           *)
Fills(q, run, left, runs) ==
    LET room == PoolSize - Cardinality(run)
        n == IF Len(q) <= room THEN Len(q) ELSE room
    IN  left = SubSeq(q, n + 1, Len(q)) /\ runs = run \cup {q[i] : i \in 1 .. n}

LEMMA FillsPool ==
    ASSUME NEW q, NEW run, Fills(q, run, queue', Running')
    PROVE  Pool!Fill(q, run)
<1> DEFINE n == IF Len(q) <= PoolSize - Cardinality(run) THEN Len(q)
                ELSE PoolSize - Cardinality(run)
<1>1. queue' = SubSeq(q, n + 1, Len(q)) /\ Running' = run \cup {q[i] : i \in 1 .. n}
  BY DEF Fills
<1>2. n = IF Len(q) <= Pool!Room(run) THEN Len(q) ELSE Pool!Room(run)
  BY DEF Pool!Room, Cardinality, Pool!Cardinality
<1> HIDE DEF n
<1>3. Pool!Fill(q, run)
  BY <1>1, <1>2 DEF Pool!Fill, Running
<1>4. QED
  BY <1>3

LEMMA PoolArrives == ASSUME NEW r, Fills(Append(queue, r), Running, queue', Running')
                     PROVE  Pool!Arrive(r)
<1>1. PICK q, run : q = Append(queue, r) /\ run = Running
  OBVIOUS
<1>2. Pool!Fill(q, run)
  BY <1>1, FillsPool
<1>3. QED
  BY <1>1, <1>2 DEF Pool!Arrive, Pool!Fill, Running

LEMMA PoolFinishes ==
    ASSUME NEW r, r \in Running, Fills(queue, Running \ {r}, queue', Running')
    PROVE  Pool!Finish(r)
<1>1. PICK q, run : q = queue /\ run = Running \ {r}
  OBVIOUS
<1>2. Pool!Fill(q, run)
  BY <1>1, FillsPool
<1>3. QED
  BY <1>1, <1>2 DEF Pool!Finish, Pool!Fill, Running

(* What processQueue does is what Fill says.                               *)
LEMMA DealsFill ==
    ASSUME NEW conns \in SUBSET Conns, NEW q \in Seq(Requests),
           Typed, Typed', ProcessQueue(q, conns), Before(q, conns), (gateway = "ewdGateway")'
    PROVE  Fills(q, RunOf(conns), queue', Running')
<1> DEFINE n == Dealt(q, conns)
           takers == Takers(q, conns)
           run == RunOf(conns)
<1>1. Deal(q, conns, n, takers)
  BY Deals
<1>2. PoolSize - Cardinality(run) = Cardinality(conns)
  BY RoomLeft DEF Before
<1>3. n = IF Len(q) <= PoolSize - Cardinality(run) THEN Len(q) ELSE PoolSize - Cardinality(run)
  BY <1>2 DEF Dealt
<1>4. queue' = SubSeq(q, n + 1, Len(q))
  BY TakersDealt DEF ProcessQueue
<1>5. Running' = run \cup {q[i] : i \in 1 .. n}
  <2>1. Serves'
    BY ServesOn
  <2>2. Running' = {response'[c] : c \in Working'}
    <3>1. (Typed /\ Serves /\ gateway = "ewdGateway" => Running = {response[c] : c \in Working})'
      BY RunningIs, PTL
    <3>2. QED
      BY <2>1, <3>1
  <2>3. Working' = (Conns \ conns) \cup takers
    BY <1>1 DEF Deal, Working
  <2>4. \A c \in Conns \ conns : response'[c] = response[c]
    BY <1>1 DEF Deal
  <2>5. {response'[c] : c \in takers} = {q[i] : i \in 1 .. n}
    <3>1. \A c \in takers : Rank(c, conns) \in 1 .. n /\ response'[c] = q[Rank(c, conns)]
      BY <1>1 DEF Deal
    <3>2. \A i \in 1 .. n : \E c \in takers : Rank(c, conns) = i
      BY TakersDealt
    <3> HIDE DEF takers, n
    <3>3. QED
      BY <3>1, <3>2
  <2>6. run = {response'[c] : c \in Conns \ conns}
    BY <2>4 DEF RunOf
  <2> HIDE DEF takers, n, run
  <2>7. QED
    BY <2>2, <2>3, <2>5, <2>6
<1> HIDE DEF n, run
<1>6. Fills(q, run, queue', Running')
  BY <1>3, <1>4, <1>5 DEF Fills
<1>7. QED
  BY <1>6 DEF run

LEMMA PoolInit == Init => Pool!Init
<1> SUFFICES ASSUME Init PROVE Pool!Init
  OBVIOUS
<1>1. queue = <<>> /\ \A r \in Requests : ~Open(r)
  BY DEF Init, Open
<1>2. QED
  BY <1>1 DEF Pool!Init

PoolMove == Pool!Next \/ UNCHANGED <<queue, Running>>

LEMMA PoolStep ==
    ASSUME Typed, Typed', Serves, gateway = "ewdGateway", [Next]_vars
    PROVE  PoolMove
<1>0. gateway' = gateway
  BY GatewayStays
<1>1. ASSUME UNCHANGED <<queue, response, state>> PROVE PoolMove
  BY <1>0, <1>1 DEF PoolMove, Running, Open
<1>2. ASSUME NEW r \in Requests, SendToCachey(r) PROVE PoolMove
  <2>1. state' = [state EXCEPT ![r] = "open"] /\ state[r] = "idle"
    BY <1>2 DEF SendToCachey
  <2>2. CASE UNCHANGED <<queue, free, response, stdin>>
    <3>1. \A c \in Conns : response[c] # r
      <4>1. \A c \in free : response[c] # r
        BY <2>1 DEF Serves, FreeRest
      <4>2. \A c \in Working : response[c] # r
        BY <2>1 DEF Serves, OthersWork, Open
      <4>3. QED
        BY <4>1, <4>2 DEF Working
    <3>2. \A s \in Requests : s # r => state'[s] = state[s]
      BY <2>1 DEF Typed
    <3>3. Running' = Running
      BY <1>0, <2>2, <3>1, <3>2 DEF Running, Open
    <3>4. QED
      BY <2>2, <3>3 DEF PoolMove
  <2>3. CASE ProcessQueue(AddToQueue(r), free)
    <3>1. Before(AddToQueue(r), free)
      BY <1>2, <2>3, SendBefore
    <3>2. free \in SUBSET Conns /\ AddToQueue(r) \in Seq(Requests)
      BY QueueGrows DEF Typed
    <3>3. Fills(AddToQueue(r), RunOf(free), queue', Running')
      BY <1>0, <2>3, <3>1, <3>2, DealsFill
    <3>4. Running = RunOf(free)
      BY RunningIs DEF Working, RunOf
    <3>5. Pool!Arrive(r)
      BY <3>3, <3>4, PoolArrives DEF AddToQueue
    <3>6. QED
      BY <3>5 DEF PoolMove, Pool!Next
  <2>4. QED
    BY <1>2, <2>2, <2>3 DEF SendToCachey
<1>3. ASSUME NEW c \in Conns, Data(c) PROVE PoolMove
  <2>1. PICK n \in 1 .. Len(stdout[c]) :
           LET both == content[c] \o SubSeq(stdout[c], 1, n)
           IN  /\ stdout' = [stdout EXCEPT ![c] = SubSeq(@, n + 1, Len(@))]
               /\ Collects(c, stdout[c], n, both) \/ Completes(c, stdout[c], n, both)
    BY <1>3, DataSplits
  <2> DEFINE both == content[c] \o SubSeq(stdout[c], 1, n)
             r == response[c]
  <2>2. CASE Collects(c, stdout[c], n, both)
    BY <1>1, <2>2 DEF Collects
  <2>3. CASE Completes(c, stdout[c], n, both)
    <3>1. c \in Working /\ r \in Requests /\ Before(queue, free \cup {c})
      BY <2>1, <2>3, CompleteDeals
    <3>2. free \cup {c} \in SUBSET Conns /\ queue \in Seq(Requests) /\ ProcessQueue(queue, free \cup {c})
      BY <2>3 DEF Typed, Completes
    <3>3. Fills(queue, RunOf(free \cup {c}), queue', Running')
      BY <1>0, <3>1, <3>2, DealsFill
    <3>4. Running = {response[d] : d \in Working}
      BY RunningIs
    <3>5. \A d \in Working : response[d] = r => d = c
      BY <3>1 DEF Serves, OnePlace
    <3>6. r \in Running /\ Running \ {r} = RunOf(free \cup {c})
      BY <3>1, <3>4, <3>5 DEF Working, RunOf
    <3>7. PICK s \in Requests : s = r
      BY <3>1
    <3>8. s \in Running /\ Fills(queue, Running \ {s}, queue', Running')
      BY <3>3, <3>6, <3>7
    <3>9. Pool!Finish(s)
      BY <3>8, PoolFinishes
    <3>10. QED
      BY <3>7, <3>9 DEF PoolMove, Pool!Next
  <2>4. QED
    BY <2>1, <2>2, <2>3
<1>4. CASE Timer
  <2>1. /\ free \in SUBSET Conns /\ queue \in Seq(Requests) /\ ProcessQueue(queue, free)
        /\ UNCHANGED <<stdout, content, state>>
    BY <1>4 DEF Typed, Timer
  <2>2. queue = <<>> \/ free = {}
    BY DEF Serves
  <2>3. Takers(queue, free) = {}
    <3>1. ASSUME NEW c \in free PROVE Rank(c, free) \in Nat /\ Rank(c, free) # 0
      <4>1. Rank(c, free) \in 1 .. Cardinality(free)
        BY <2>1, RankBijects
      <4>2. Cardinality(free) \in Nat
        BY <2>1, ConnsFinite
      <4>3. QED
        BY <4>1, <4>2
    <3>2. CASE queue = <<>>
      BY <3>1, <3>2, EmptySeq DEF Takers
    <3>3. CASE free = {}
      BY <3>3 DEF Takers
    <3>4. QED
      BY <2>2, <3>2, <3>3
  <2>4. response' = response
    BY <2>1, <2>3 DEF ProcessQueue, Typed
  <2>5. queue' = queue
    <3>1. Cardinality({}) = 0
      BY FS_EmptySet
    <3>2. queue' = SubSeq(queue, 1, Len(queue))
      BY <2>1, <2>3, <3>1 DEF ProcessQueue
    <3>3. QED
      BY <2>1, <3>2, SubSeqFull
  <2>6. QED
    BY <1>1, <2>1, <2>4, <2>5
<1>5. ASSUME NEW c \in Conns, Listener(c) PROVE PoolMove
  BY <1>1, <1>5 DEF Listener
<1>6. CASE MethodsAnswer
  BY <1>1, <1>6 DEF MethodsAnswer
<1>7. CASE UNCHANGED vars
  BY <1>1, <1>7 DEF vars
<1>8. ASSUME NEW r \in Requests, SendToGTM(r) PROVE FALSE
  BY <1>8 DEF SendToGTM, Runs
<1>9. QED
  BY <1>2, <1>3, <1>4, <1>5, <1>6, <1>7, <1>8 DEF Next

(* ewdGateway.js takes requests in the order in which they come, works on  *)
(* as many at a time as it has processes, and lets none wait while there is*)
(* room: processQueue implements RequestPool.                              *)
THEOREM PoolImplemented == Spec /\ gateway = "ewdGateway" => PoolSpec
<1> DEFINE E == gateway = "ewdGateway"
<1>1. Init => Pool!Init
  BY PoolInit
<1>2. IInv /\ IInv' /\ E /\ [Next]_vars => [Pool!Next]_<<queue, Running>>
  BY PoolStep DEF IInv, PoolMove
<1>3. [Next]_vars /\ E => E'
  BY GatewayStays
<1>4. Spec /\ E => Pool!Init /\ [][Pool!Next]_<<queue, Running>>
  BY <1>1, <1>2, <1>3, Invariance, PTL DEF Spec
<1>5. QED
  BY <1>4, PTL DEF PoolSpec, Pool!Spec, Running

-----------------------------------------------------------------------------
(* However it is cut, the page arrives whole.                              *)

WorkWhole ==
    \A c \in Working : stdin[c] = <<>> => Told(content[c] \o stdout[c], response[c])

GotWhole == \A r \in Requests : state[r] = "ended" => Whole(got[r], r)

(* What was said for nobody before the page does not matter.               *)
LEMMA WholeBehind ==
    ASSUME NEW s \in Seq(Texts), NEW t \in Seq(Texts), NEW r \in Requests, Silent(s), Told(t, r)
    PROVE  Told(s \o t, r)
<1> DEFINE st == s \o t
<1>1. Len(s) \in Nat /\ Len(t) \in Nat
  BY LenProperties
<1>2. /\ st \in Seq(Texts) /\ Len(st) = Len(s) + Len(t)
      /\ \A i \in 1 .. (Len(s) + Len(t)) : st[i] = IF i <= Len(s) THEN s[i] ELSE t[i - Len(s)]
  BY ConcatProperties
<1> HIDE DEF st
<1>3. PICK b \in 0 .. (Len(t) - 5) :
         /\ \A i \in 1 .. 4 : t[b + i] = Page(r)[i]
         /\ ~IsEor(t[b + 5])
         /\ \A j \in 1 .. Len(t) : t[j].of = r => j \in (b + 1) .. (b + 4)
  BY DEF Told
<1>4. Len(s) + b \in 0 .. (Len(st) - 5) /\ ~IsEor(st[(Len(s) + b) + 5])
  <2>1. /\ (Len(s) + b) + 5 \in 1 .. (Len(s) + Len(t)) /\ ~((Len(s) + b) + 5 <= Len(s))
        /\ ((Len(s) + b) + 5) - Len(s) = b + 5
    BY <1>1
  <2>2. st[(Len(s) + b) + 5] = t[b + 5]
    BY <1>2, <2>1
  <2>3. QED
    BY <1>1, <1>2, <1>3, <2>2
<1>5. ASSUME NEW i \in 1 .. 4 PROVE st[(Len(s) + b) + i] = Page(r)[i]
  <2>1. /\ (Len(s) + b) + i \in 1 .. (Len(s) + Len(t)) /\ ~((Len(s) + b) + i <= Len(s))
        /\ ((Len(s) + b) + i) - Len(s) = b + i
    BY <1>1
  <2>2. QED
    BY <1>2, <1>3, <2>1
<1>6. ASSUME NEW j \in 1 .. Len(st), st[j].of = r
      PROVE  j \in ((Len(s) + b) + 1) .. ((Len(s) + b) + 4)
  <2>1. ~(j <= Len(s))
    <3>1. SUFFICES ASSUME j <= Len(s) PROVE FALSE
      OBVIOUS
    <3>2. j \in 1 .. Len(s) /\ st[j] = s[j]
      BY <1>1, <1>2, <3>1
    <3>3. QED
      BY <1>6, <3>2, RequestsAssumption DEF Silent
  <2>2. j - Len(s) \in 1 .. Len(t) /\ st[j] = t[j - Len(s)]
    BY <1>1, <1>2, <2>1
  <2>3. j - Len(s) \in (b + 1) .. (b + 4)
    BY <1>3, <1>6, <2>2
  <2>4. QED
    BY <1>1, <2>3
<1>7. Told(st, r)
  BY <1>4, <1>5, <1>6 DEF Told
<1>8. QED
  BY <1>7 DEF st

(* A chunk moves from the output to the text; together they stay the same. *)
LEMMA ChunkMoves ==
    ASSUME NEW out \in Seq(Texts), NEW n \in 1 .. Len(out), NEW text \in Seq(Texts)
    PROVE  (text \o SubSeq(out, 1, n)) \o SubSeq(out, n + 1, Len(out)) = text \o out
<1> DEFINE both == text \o SubSeq(out, 1, n)
           rest == SubSeq(out, n + 1, Len(out))
           all == both \o rest
           old == text \o out
<1>1. /\ Len(out) \in Nat /\ Len(text) \in Nat /\ n \in Nat /\ n <= Len(out)
      /\ rest \in Seq(Texts) /\ Len(rest) = Len(out) - n
      /\ both \in Seq(Texts) /\ Len(both) = Len(text) + n
      /\ \A i \in 1 .. (Len(out) - n) : rest[i] = out[n + i]
      /\ \A i \in 1 .. Len(text) : both[i] = text[i]
      /\ \A i \in 1 .. n : both[Len(text) + i] = out[i]
  BY Chunked, LenProperties
<1> HIDE DEF both, rest
<1>2. /\ all \in Seq(Texts) /\ Len(all) = Len(both) + Len(rest)
      /\ \A i \in 1 .. (Len(both) + Len(rest)) :
            all[i] = IF i <= Len(both) THEN both[i] ELSE rest[i - Len(both)]
  BY <1>1, ConcatProperties
<1>3. /\ old \in Seq(Texts) /\ Len(old) = Len(text) + Len(out)
      /\ \A i \in 1 .. (Len(text) + Len(out)) :
            old[i] = IF i <= Len(text) THEN text[i] ELSE out[i - Len(text)]
  BY ConcatProperties
<1> HIDE DEF all, old
<1>4. Len(all) = Len(old)
  BY <1>1, <1>2, <1>3
<1>5. ASSUME NEW i \in 1 .. Len(all) PROVE all[i] = old[i]
  <2>1. CASE i <= Len(text)
    <3>1. all[i] = both[i] /\ both[i] = text[i] /\ old[i] = text[i]
      BY <1>1, <1>2, <1>3, <2>1
    <3>2. QED
      BY <3>1
  <2>2. CASE i > Len(text) /\ i <= Len(both)
    <3>1. i - Len(text) \in 1 .. n /\ Len(text) + (i - Len(text)) = i
      BY <1>1, <2>2
    <3>2. both[i] = out[i - Len(text)]
      BY <1>1, <3>1
    <3>3. all[i] = both[i] /\ old[i] = out[i - Len(text)]
      <4>1. /\ i \in 1 .. (Len(both) + Len(rest)) /\ i <= Len(both)
            /\ i \in 1 .. (Len(text) + Len(out)) /\ ~(i <= Len(text))
        BY <1>1, <1>2, <2>2
      <4>2. all[i] = both[i]
        BY <1>2, <4>1
      <4>3. old[i] = out[i - Len(text)]
        BY <1>3, <4>1
      <4>4. QED
        BY <4>2, <4>3
    <3>4. QED
      BY <3>2, <3>3
  <2>3. CASE i > Len(both)
    <3>1. i - Len(both) \in 1 .. (Len(out) - n) /\ n + (i - Len(both)) = i - Len(text)
      BY <1>1, <1>2, <2>3
    <3>2. rest[i - Len(both)] = out[i - Len(text)]
      BY <1>1, <3>1
    <3>3. all[i] = rest[i - Len(both)] /\ old[i] = out[i - Len(text)]
      <4>1. /\ i \in 1 .. (Len(both) + Len(rest)) /\ ~(i <= Len(both))
            /\ i \in 1 .. (Len(text) + Len(out)) /\ ~(i <= Len(text))
        BY <1>1, <1>2, <2>3
      <4>2. all[i] = rest[i - Len(both)]
        BY <1>2, <4>1
      <4>3. old[i] = out[i - Len(text)]
        BY <1>3, <4>1
      <4>4. QED
        BY <4>2, <4>3
    <3>4. QED
      BY <3>2, <3>3
  <2>4. QED
    BY <1>1, <1>2, <2>1, <2>2, <2>3
<1>6. all = old
  BY <1>2, <1>3, <1>4, <1>5, SeqEqual
<1>7. QED
  BY <1>6 DEF all, old, both, rest

(* What is before the terminator of a whole answer is whole.               *)
LEMMA WholeCut ==
    ASSUME NEW out \in Seq(Texts), NEW n \in 1 .. Len(out), NEW text \in Seq(Texts),
           NEW r \in Requests, Saying(text, r), \E k \in 1 .. Len(out) : Closing(out, r, k),
           Told(text \o out, r),
           \E i \in DOMAIN (text \o SubSeq(out, 1, n)) : IsEor((text \o SubSeq(out, 1, n))[i])
    PROVE  LET both == text \o SubSeq(out, 1, n)
           IN  Whole(SubSeq(both, 1, FirstEor(both) - 2), r)
<1> DEFINE both == text \o SubSeq(out, 1, n)
           end == FirstEor(both)
           page == SubSeq(both, 1, end - 2)
           old == text \o out
<1>1. /\ Len(out) \in Nat /\ Len(text) \in Nat /\ n \in Nat /\ n <= Len(out)
      /\ both \in Seq(Texts) /\ Len(both) = Len(text) + n
      /\ \A i \in 1 .. Len(text) : both[i] = text[i]
      /\ \A i \in 1 .. n : both[Len(text) + i] = out[i]
  BY Chunked, LenProperties
<1>2. DOMAIN both = 1 .. Len(both) /\ \E i \in DOMAIN both : IsEor(both[i])
  BY <1>1, LenProperties
<1>3. /\ old \in Seq(Texts) /\ Len(old) = Len(text) + Len(out)
      /\ \A i \in 1 .. (Len(text) + Len(out)) :
            old[i] = IF i <= Len(text) THEN text[i] ELSE out[i - Len(text)]
  BY ConcatProperties
<1>4. Told(old, r)
  OBVIOUS
<1> HIDE DEF both, old
<1>5. PICK k \in 1 .. Len(out) : Closing(out, r, k)
  OBVIOUS
<1>6. ASSUME NEW i \in 1 .. Len(both)
      PROVE  /\ i \in 1 .. Len(old) /\ both[i] = old[i]
             /\ IsEor(both[i]) => i = Len(text) + k
  <2>1. CASE i <= Len(text)
    <3>1. i \in 1 .. Len(text) /\ both[i] = text[i] /\ i \in 1 .. Len(old) /\ old[i] = text[i]
      BY <1>1, <1>3, <2>1
    <3>2. ~IsEor(text[i])
      BY <3>1 DEF Saying
    <3>3. QED
      BY <3>1, <3>2
  <2>2. CASE i > Len(text)
    <3>1. i - Len(text) \in 1 .. n /\ Len(text) + (i - Len(text)) = i /\ i - Len(text) \in 1 .. Len(out)
      BY <1>1, <2>2
    <3>2. both[i] = out[i - Len(text)]
      BY <1>1, <3>1
    <3>3. i \in 1 .. Len(old) /\ old[i] = out[i - Len(text)]
      BY <1>1, <1>3, <2>2
    <3>4. IsEor(out[i - Len(text)]) => i - Len(text) = k
      <4>1. PICK m \in 1 .. Len(out) : m = i - Len(text)
        BY <3>1
      <4>2. m < k \/ m > k => ~IsEor(out[m])
        BY <1>5, <4>1 DEF Closing
      <4>3. m < k \/ m > k \/ m = k
        BY <1>1
      <4>4. QED
        BY <4>1, <4>2, <4>3
    <3>5. QED
      BY <1>1, <3>1, <3>2, <3>3, <3>4
  <2>3. QED
    BY <1>1, <2>1, <2>2
<1>7. end = Len(text) + k /\ end \in 1 .. Len(both)
  <2>1. PICK i \in 1 .. Len(both) : IsEor(both[i])
    BY <1>2
  <2>2. i = Len(text) + k
    BY <1>6, <2>1
  <2>3. ASSUME NEW j \in 1 .. (i - 1) PROVE ~IsEor(both[j])
    <3>1. j \in 1 .. Len(both) /\ j # Len(text) + k
      BY <1>1, <2>2
    <3>2. QED
      BY <1>6, <3>1
  <2>4. \E m \in DOMAIN both : IsEor(both[m]) /\ \A j \in 1 .. (m - 1) : ~IsEor(both[j])
    BY <1>2, <2>1, <2>3
  <2>5. end \in DOMAIN both /\ IsEor(both[end])
    BY <2>4 DEF FirstEor
  <2> HIDE DEF end
  <2>6. QED
    BY <1>2, <1>6, <2>5
<1> HIDE DEF end
<1>8. /\ page \in Seq(Texts) /\ Len(page) = IF 1 <= end - 2 THEN end - 2 ELSE 0
      /\ \A i \in 1 .. (end - 2) : i \in 1 .. Len(both) /\ page[i] = both[i]
  <2>1. end - 2 \in Int /\ end - 2 < Len(both) /\ end - 2 >= -1
    BY <1>1, <1>7
  <2>2. \A i \in 1 .. (end - 2) : i \in 1 .. Len(both) /\ both[i] \in Texts
    BY <1>1, <2>1, ElementOfSeq
  <2>3. /\ page \in Seq(Texts)
        /\ Len(page) = IF 1 <= end - 2 THEN (end - 2) - 1 + 1 ELSE 0
        /\ \A i \in 1 .. ((end - 2) - 1 + 1) : page[i] = both[1 + i - 1]
    BY <2>1, <2>2, SubSeqProperties
  <2> HIDE DEF page
  <2>4. QED
    BY <2>1, <2>2, <2>3
<1> HIDE DEF page
<1>9. PICK b \in 0 .. (Len(old) - 5) :
         /\ \A i \in 1 .. 4 : old[b + i] = Page(r)[i]
         /\ ~IsEor(old[b + 5])
         /\ \A j \in 1 .. Len(old) : old[j].of = r => j \in (b + 1) .. (b + 4)
  BY <1>4 DEF Told
<1>10. b + 4 < end
  <2>1. SUFFICES ASSUME b + 4 >= end PROVE FALSE
    BY <1>1, <1>3, <1>7
  <2>2. Page(r)[4].of = r
    BY DEF Page, Text
  <2>3. old[b + 4].of = r /\ b + 4 \in 1 .. Len(old) /\ b \in Nat
    <3>1. \A i \in 1 .. 4 : old[b + i] = Page(r)[i]
      BY <1>9
    <3>2. old[b + 4] = Page(r)[4]
      BY <3>1
    <3>3. b + 4 \in 1 .. Len(old) /\ b \in Nat
      BY <1>1, <1>3
    <3>4. QED
      BY <2>2, <3>2, <3>3
  <2>4. PICK p : p = b + 4
    OBVIOUS
  <2>5. p \in 1 .. Len(old) /\ p > Len(text) /\ p - Len(text) >= k /\ p - Len(text) \in 1 .. Len(out)
    BY <1>1, <1>3, <1>7, <2>1, <2>3, <2>4
  <2>6. old[p] = out[p - Len(text)]
    BY <1>1, <1>3, <2>5
  <2>7. out[p - Len(text)].of = NoRequest
    <3>1. CASE p - Len(text) = k
      BY <1>5, <3>1 DEF Closing
    <3>2. CASE p - Len(text) > k
      BY <1>5, <2>5, <3>2 DEF Closing
    <3>3. QED
      BY <2>5, <3>1, <3>2
  <2>8. QED
    BY <2>3, <2>4, <2>6, <2>7, RequestsAssumption
<1>11. b + 5 < end
  <2>1. old[end] = out[k] /\ IsEor(out[k])
    <3>1. end \in 1 .. (Len(text) + Len(out)) /\ ~(end <= Len(text)) /\ end - Len(text) = k
      BY <1>1, <1>7
    <3>2. QED
      BY <1>3, <1>5, <3>1 DEF Closing
  <2>2. b + 5 # end
    BY <1>9, <2>1
  <2>3. b \in Nat /\ end \in Nat
    BY <1>1, <1>3, <1>7
  <2>4. QED
    BY <1>10, <2>2, <2>3
<1>12. b \in 0 .. (Len(page) - 4)
  BY <1>1, <1>3, <1>7, <1>8, <1>11
<1>13. ASSUME NEW i \in 1 .. 4 PROVE page[b + i] = Page(r)[i]
  <2>1. b + i \in 1 .. (end - 2)
    BY <1>7, <1>11
  <2>2. page[b + i] = old[b + i]
    BY <1>6, <1>8, <2>1
  <2>3. QED
    BY <1>9, <2>2
<1>14. ASSUME NEW j \in 1 .. Len(page), page[j].of = r PROVE j \in (b + 1) .. (b + 4)
  <2>1. j \in 1 .. (end - 2)
    BY <1>7, <1>8
  <2>2. j \in 1 .. Len(old) /\ page[j] = old[j]
    BY <1>6, <1>8, <2>1
  <2>3. QED
    BY <1>9, <1>14, <2>2
<1>15. Whole(page, r)
  BY <1>12, <1>13, <1>14 DEF Whole
<1>16. QED
  BY <1>15 DEF page, end, both

LEMMA WholeDeal ==
    ASSUME NEW conns \in SUBSET Conns, NEW q \in Seq(Requests), Typed, ProcessQueue(q, conns),
           \A c \in Conns \ conns : stdin[c] = <<>> => Told(content'[c] \o stdout'[c], response[c])
    PROVE  WorkWhole'
<1>1. Deal(q, conns, Dealt(q, conns), Takers(q, conns))
  BY Deals
<1> DEFINE takers == Takers(q, conns)
<1>2. Working' = (Conns \ conns) \cup takers
  BY <1>1 DEF Working, Deal
<1>3. ASSUME NEW c \in takers PROVE stdin'[c] # <<>>
  <2>1. c \in Conns /\ stdin[c] \in Seq(Requests)
    BY <1>1 DEF Deal, Typed
  <2>2. Rank(c, conns) \in 1 .. Len(q)
    <3>1. /\ Dealt(q, conns) \in Nat /\ Dealt(q, conns) <= Len(q) /\ Len(q) \in Nat
          /\ Rank(c, conns) \in 1 .. Dealt(q, conns)
      BY <1>1, LenProperties DEF Deal
    <3>2. QED
      BY <3>1
  <2>3. q[Rank(c, conns)] \in Requests
    BY <2>2, ElementOfSeq
  <2>4. stdin'[c] = Append(stdin[c], q[Rank(c, conns)])
    BY <1>1 DEF Deal
  <2>5. QED
    BY <2>1, <2>3, <2>4, AppendProperties
<1>4. ASSUME NEW c \in Working', stdin'[c] = <<>>
      PROVE  Told(content'[c] \o stdout'[c], response'[c])
  <2>1. c \in Conns \ conns /\ c \notin takers
    BY <1>2, <1>3, <1>4
  <2>2. response'[c] = response[c] /\ stdin'[c] = stdin[c]
    BY <1>1, <2>1 DEF Deal
  <2>3. QED
    BY <1>4, <2>1, <2>2
<1>5. QED
  BY <1>4 DEF WorkWhole

LEMMA SendWhole ==
    ASSUME Typed, Serves, WorkWhole, GotWhole, NEW r \in Requests, SendToCachey(r)
    PROVE  WorkWhole' /\ GotWhole'
<1>1. /\ UNCHANGED <<stdout, content, got>> /\ state' = [state EXCEPT ![r] = "open"]
  BY DEF SendToCachey
<1>2. GotWhole'
  <2>1. \A s \in Requests : state'[s] = "ended" => state[s] = "ended"
    BY <1>1 DEF Typed
  <2>2. QED
    BY <1>1, <2>1 DEF GotWhole
<1>3. CASE UNCHANGED <<queue, free, response, stdin>>
  BY <1>1, <1>2, <1>3 DEF WorkWhole, Working
<1>4. CASE ProcessQueue(AddToQueue(r), free)
  <2>1. free \in SUBSET Conns /\ AddToQueue(r) \in Seq(Requests)
    BY QueueGrows DEF Typed
  <2>2. \A c \in Conns \ free : stdin[c] = <<>> => Told(content'[c] \o stdout'[c], response[c])
    BY <1>1 DEF WorkWhole, Working
  <2>3. WorkWhole'
    BY <1>4, <2>1, <2>2, WholeDeal
  <2>4. QED
    BY <1>2, <2>3
<1>5. QED
  BY <1>3, <1>4 DEF SendToCachey

LEMMA TimerWhole ==
    ASSUME Typed, Serves, WorkWhole, GotWhole, Timer
    PROVE  WorkWhole' /\ GotWhole'
<1>1. /\ free \in SUBSET Conns /\ queue \in Seq(Requests) /\ ProcessQueue(queue, free)
      /\ UNCHANGED <<stdout, content, got, state>>
  BY DEF Typed, Timer
<1>2. \A c \in Conns \ free : stdin[c] = <<>> => Told(content'[c] \o stdout'[c], response[c])
  BY <1>1 DEF WorkWhole, Working
<1>3. WorkWhole'
  BY <1>1, <1>2, WholeDeal
<1>4. QED
  BY <1>1, <1>3 DEF GotWhole

LEMMA ListenerWhole ==
    ASSUME Typed, Serves, WorkWhole, GotWhole, NEW c \in Conns, Listener(c)
    PROVE  WorkWhole' /\ GotWhole'
<1> DEFINE r == response[c]
<1>1. /\ stdin[c] # <<>> /\ stdin' = [stdin EXCEPT ![c] = Tail(@)]
      /\ UNCHANGED <<queue, free, response, content, state, got>>
  BY DEF Listener
<1>2. c \in Working
  BY <1>1 DEF Serves, FreeRest, AtRest, Working
<1>3. r \in Requests /\ AtWork(r, stdin[c], stdout[c], content[c])
  BY <1>2 DEF Serves, OthersWork
<1>4. PICK rest \in {<<>>, <<Refresh>>} :
         stdout' = [stdout EXCEPT ![c] = @ \o Page(Head(stdin[c])) \o Eor \o rest]
  BY DEF Listener
<1>5. stdin[c] \in Seq(Requests) /\ stdout[c] \in Seq(Texts) /\ content[c] \in Seq(Texts)
  BY DEF Typed
<1> DEFINE new == stdout[c] \o Page(Head(stdin[c])) \o Eor \o rest
<1>6. new \in Seq(Texts) /\ Told(new, r)
  BY <1>1, <1>3, <1>5, ListenerAnswers
<1> HIDE DEF new
<1>7. stdout'[c] = new
  BY <1>4 DEF Typed, new
<1>8. Silent(content[c])
  BY <1>1, <1>3 DEF AtWork
<1>9. Told(content[c] \o new, r)
  BY <1>3, <1>5, <1>6, <1>8, WholeBehind
<1>10. \A d \in Conns : d # c => stdin'[d] = stdin[d] /\ stdout'[d] = stdout[d]
  BY <1>1, <1>4 DEF Typed
<1>11. ASSUME NEW d \in Working', stdin'[d] = <<>>
       PROVE  Told(content'[d] \o stdout'[d], response'[d])
  <2>1. d \in Working /\ d \in Conns
    BY <1>1 DEF Working
  <2>2. CASE d = c
    BY <1>1, <1>7, <1>9, <2>2
  <2>3. CASE d # c
    BY <1>1, <1>10, <1>11, <2>1, <2>3 DEF WorkWhole
  <2>4. QED
    BY <2>2, <2>3
<1>12. GotWhole'
  BY <1>1 DEF GotWhole
<1>13. QED
  BY <1>11, <1>12 DEF WorkWhole

LEMMA CollectWhole ==
    ASSUME Typed, Serves, WorkWhole, GotWhole, NEW c \in Conns, NEW n \in 1 .. Len(stdout[c]),
           stdout' = [stdout EXCEPT ![c] = SubSeq(@, n + 1, Len(@))],
           Collects(c, stdout[c], n, content[c] \o SubSeq(stdout[c], 1, n))
    PROVE  WorkWhole' /\ GotWhole'
<1> DEFINE rest == SubSeq(stdout[c], n + 1, Len(stdout[c]))
           both == content[c] \o SubSeq(stdout[c], 1, n)
<1>1. content' = [content EXCEPT ![c] = both] /\ UNCHANGED <<free, response, stdin, got, state>>
  BY DEF Collects
<1>2. stdout[c] \in Seq(Texts) /\ content[c] \in Seq(Texts)
  BY DEF Typed
<1>3. both \o rest = content[c] \o stdout[c]
  BY <1>2, ChunkMoves
<1>4. stdout'[c] = rest /\ content'[c] = both
  BY <1>1 DEF Typed
<1>5. \A d \in Conns : d # c => stdout'[d] = stdout[d] /\ content'[d] = content[d]
  BY <1>1 DEF Typed
<1> HIDE DEF rest, both
<1>6. ASSUME NEW d \in Working', stdin'[d] = <<>>
      PROVE  Told(content'[d] \o stdout'[d], response'[d])
  <2>1. /\ d \in Working /\ d \in Conns /\ response'[d] = response[d]
        /\ Told(content[d] \o stdout[d], response[d])
    BY <1>1, <1>6 DEF Working, WorkWhole
  <2>2. CASE d = c
    BY <1>3, <1>4, <2>1, <2>2
  <2>3. CASE d # c
    BY <1>5, <2>1, <2>3
  <2>4. QED
    BY <2>2, <2>3
<1>7. GotWhole'
  BY <1>1 DEF GotWhole
<1>8. QED
  BY <1>6, <1>7 DEF WorkWhole

LEMMA CompleteWhole ==
    ASSUME Typed, Serves, GotOwn, WorkWhole, GotWhole,
           NEW c \in Conns, NEW n \in 1 .. Len(stdout[c]),
           stdout' = [stdout EXCEPT ![c] = SubSeq(@, n + 1, Len(@))],
           Completes(c, stdout[c], n, content[c] \o SubSeq(stdout[c], 1, n))
    PROVE  WorkWhole' /\ GotWhole'
<1> DEFINE both == content[c] \o SubSeq(stdout[c], 1, n)
           page == SubSeq(both, 1, FirstEor(both) - 2)
           r == response[c]
<1>1. /\ \E i \in DOMAIN both : IsEor(both[i])
      /\ content' = [content EXCEPT ![c] = <<>>]
      /\ got' = [got EXCEPT ![r] = page]
      /\ state' = [state EXCEPT ![r] = "ended"]
      /\ ProcessQueue(queue, free \cup {c})
  BY DEF Completes
<1>2. stdout[c] \in Seq(Texts) /\ content[c] \in Seq(Texts)
  BY DEF Typed
<1>3. c \in Working /\ r \in Requests /\ AtWork(r, stdin[c], stdout[c], content[c])
  <2>1. c \in Working /\ r \in Requests
    BY CompleteDeals
  <2>2. QED
    BY <2>1 DEF Serves, OthersWork
<1>4. stdin[c] = <<>> /\ Saying(content[c], r) /\ \E k \in 1 .. Len(stdout[c]) : Closing(stdout[c], r, k)
  <2>1. ~(Silent(stdout[c]) /\ Silent(content[c]))
    <3>1. SUFFICES ASSUME Silent(stdout[c]), Silent(content[c]) PROVE FALSE
      OBVIOUS
    <3>2. AtRest(<<>>, stdout[c], content[c])
      BY <3>1 DEF AtRest
    <3>3. \A i \in DOMAIN both : ~IsEor(both[i])
      BY <1>2, <3>2, ChunkCollected
    <3>4. QED
      BY <1>1, <3>3
  <2>2. QED
    BY <1>3, <2>1 DEF AtWork
<1>5. Told(content[c] \o stdout[c], r)
  BY <1>3, <1>4 DEF WorkWhole
<1>6. Whole(page, r)
  BY <1>1, <1>2, <1>3, <1>4, <1>5, WholeCut
<1> HIDE DEF both, page
<1>7. GotWhole'
  <2>1. ASSUME NEW s \in Requests, state'[s] = "ended" PROVE Whole(got'[s], s)
    <3>1. got \in [Requests -> Seq(Texts)]
      BY DEF GotOwn
    <3>2. CASE s = r
      <4>1. got'[s] = page
        BY <1>1, <3>1, <3>2
      <4>2. QED
        BY <1>6, <3>2, <4>1
    <3>3. CASE s # r
      <4>1. got'[s] = got[s] /\ state[s] = "ended"
        BY <1>1, <2>1, <3>1, <3>3 DEF Typed
      <4>2. QED
        BY <4>1 DEF GotWhole
    <3>4. QED
      BY <3>2, <3>3
  <2>2. QED
    BY <2>1 DEF GotWhole
<1>8. WorkWhole'
  <2>1. \A d \in Conns \ (free \cup {c}) :
           stdin[d] = <<>> => Told(content'[d] \o stdout'[d], response[d])
    <3>1. TAKE d \in Conns \ (free \cup {c})
    <3>2. stdout'[d] = stdout[d] /\ content'[d] = content[d]
      BY <1>1 DEF Typed
    <3>3. QED
      BY <3>2 DEF WorkWhole, Working
  <2>2. free \cup {c} \in SUBSET Conns /\ queue \in Seq(Requests)
    BY DEF Typed
  <2>3. QED
    BY <1>1, <2>1, <2>2, WholeDeal
<1>9. QED
  BY <1>7, <1>8

LEMMA WholeNext ==
    ASSUME Typed, gateway = "ewdGateway", Serves, GotOwn, WorkWhole, GotWhole, [Next]_vars
    PROVE  WorkWhole' /\ GotWhole'
<1>1. ASSUME NEW c \in Conns, Data(c) PROVE WorkWhole' /\ GotWhole'
  <2>1. PICK n \in 1 .. Len(stdout[c]) :
           LET both == content[c] \o SubSeq(stdout[c], 1, n)
           IN  /\ stdout' = [stdout EXCEPT ![c] = SubSeq(@, n + 1, Len(@))]
               /\ Collects(c, stdout[c], n, both) \/ Completes(c, stdout[c], n, both)
    BY <1>1, DataSplits
  <2> DEFINE both == content[c] \o SubSeq(stdout[c], 1, n)
  <2>2. CASE Collects(c, stdout[c], n, both)
    BY <2>1, <2>2, CollectWhole
  <2>3. CASE Completes(c, stdout[c], n, both)
    BY <2>1, <2>3, CompleteWhole
  <2>4. QED
    BY <2>1, <2>2, <2>3
<1>2. ASSUME UNCHANGED <<free, response, stdin, stdout, content, got, state>>
      PROVE  WorkWhole' /\ GotWhole'
  BY <1>2 DEF WorkWhole, GotWhole, Working
<1>3. CASE MethodsAnswer
  BY <1>2, <1>3 DEF MethodsAnswer
<1>4. CASE UNCHANGED vars
  BY <1>2, <1>4 DEF vars
<1>5. ASSUME NEW r \in Requests, SendToGTM(r) PROVE FALSE
  BY <1>5 DEF SendToGTM, Runs
<1>6. QED
  BY <1>1, <1>3, <1>4, <1>5, SendWhole, TimerWhole, ListenerWhole DEF Next

(* An answer that has ended is the page of its request, however its output *)
(* was cut and whatever was said for nobody before it.                     *)
LEMMA WholeIsAnswer ==
    ASSUME NEW s \in Seq(Texts), NEW r \in Requests, Whole(s, r)
    PROVE  \E before \in 0 .. (Len(s) - Len(Page(r))) :
              /\ SubSeq(s, before + 1, before + Len(Page(r))) = Page(r)
              /\ \A i \in DOMAIN s : s[i].of = r => i - before \in DOMAIN Page(r)
<1>1. /\ Page(r) \in Seq(Texts) /\ Len(Page(r)) = 4 /\ DOMAIN Page(r) = 1 .. 4
  BY DEF Page, Text, Texts, PartNames
<1>2. Len(s) \in Nat /\ DOMAIN s = 1 .. Len(s) /\ \A i \in 1 .. Len(s) : s[i] \in Texts
  BY LenProperties, ElementOfSeq
<1>3. PICK b \in 0 .. (Len(s) - 4) :
         /\ \A i \in 1 .. 4 : s[b + i] = Page(r)[i]
         /\ \A j \in 1 .. Len(s) : s[j].of = r => j \in (b + 1) .. (b + 4)
  BY DEF Whole
<1>4. b \in Nat /\ b + 4 <= Len(s)
  BY <1>2
<1> DEFINE part == SubSeq(s, b + 1, b + 4)
<1>5. part = Page(r)
  <2>1. \A i \in (b + 1) .. (b + 4) : s[i] \in Texts
    BY <1>2, <1>4
  <2>2. /\ part \in Seq(Texts)
        /\ Len(part) = IF b + 1 <= b + 4 THEN (b + 4) - (b + 1) + 1 ELSE 0
        /\ \A i \in 1 .. ((b + 4) - (b + 1) + 1) : part[i] = s[(b + 1) + i - 1]
    BY <1>4, <2>1, SubSeqProperties
  <2> HIDE DEF part
  <2>3. Len(part) = 4
    BY <1>4, <2>2
  <2>4. ASSUME NEW i \in 1 .. 4 PROVE part[i] = Page(r)[i]
    <3>1. i \in 1 .. ((b + 4) - (b + 1) + 1) /\ (b + 1) + i - 1 = b + i
      BY <1>4
    <3>2. part[i] = s[b + i]
      BY <2>2, <3>1
    <3>3. QED
      BY <1>3, <3>2
  <2>5. QED
    BY <1>1, <2>2, <2>3, <2>4, SeqEqual
<1>6. \A i \in DOMAIN s : s[i].of = r => i - b \in 1 .. 4
  BY <1>2, <1>3, <1>4
<1>7. QED
  BY <1>1, <1>5, <1>6

(* The client of ewdGateway.js gets the whole page, once and in one piece, *)
(* however the output of the M process was cut into chunks (the data       *)
(* handler of cacheyOutput).                                               *)
THEOREM PagesArriveWhole == Spec => []WholeAnswer
<1> DEFINE Inv == IInv /\ (gateway = "ewdGateway" => WorkWhole /\ GotWhole)
<1>1. Init => Inv
  <2> SUFFICES ASSUME Init PROVE Inv
    OBVIOUS
  <2>1. Working = {}
    BY DEF Init, Started, Conns, Working
  <2>2. \A r \in Requests : state[r] = "idle"
    BY DEF Init
  <2>3. WorkWhole /\ GotWhole
    BY <2>1, <2>2 DEF WorkWhole, GotWhole
  <2>4. QED
    BY <2>3, TypedInit, ServesInit DEF IInv
<1>2. Inv /\ [Next]_vars => Inv'
  <2> SUFFICES ASSUME Inv, [Next]_vars PROVE Inv'
    OBVIOUS
  <2>1. gateway' = gateway
    BY GatewayStays
  <2>2. Typed'
    BY TypedNext DEF IInv
  <2>3. gateway = "ewdGateway" => Serves' /\ GotOwn'
    BY ServesNext, GotOwnNext DEF IInv
  <2>4. gateway = "ewdGateway" => WorkWhole' /\ GotWhole'
    BY WholeNext DEF IInv
  <2>5. QED
    BY <2>1, <2>2, <2>3, <2>4 DEF IInv
<1>3. Inv => WholeAnswer
  <2> SUFFICES ASSUME Inv PROVE WholeAnswer
    OBVIOUS
  <2>1. ASSUME NEW r \in Requests, gateway = "ewdGateway", state[r] = "ended"
        PROVE  \E before \in 0 .. (Len(got[r]) - Len(Page(r))) :
                  /\ SubSeq(got[r], before + 1, before + Len(Page(r))) = Page(r)
                  /\ \A i \in DOMAIN got[r] : got[r][i].of = r => i - before \in DOMAIN Page(r)
    <3>1. got[r] \in Seq(Texts) /\ Whole(got[r], r)
      BY <2>1 DEF IInv, GotOwn, GotWhole
    <3>2. PICK s : s = got[r]
      OBVIOUS
    <3>3. \E before \in 0 .. (Len(s) - Len(Page(r))) :
             /\ SubSeq(s, before + 1, before + Len(Page(r))) = Page(r)
             /\ \A i \in DOMAIN s : s[i].of = r => i - before \in DOMAIN Page(r)
      BY <3>1, <3>2, WholeIsAnswer
    <3>4. QED
      BY <3>2, <3>3
  <2>2. QED
    BY <2>1 DEF WholeAnswer
<1> HIDE DEF Inv
<1>4. QED
  BY <1>1, <1>2, <1>3, PTL DEF Spec
=============================================================================
