---------------------------- MODULE LogStreamProofs ----------------------------
(***************************************************************************)
(* Proofs about LogStream: the reception buffer keeps within its size and  *)
(* never stalls, whatever is on the wire; every frame that arrives whole   *)
(* is found once and in order; every log is published once; and a file is  *)
(* replayed at the pace of its stamps.  The frames are laid one after the  *)
(* other on the link (FramesLaid), at most one symbol or datagram of them  *)
(* is damaged (StreamsAre, WiresOfDatagrams), the search gives up nothing  *)
(* of a frame that may still be found (FindFrameKeeps), and the steps      *)
(* keep what is held in its place and in order (ReceivesInOrder).          *)
(***************************************************************************)
EXTENDS LogStream, SequenceTheorems, FiniteSetTheorems, WellFoundedInduction, TLAPS

-----------------------------------------------------------------------------
(***************************************************************************)
(* Least numbers.                                                          *)
(***************************************************************************)

LEMMA LeastNumber ==
  ASSUME NEW S \in SUBSET Nat, S # {}
  PROVE  \E n \in S : \A k \in S : n <= k
<1> DEFINE R == {pair \in Nat \X Nat : pair[1] < pair[2]}
<1>1. OpToRel(<, Nat) = R
  BY DEF OpToRel
<1>2. IsWellFoundedOn(R, Nat)
  BY <1>1, NatLessThanWellFounded, Zenon
<1>3. PICK n \in S : \A k \in S : <<k, n>> \notin R
  <2> HIDE DEF R
  <2> QED
    BY <1>2, WFMin
<1>4. ASSUME NEW k \in S
      PROVE  n <= k
  <2>1. SUFFICES ASSUME k < n
                 PROVE  FALSE
    OBVIOUS
  <2>2. <<k, n>> \in Nat \X Nat /\ <<k, n>>[1] < <<k, n>>[2]
    BY <2>1
  <2> QED
    BY <1>3, <2>2, Zenon
<1> QED
  BY <1>4

LEMMA MinIsIn ==
  ASSUME NEW n \in Nat, NEW T, T \subseteq 1..n, T # {}
  PROVE  Min(T) \in T /\ \A k \in T : Min(T) <= k
<1>1. PICK x \in T : \A y \in T : x <= y
  BY LeastNumber, 1..n \subseteq Nat
<1> QED
  BY <1>1 DEF Min

LEMMA MinOfTwo ==
  ASSUME NEW a \in Nat, NEW b \in Nat
  PROVE  Min({a, b}) \in Nat /\ Min({a, b}) <= a /\ Min({a, b}) <= b
<1>1. \E x \in {a, b} : \A y \in {a, b} : x <= y
  <2>1. CASE a <= b
    BY <2>1
  <2>2. CASE b <= a
    BY <2>2
  <2> QED BY <2>1, <2>2
<1> QED BY <1>1 DEF Min

-----------------------------------------------------------------------------
(***************************************************************************)
(* The symbols of frames.                                                  *)
(***************************************************************************)

SymbolsFrom(first, final) == [of : first..final, at : Nat, val : Int]

LEMMA SymbolsAre ==
  ASSUME NEW frames \in Seq(Frames), NEW i \in 1..Len(frames)
  PROVE  /\ Symbols(frames, i) \in Seq(SymbolsFrom(i, i))
         /\ Len(frames[i].payload) \in Nat
         /\ Len(Symbols(frames, i)) = Len(frames[i].payload) + Overhead
         /\ \A j \in 1..Len(Symbols(frames, i)) :
              Symbols(frames, i)[j].of = i /\ Symbols(frames, i)[j].at = j
         /\ Symbols(frames, i)[1].val = Sync1
         /\ Symbols(frames, i)[2].val = Sync2
         /\ Symbols(frames, i)[3].val = Len(frames[i].payload)
<1> DEFINE payload == frames[i].payload
           head    == <<Sync1, Sync2, Len(payload)>>
           body    == head \o payload
           values  == body \o <<End>>
           S       == Symbols(frames, i)
<1>1. i \in Nat
  BY LenProperties
<1>2. payload \in Seq(Int) /\ Len(payload) \in Nat
  <2>1. frames[i] \in Frames
    BY ElementOfSeq
  <2>2. payload \in Seq(Int)
    BY <2>1 DEF Frames
  <2> QED
    BY <2>2, LenProperties
<1> HIDE DEF payload
<1>3. head \in Seq(Int) /\ Len(head) = 3
      /\ head[1] = Sync1 /\ head[2] = Sync2 /\ head[3] = Len(payload)
  BY <1>2 DEF Sync1, Sync2
<1>4. <<End>> \in Seq(Int) /\ Len(<<End>>) = 1
  BY DEF End
<1> HIDE DEF head
<1>5. /\ body \in Seq(Int) /\ Len(body) = 3 + Len(payload)
      /\ body[1] = Sync1 /\ body[2] = Sync2 /\ body[3] = Len(payload)
  <2>1. /\ body \in Seq(Int) /\ Len(body) = Len(head) + Len(payload)
        /\ \A k \in 1..Len(head) + Len(payload) :
             body[k] = IF k <= Len(head) THEN head[k] ELSE payload[k - Len(head)]
    BY <1>2, <1>3, ConcatProperties
  <2> HIDE DEF body
  <2> QED
    BY <2>1, <1>2, <1>3
<1> HIDE DEF body
<1>6. /\ values \in Seq(Int) /\ Len(values) = 4 + Len(payload)
      /\ values[1] = Sync1 /\ values[2] = Sync2 /\ values[3] = Len(payload)
  <2>1. /\ values \in Seq(Int) /\ Len(values) = Len(body) + Len(<<End>>)
        /\ \A k \in 1..Len(body) + Len(<<End>>) :
             values[k] = IF k <= Len(body) THEN body[k] ELSE <<End>>[k - Len(body)]
    BY <1>4, <1>5, ConcatProperties
  <2> HIDE DEF values
  <2> QED
    BY <2>1, <1>2, <1>4, <1>5
<1>7. S = [j \in DOMAIN values |-> [of |-> i, at |-> j, val |-> values[j]]]
  BY Zenon DEF Symbols, values, body, head, payload
<1> HIDE DEF values, S
<1>8. DOMAIN values = 1..(4 + Len(payload)) /\ \A j \in 1..(4 + Len(payload)) : values[j] \in Int
  BY <1>6, LenProperties, ElementOfSeq
<1>9. S \in [1..(4 + Len(payload)) -> SymbolsFrom(i, i)]
  BY <1>1, <1>2, <1>7, <1>8 DEF SymbolsFrom
<1>10. S \in Seq(SymbolsFrom(i, i)) /\ Len(S) = 4 + Len(payload)
  BY <1>2, <1>9, SeqDef
<1>11. \A j \in 1..(4 + Len(payload)) : S[j] = [of |-> i, at |-> j, val |-> values[j]]
  BY <1>7, <1>8, Zenon
<1>12. \A j \in 1..(4 + Len(payload)) : S[j].of = i /\ S[j].at = j /\ S[j].val = values[j]
  <2> SUFFICES ASSUME NEW j \in 1..(4 + Len(payload))
               PROVE  S[j].of = i /\ S[j].at = j /\ S[j].val = values[j]
    OBVIOUS
  <2>1. S[j] = [of |-> i, at |-> j, val |-> values[j]]
    BY <1>11
  <2> QED
    BY <2>1
<1>13. {1, 2, 3} \subseteq 1..(4 + Len(payload)) /\ 4 + Len(payload) = Len(payload) + Overhead
  BY <1>2 DEF Overhead
<1>14. S[1].val = Sync1 /\ S[2].val = Sync2 /\ S[3].val = Len(payload)
  BY <1>6, <1>12, <1>13
<1> QED
  BY <1>2, <1>10, <1>12, <1>13, <1>14 DEF S, payload

-----------------------------------------------------------------------------
(***************************************************************************)
(* Frames one after the other.                                             *)
(***************************************************************************)

Joins(f, seqs, m) ==
  f[1] = seqs[1] /\ \A i \in 2..m : f[i] = f[i - 1] \o seqs[i]

Joined(T, seqs, m) == \E f \in [1..m -> Seq(T)] : Joins(f, seqs, m)

LEMMA JoinsExist ==
  ASSUME NEW T, NEW n \in Nat \ {0}, NEW seqs \in [1..n -> Seq(T)]
  PROVE  Joined(T, seqs, n)
<1> DEFINE Bad == {m \in Nat : m >= 1 /\ m <= n /\ ~Joined(T, seqs, m)}
<1>1. SUFFICES Bad = {}
  BY n \in Nat, n >= 1, n <= n, Zenon
<1>2. SUFFICES ASSUME NEW m \in Bad, \A k \in Bad : m <= k
               PROVE  FALSE
  <2>1. Bad \in SUBSET Nat
    BY Zenon
  <2> HIDE DEF Bad
  <2> QED
    BY <2>1, LeastNumber, Zenon
<1>a. m \in Nat /\ m >= 1 /\ m <= n /\ ~Joined(T, seqs, m)
  BY Zenon
<1>3. CASE m = 1
  <2> DEFINE f == [i \in 1..1 |-> seqs[1]]
  <2>1. seqs[1] \in Seq(T)
    BY SMT
  <2>2. f \in [1..m -> Seq(T)]
    BY <2>1, <1>3, SMT
  <2>3. Joins(f, seqs, m)
    BY <1>3, SMT DEF Joins
  <2> QED
    BY <1>a, <2>2, <2>3, Zenon DEF Joined
<1>4. CASE m # 1
  <2>1. m - 1 \in Nat /\ m - 1 >= 1 /\ m - 1 <= n /\ m \in 1..n /\ ~(m <= m - 1)
    BY <1>a, <1>4, SMT
  <2>2. PICK g \in [1..(m - 1) -> Seq(T)] : Joins(g, seqs, m - 1)
    <3>1. m - 1 \notin Bad
      <4> HIDE DEF Bad
      <4> QED
        BY <1>2, <2>1, Zenon
    <3>2. Joined(T, seqs, m - 1)
      BY <2>1, <3>1, Zenon
    <3> QED
      BY <3>2, Zenon DEF Joined
  <2> DEFINE f == [i \in 1..m |-> IF i = m THEN g[m - 1] \o seqs[m] ELSE g[i]]
  <2>3. g[m - 1] \in Seq(T) /\ seqs[m] \in Seq(T)
    BY <2>1, SMT
  <2>4. g[m - 1] \o seqs[m] \in Seq(T)
    BY <2>3, ConcatProperties, Zenon
  <2>5. f \in [1..m -> Seq(T)]
    BY <2>1, <2>4, SMT
  <2>6. Joins(f, seqs, m)
    <3>1. f[1] = seqs[1]
      BY <2>1, <2>2, <1>4, SMT DEF Joins
    <3>2. ASSUME NEW i \in 2..m
          PROVE  f[i] = f[i - 1] \o seqs[i]
      <4>1. CASE i = m
        <5>1. f[m] = g[m - 1] \o seqs[m] /\ f[m - 1] = g[m - 1]
          BY <2>1, SMT
        <5> QED
          BY <4>1, <5>1, Zenon
      <4>2. CASE i # m
        <5>1. i \in 2..(m - 1) /\ f[i] = g[i] /\ f[i - 1] = g[i - 1]
          BY <2>1, <4>2, SMT
        <5>2. g[i] = g[i - 1] \o seqs[i]
          BY <2>2, <5>1, Zenon DEF Joins
        <5> QED
          BY <5>1, <5>2, Zenon
      <4> QED
        BY <4>1, <4>2
    <3> QED
      BY <3>1, <3>2, Zenon DEF Joins
  <2> QED
    BY <1>a, <2>5, <2>6, Zenon DEF Joined
<1> QED
  BY <1>3, <1>4

LEMMA FlattenJoins ==
  ASSUME NEW T, NEW n \in Nat \ {0}, NEW seqs \in [1..n -> Seq(T)]
  PROVE  \E f \in [1..n -> Seq(T)] : Joins(f, seqs, n) /\ FlattenSeq(seqs) = f[n]
<1> DEFINE Flattens(f) == f = [i \in 1..n |-> IF i = 1 THEN seqs[i] ELSE f[i - 1] \o seqs[i]]
           flatten == CHOOSE f : Flattens(f)
<1>1. Len(seqs) = n
  <2>1. seqs \in Seq(Seq(T))
    BY SeqDef, n \in Nat
  <2>2. DOMAIN seqs = 1..n /\ DOMAIN seqs = 1..Len(seqs) /\ Len(seqs) \in Nat
    BY <2>1, LenProperties
  <2> QED
    BY <2>2
<1>2. FlattenSeq(seqs) = flatten[n]
  BY <1>1, SMT DEF FlattenSeq
<1>3. PICK g \in [1..n -> Seq(T)] : Joins(g, seqs, n)
  BY JoinsExist, Zenon DEF Joined
<1>4. Flattens(g)
  <2>1. g = [i \in 1..n |-> g[i]]
    BY Zenon
  <2>2. ASSUME NEW i \in 1..n
        PROVE  g[i] = IF i = 1 THEN seqs[i] ELSE g[i - 1] \o seqs[i]
    <3>1. CASE i = 1
      BY <1>3, <3>1, Zenon DEF Joins
    <3>2. CASE i # 1
      BY <1>3, <3>2, i \in 2..n, Zenon DEF Joins
    <3> QED
      BY <3>1, <3>2
  <2> QED
    BY <2>1, <2>2, Zenon
<1>5. Flattens(flatten)
  BY <1>4, Zenon
<1> HIDE DEF flatten
<1>6. flatten = [i \in 1..n |-> IF i = 1 THEN seqs[i] ELSE flatten[i - 1] \o seqs[i]]
  BY <1>5, Zenon
<1>7. ASSUME NEW i \in 1..n
      PROVE  flatten[i] = IF i = 1 THEN seqs[i] ELSE flatten[i - 1] \o seqs[i]
  BY <1>6, Zenon
<1>8. Joins(flatten, seqs, n)
  <2>1. flatten[1] = seqs[1]
    BY <1>7, 1 \in 1..n, Zenon
  <2>2. ASSUME NEW i \in 2..n
        PROVE  flatten[i] = flatten[i - 1] \o seqs[i]
    BY <1>7, i \in 1..n, i # 1, Zenon
  <2> QED
    BY <2>1, <2>2, Zenon DEF Joins
<1>9. \A i \in 1..n : flatten[i] \in Seq(T)
  <2> DEFINE Bad == {i \in Nat : i \in 1..n /\ flatten[i] \notin Seq(T)}
  <2>1. SUFFICES Bad = {}
    BY 1..n \subseteq Nat, Zenon
  <2>2. SUFFICES ASSUME NEW i \in Bad, \A k \in Bad : i <= k
                 PROVE  FALSE
    <3>1. Bad \in SUBSET Nat
      BY Zenon
    <3> HIDE DEF Bad
    <3> QED
      BY <3>1, LeastNumber, Zenon
  <2>a. i \in 1..n /\ flatten[i] \notin Seq(T)
    BY Zenon
  <2>3. CASE i = 1
    BY <1>7, <2>3, <2>a, Zenon
  <2>4. CASE i # 1
    <3>1. i - 1 \in 1..n /\ i - 1 \in Nat /\ ~(i <= i - 1)
      BY <2>a, <2>4, SMT
    <3>0. flatten[i - 1] \in Seq(T)
      <4>1. i - 1 \notin Bad
        <5> HIDE DEF Bad
        <5> QED
          BY <2>2, <3>1, Zenon
      <4> QED
        BY <3>1, <4>1, Zenon
    <3>2. seqs[i] \in Seq(T)
      BY <2>a, Zenon
    <3>3. flatten[i - 1] \o seqs[i] \in Seq(T)
      BY <3>0, <3>2, ConcatProperties, Zenon
    <3> QED
      BY <1>7, <2>4, <2>a, <3>3, Zenon
  <2> QED
    BY <2>3, <2>4
<1>10. flatten \in [1..n -> Seq(T)]
  BY <1>6, <1>9, Zenon
<1> QED
  BY <1>2, <1>8, <1>10, Zenon

LEMMA FlattenOne ==
  ASSUME NEW T, NEW n \in Nat \ {0}, n = 1, NEW seqs \in [1..n -> Seq(T)]
  PROVE  FlattenSeq(seqs) = seqs[1]
<1>1. PICK f \in [1..n -> Seq(T)] : Joins(f, seqs, n) /\ FlattenSeq(seqs) = f[n]
  BY FlattenJoins
<1> QED
  BY <1>1, Zenon DEF Joins

\* The order of the wire; a stray symbol has no place in it.
Before(s, t) ==
  \/ s.of = 0 \/ t.of = 0
  \/ s.of < t.of
  \/ s.of = t.of /\ s.at < t.at

Ordered(seq) == \A a, b \in 1..Len(seq) : a < b => Before(seq[a], seq[b])

\* The i-th frame is in a sequence, after p symbols.
LiesAt(frames, seq, p, i) ==
  /\ p \in Nat /\ p + Len(Symbols(frames, i)) <= Len(seq)
  /\ \A j \in 1..Len(Symbols(frames, i)) : seq[p + j] = Symbols(frames, i)[j]

\* A sequence of some of the frames.
Laid(frames, first, final, seq) ==
  /\ seq \in Seq(SymbolsFrom(first, final))
  /\ Ordered(seq)
  /\ \A i \in first..final : \E p \in Nat : LiesAt(frames, seq, p, i)

LEMMA LaidOne ==
  ASSUME NEW frames \in Seq(Frames), NEW i \in 1..Len(frames)
  PROVE  Laid(frames, i, i, Symbols(frames, i))
<1> DEFINE S == Symbols(frames, i)
<1>1. /\ S \in Seq(SymbolsFrom(i, i)) /\ Len(S) \in Nat
      /\ \A j \in 1..Len(S) : S[j].of = i /\ S[j].at = j
  BY SymbolsAre, LenProperties
<1> HIDE DEF S
<1>2. Ordered(S)
  BY <1>1 DEF Ordered, Before
<1>3. LiesAt(frames, S, 0, i)
  BY <1>1 DEF LiesAt, S
<1>4. i \in Nat
  BY LenProperties
<1> QED
  BY <1>1, <1>2, <1>3, <1>4 DEF Laid, S

LEMMA LaidNext ==
  ASSUME NEW frames \in Seq(Frames), NEW first \in Nat \ {0}, NEW final \in Nat,
         first <= final, final + 1 <= Len(frames),
         NEW seq, Laid(frames, first, final, seq)
  PROVE  Laid(frames, first, final + 1, seq \o Symbols(frames, final + 1))
<1> DEFINE S == Symbols(frames, final + 1)
           T == SymbolsFrom(first, final + 1)
           U == seq \o S
<1>1. Len(frames) \in Nat /\ final + 1 \in 1..Len(frames)
  BY LenProperties
<1>2. /\ S \in Seq(SymbolsFrom(final + 1, final + 1)) /\ Len(S) \in Nat
      /\ \A j \in 1..Len(S) : S[j].of = final + 1 /\ S[j].at = j
  BY <1>1, SymbolsAre, LenProperties
<1>3. /\ seq \in Seq(SymbolsFrom(first, final)) /\ Len(seq) \in Nat
      /\ \A j \in 1..Len(seq) : seq[j].of \in first..final
  <2>1. seq \in Seq(SymbolsFrom(first, final)) /\ Len(seq) \in Nat
    BY LenProperties DEF Laid
  <2>2. ASSUME NEW j \in 1..Len(seq)
        PROVE  seq[j].of \in first..final
    <3>1. seq[j] \in SymbolsFrom(first, final)
      BY <2>1, ElementOfSeq
    <3> QED
      BY <3>1 DEF SymbolsFrom
  <2> QED
    BY <2>1, <2>2
<1>4. seq \in Seq(T) /\ S \in Seq(T)
  <2>1. SymbolsFrom(first, final) \subseteq T /\ SymbolsFrom(final + 1, final + 1) \subseteq T
    BY DEF SymbolsFrom
  <2> HIDE DEF S, T
  <2> QED
    BY <1>2, <1>3, <2>1, SeqMonotonic
<1>5. /\ U \in Seq(T) /\ Len(U) = Len(seq) + Len(S)
      /\ \A k \in 1..(Len(seq) + Len(S)) : U[k] = IF k <= Len(seq) THEN seq[k] ELSE S[k - Len(seq)]
  <2> HIDE DEF S, T
  <2> QED
    BY <1>4, ConcatProperties
<1> HIDE DEF S, U
<1>6. Ordered(U)
  <2>1. SUFFICES ASSUME NEW a \in 1..Len(U), NEW b \in 1..Len(U), a < b
                 PROVE  Before(U[a], U[b])
    BY DEF Ordered
  <2>2. CASE b <= Len(seq)
    <3>1. U[a] = seq[a] /\ U[b] = seq[b] /\ a \in 1..Len(seq) /\ b \in 1..Len(seq)
      BY <1>2, <1>3, <1>5, <2>1, <2>2
    <3> QED
      BY <2>1, <3>1 DEF Laid, Ordered
  <2>3. CASE a <= Len(seq) /\ b > Len(seq)
    <3>1. U[a] = seq[a] /\ U[b] = S[b - Len(seq)] /\ a \in 1..Len(seq) /\ b - Len(seq) \in 1..Len(S)
      BY <1>2, <1>3, <1>5, <2>1, <2>3
    <3>2. U[a].of \in first..final /\ U[b].of = final + 1
      BY <1>2, <1>3, <3>1
    <3> QED
      BY <3>2 DEF Before
  <2>4. CASE a > Len(seq)
    <3>1. /\ U[a] = S[a - Len(seq)] /\ a - Len(seq) \in 1..Len(S)
          /\ U[b] = S[b - Len(seq)] /\ b - Len(seq) \in 1..Len(S)
      BY <1>2, <1>3, <1>5, <2>1, <2>4
    <3>2. /\ U[a].of = final + 1 /\ U[b].of = final + 1
          /\ U[a].at = a - Len(seq) /\ U[b].at = b - Len(seq)
      BY <1>2, <3>1
    <3> QED
      BY <1>3, <2>1, <3>2 DEF Before
  <2> QED
    BY <1>3, <2>2, <2>3, <2>4
<1>7. ASSUME NEW i \in first..(final + 1)
      PROVE  \E p \in Nat : LiesAt(frames, U, p, i)
  <2>1. CASE i = final + 1
    <3>1. LiesAt(frames, U, Len(seq), i)
      <4>1. Symbols(frames, i) = S
        BY <2>1 DEF S
      <4>2. ASSUME NEW j \in 1..Len(S)
            PROVE  U[Len(seq) + j] = S[j]
        <5> DEFINE k == Len(seq) + j
        <5>1. k \in 1..(Len(seq) + Len(S)) /\ ~(k <= Len(seq)) /\ k - Len(seq) = j
          BY <1>2, <1>3
        <5> HIDE DEF k
        <5>2. U[k] = S[j]
          BY <1>5, <5>1
        <5> QED
          BY <5>2 DEF k
      <4> QED
        BY <1>2, <1>3, <1>5, <4>1, <4>2 DEF LiesAt
    <3> QED
      BY <1>3, <3>1
  <2>2. CASE i # final + 1
    <3>1. i \in first..final /\ i \in 1..Len(frames)
      BY <1>1, <2>2
    <3>2. PICK p \in Nat : LiesAt(frames, seq, p, i)
      BY <3>1 DEF Laid
    <3>3. Len(Symbols(frames, i)) \in Nat
      BY <3>1, SymbolsAre, LenProperties
    <3>4. p + Len(Symbols(frames, i)) <= Len(seq)
      BY <3>2 DEF LiesAt
    <3>5. ASSUME NEW j \in 1..Len(Symbols(frames, i))
          PROVE  U[p + j] = Symbols(frames, i)[j]
      <4>1. p + j \in 1..Len(seq)
        BY <3>3, <3>4, <1>3
      <4>2. seq[p + j] = Symbols(frames, i)[j]
        BY <3>2 DEF LiesAt
      <4> QED
        BY <1>2, <1>3, <1>5, <4>1, <4>2
    <3>6. p + Len(Symbols(frames, i)) <= Len(U)
      BY <1>2, <1>3, <1>5, <3>3, <3>4
    <3> QED
      BY <3>5, <3>6 DEF LiesAt
  <2> QED
    BY <2>1, <2>2
<1> QED
  BY <1>5, <1>6, <1>7 DEF Laid, U, S

LEMMA FramesLaid ==
  ASSUME NEW frames \in Seq(Frames), NEW base \in Nat, NEW n \in Nat \ {0}, base + n <= Len(frames),
         NEW seqs, seqs = [k \in 1..n |-> Symbols(frames, base + k)]
  PROVE  Laid(frames, base + 1, base + n, FlattenSeq(seqs))
<1> DEFINE T == SymbolsFrom(base + 1, base + n)
<1>0. Len(frames) \in Nat
  BY LenProperties
<1>1. ASSUME NEW k \in 1..n
      PROVE  seqs[k] = Symbols(frames, base + k) /\ seqs[k] \in Seq(T) /\ base + k \in 1..Len(frames)
  <2>1. base + k \in 1..Len(frames)
    BY <1>0
  <2>2. seqs[k] = Symbols(frames, base + k) /\ seqs[k] \in Seq(SymbolsFrom(base + k, base + k))
    BY <2>1, SymbolsAre
  <2>3. SymbolsFrom(base + k, base + k) \subseteq T
    BY DEF SymbolsFrom
  <2> HIDE DEF T
  <2> QED
    BY <2>1, <2>2, <2>3, SeqMonotonic
<1> HIDE DEF T
<1>2. seqs \in [1..n -> Seq(T)]
  BY <1>1
<1>3. PICK f \in [1..n -> Seq(T)] : Joins(f, seqs, n) /\ FlattenSeq(seqs) = f[n]
  BY <1>2, FlattenJoins
<1> DEFINE Bad == {m \in Nat : m \in 1..n /\ ~Laid(frames, base + 1, base + m, f[m])}
<1>4. SUFFICES Bad = {}
  BY <1>3, n \in 1..n, n \in Nat, Zenon
<1>5. SUFFICES ASSUME NEW m \in Bad, \A k \in Bad : m <= k
               PROVE  FALSE
  <2>1. Bad \in SUBSET Nat
    BY Zenon
  <2> HIDE DEF Bad
  <2> QED
    BY <2>1, LeastNumber, Zenon
<1>6. m \in 1..n /\ ~Laid(frames, base + 1, base + m, f[m])
  BY Zenon
<1>7. CASE m = 1
  <2>1. f[1] = Symbols(frames, base + 1) /\ base + 1 \in 1..Len(frames)
    BY <1>1, <1>3, 1 \in 1..n, Zenon DEF Joins
  <2> QED
    BY <1>6, <1>7, <2>1, LaidOne, Zenon
<1>8. CASE m # 1
  <2> DEFINE l == m - 1
  <2>1. l \in 1..n /\ l \in Nat /\ ~(m <= l) /\ m \in 2..n /\ base + m = (base + l) + 1
        /\ base + l \in Nat /\ base + 1 \in Nat \ {0} /\ base + 1 <= base + l
        /\ (base + l) + 1 <= Len(frames)
    BY <1>0, <1>6, <1>8
  <2> HIDE DEF l
  <2>2. Laid(frames, base + 1, base + l, f[l])
    <3>1. l \notin Bad
      <4> HIDE DEF Bad
      <4> QED
        BY <1>5, <2>1, Zenon
    <3> QED
      BY <2>1, <3>1, Zenon
  <2>3. f[m] = f[l] \o Symbols(frames, (base + l) + 1)
    <3>1. f[m] = f[m - 1] \o seqs[m]
      BY <1>3, <2>1, Zenon DEF Joins
    <3> QED
      BY <1>1, <1>6, <2>1, <3>1, Zenon DEF l
  <2>4. Laid(frames, base + 1, (base + l) + 1, f[m])
    BY <2>1, <2>2, <2>3, LaidNext, Zenon
  <2> QED
    BY <1>6, <2>1, <2>4, Zenon
<1> QED
  BY <1>7, <1>8

-----------------------------------------------------------------------------
(***************************************************************************)
(* What a lost or a changed symbol leaves.                                 *)
(***************************************************************************)

SymbolsOn(frames) == [of : {0} \cup DOMAIN frames, at : Nat, val : Int]

\* All the symbols of the i-th frame are somewhere in a sequence.
Whole(frames, seq, i) ==
  \A j \in 1..Len(Symbols(frames, i)) : \E k \in 1..Len(seq) : seq[k] = Symbols(frames, i)[j]

\* What of the frames is whole is still in one piece.
WellPlaced(frames, seq) ==
  /\ seq \in Seq(SymbolsOn(frames))
  /\ Ordered(seq)
  /\ \A i \in 1..Len(frames) : Whole(frames, seq, i) => \E p \in Nat : LiesAt(frames, seq, p, i)

\* A symbol of a frame is in one place.
LEMMA OnePlace ==
  ASSUME NEW frames \in Seq(Frames), NEW seq \in Seq(SymbolsOn(frames)), Ordered(seq),
         NEW a \in 1..Len(seq), NEW b \in 1..Len(seq), seq[a] = seq[b], seq[a].of # 0
  PROVE  a = b
<1>1. seq[a].of \in Nat /\ seq[a].at \in Nat
  <2>1. seq[a] \in SymbolsOn(frames) /\ DOMAIN frames = 1..Len(frames) /\ Len(frames) \in Nat
    BY ElementOfSeq, LenProperties
  <2> QED
    BY <2>1 DEF SymbolsOn
<1>2. a \in Int /\ b \in Int
  BY LenProperties
<1>3. ~Before(seq[a], seq[b]) /\ ~Before(seq[b], seq[a])
  BY <1>1 DEF Before
<1>4. ~(a < b) /\ ~(b < a)
  BY <1>3 DEF Ordered
<1> QED
  BY <1>2, <1>4

LEMMA RemoveAtIs ==
  ASSUME NEW T, NEW seq \in Seq(T), NEW k \in 1..Len(seq)
  PROVE  /\ RemoveAt(seq, k) \in Seq(T)
         /\ Len(RemoveAt(seq, k)) = Len(seq) - 1
         /\ \A j \in 1..(Len(seq) - 1) : RemoveAt(seq, k)[j] = IF j < k THEN seq[j] ELSE seq[j + 1]
<1> DEFINE front == SubSeq(seq, 1, k - 1)  back == SubSeq(seq, k + 1, Len(seq))
<1>1. Len(seq) \in Nat /\ k \in Nat /\ \A j \in 1..Len(seq) : seq[j] \in T
  BY LenProperties, ElementOfSeq
<1>2. /\ front \in Seq(T) /\ Len(front) = k - 1
      /\ \A j \in 1..(k - 1) : front[j] = seq[j]
  <2>1. 1 \in Int /\ k - 1 \in Int /\ \A j \in 1..(k - 1) : seq[j] \in T
    BY <1>1
  <2>2. /\ front \in Seq(T) /\ Len(front) = IF 1 <= k - 1 THEN k - 1 - 1 + 1 ELSE 0
        /\ \A j \in 1..(k - 1) - 1 + 1 : front[j] = seq[1 + j - 1]
    BY <2>1, SubSeqProperties
  <2> HIDE DEF front
  <2> QED
    BY <2>2, <1>1
<1>3. /\ back \in Seq(T) /\ Len(back) = Len(seq) - k
      /\ \A j \in 1..(Len(seq) - k) : back[j] = seq[k + j]
  <2>1. k + 1 \in Int /\ Len(seq) \in Int /\ \A j \in (k + 1)..Len(seq) : seq[j] \in T
    BY <1>1
  <2>2. /\ back \in Seq(T) /\ Len(back) = IF k + 1 <= Len(seq) THEN Len(seq) - (k + 1) + 1 ELSE 0
        /\ \A j \in 1..Len(seq) - (k + 1) + 1 : back[j] = seq[k + 1 + j - 1]
    BY <2>1, SubSeqProperties
  <2> HIDE DEF back
  <2>3. Len(back) = Len(seq) - k
    BY <2>2, <1>1
  <2>4. ASSUME NEW j \in 1..(Len(seq) - k)
        PROVE  back[j] = seq[k + j]
    <3>1. j \in 1..(Len(seq) - (k + 1) + 1) /\ k + 1 + j - 1 = k + j
      BY <1>1
    <3> QED
      BY <2>2, <3>1
  <2> QED
    BY <2>2, <2>3, <2>4
<1> HIDE DEF front, back
<1>4. /\ front \o back \in Seq(T) /\ Len(front \o back) = Len(front) + Len(back)
      /\ \A j \in 1..(Len(front) + Len(back)) :
           (front \o back)[j] = IF j <= Len(front) THEN front[j] ELSE back[j - Len(front)]
  BY <1>2, <1>3, ConcatProperties
<1>5. RemoveAt(seq, k) = front \o back
  BY DEF RemoveAt, front, back
<1>6. ASSUME NEW j \in 1..(Len(seq) - 1)
      PROVE  (front \o back)[j] = IF j < k THEN seq[j] ELSE seq[j + 1]
  <2>1. CASE j < k
    <3>1. j \in 1..(Len(front) + Len(back)) /\ j <= Len(front) /\ j \in 1..(k - 1)
      BY <1>1, <1>2, <1>3, <2>1
    <3> QED
      BY <1>2, <1>4, <2>1, <3>1
  <2>2. CASE ~(j < k)
    <3> DEFINE l == j - Len(front)
    <3>1. /\ j \in 1..(Len(front) + Len(back)) /\ ~(j <= Len(front))
          /\ l \in 1..(Len(seq) - k) /\ k + l = j + 1
      BY <1>1, <1>2, <1>3, <2>2
    <3> HIDE DEF l
    <3>2. back[l] = seq[k + l]
      BY <1>3, <3>1
    <3> QED
      BY <1>4, <2>2, <3>1, <3>2 DEF l
  <2> QED
    BY <2>1, <2>2
<1>7. Len(front) + Len(back) = Len(seq) - 1
  BY <1>1, <1>2, <1>3
<1> QED
  BY <1>4, <1>5, <1>6, <1>7

\* The frames as they are sent.
LEMMA LaidIsWellPlaced ==
  ASSUME NEW frames \in Seq(Frames), NEW seq, Laid(frames, 1, Len(frames), seq)
  PROVE  WellPlaced(frames, seq)
<1>1. DOMAIN frames = 1..Len(frames) /\ SymbolsFrom(1, Len(frames)) \subseteq SymbolsOn(frames)
  BY LenProperties DEF SymbolsFrom, SymbolsOn
<1> QED
  BY <1>1, SeqMonotonic DEF Laid, WellPlaced

\* A frame that is whole in what is left is not where the damage was.
LEMMA NotDamaged ==
  ASSUME NEW frames \in Seq(Frames), NEW seq, Laid(frames, 1, Len(frames), seq),
         NEW k \in 1..Len(seq), NEW i \in 1..Len(frames),
         \A j \in 1..Len(Symbols(frames, i)) :
           \E l \in 1..Len(seq) : l # k /\ seq[l] = Symbols(frames, i)[j]
  PROVE  \E p \in Nat : LiesAt(frames, seq, p, i) /\ \A j \in 1..Len(Symbols(frames, i)) : p + j # k
<1>1. PICK p \in Nat : LiesAt(frames, seq, p, i)
  BY DEF Laid
<1>2. WellPlaced(frames, seq)
  BY LaidIsWellPlaced
<1>3. /\ Len(Symbols(frames, i)) \in Nat
      /\ \A j \in 1..Len(Symbols(frames, i)) : Symbols(frames, i)[j].of = i
  BY SymbolsAre, LenProperties
<1>4. ASSUME NEW j \in 1..Len(Symbols(frames, i))
      PROVE  p + j # k
  <2>1. PICK l \in 1..Len(seq) : l # k /\ seq[l] = Symbols(frames, i)[j]
    OBVIOUS
  <2>2. p + j \in 1..Len(seq) /\ seq[p + j] = Symbols(frames, i)[j]
    <3>1. Len(seq) \in Nat
      BY <1>2, LenProperties DEF WellPlaced
    <3> QED
      BY <1>1, <1>3, <3>1 DEF LiesAt
  <2>3. seq[p + j].of # 0
    <3>1. i # 0
      BY LenProperties
    <3> QED
      BY <1>3, <2>2, <3>1
  <2>4. p + j = l
    BY <1>2, <2>1, <2>2, <2>3, OnePlace DEF WellPlaced
  <2> QED
    BY <2>1, <2>4
<1> QED
  BY <1>1, <1>4

LEMMA LostSymbol ==
  ASSUME NEW frames \in Seq(Frames), NEW seq, Laid(frames, 1, Len(frames), seq),
         NEW k \in 1..Len(seq)
  PROVE  WellPlaced(frames, RemoveAt(seq, k))
<1> DEFINE rest == RemoveAt(seq, k)
<1>1. WellPlaced(frames, seq)
  BY LaidIsWellPlaced
<1>2. seq \in Seq(SymbolsOn(frames)) /\ Len(seq) \in Nat /\ k \in Nat
  BY <1>1, LenProperties DEF WellPlaced
<1>3. /\ rest \in Seq(SymbolsOn(frames)) /\ Len(rest) = Len(seq) - 1
      /\ \A j \in 1..(Len(seq) - 1) : rest[j] = IF j < k THEN seq[j] ELSE seq[j + 1]
  BY <1>2, RemoveAtIs
<1> HIDE DEF rest
<1>4. Ordered(rest)
  <2>1. SUFFICES ASSUME NEW a \in 1..Len(rest), NEW b \in 1..Len(rest), a < b
                 PROVE  Before(rest[a], rest[b])
    BY DEF Ordered
  <2> DEFINE c == IF a < k THEN a ELSE a + 1  d == IF b < k THEN b ELSE b + 1
  <2>2. c \in 1..Len(seq) /\ d \in 1..Len(seq) /\ c < d
    BY <1>2, <1>3, <2>1
  <2>3. rest[a] = seq[c] /\ rest[b] = seq[d]
    BY <1>3
  <2> HIDE DEF c, d
  <2> QED
    BY <1>1, <2>2, <2>3 DEF WellPlaced, Ordered
<1>5. ASSUME NEW i \in 1..Len(frames), Whole(frames, rest, i)
      PROVE  \E p \in Nat : LiesAt(frames, rest, p, i)
  <2>1. ASSUME NEW j \in 1..Len(Symbols(frames, i))
        PROVE  \E l \in 1..Len(seq) : l # k /\ seq[l] = Symbols(frames, i)[j]
    <3>1. PICK m \in 1..Len(rest) : rest[m] = Symbols(frames, i)[j]
      BY <1>5 DEF Whole
    <3>2. CASE m < k
      <4>1. m \in 1..Len(seq) /\ m # k /\ rest[m] = seq[m]
        BY <1>2, <1>3, <3>2
      <4> QED
        BY <3>1, <4>1
    <3>3. CASE ~(m < k)
      <4>1. m + 1 \in 1..Len(seq) /\ m + 1 # k /\ rest[m] = seq[m + 1]
        BY <1>2, <1>3, <3>3
      <4> QED
        BY <3>1, <4>1
    <3> QED
      BY <3>2, <3>3
  <2>2. PICK p \in Nat : LiesAt(frames, seq, p, i) /\ \A j \in 1..Len(Symbols(frames, i)) : p + j # k
    BY <2>1, NotDamaged
  <2>3. Len(Symbols(frames, i)) \in Nat /\ Len(Symbols(frames, i)) >= 4
    <3>1. Len(frames[i].payload) \in Nat /\ Len(Symbols(frames, i)) = Len(frames[i].payload) + Overhead
      BY SymbolsAre
    <3> QED
      BY <3>1 DEF Overhead
  <2> DEFINE n == Len(Symbols(frames, i))  S == Symbols(frames, i)
  <2>4. n \in Nat /\ n >= 4 /\ p + n <= Len(seq)
        /\ \A j \in 1..n : seq[p + j] = S[j] /\ p + j # k
    BY <2>2, <2>3 DEF LiesAt
  <2> HIDE DEF n, S
  <2>5. CASE k <= p
    <3>1. p - 1 \in Nat /\ (p - 1) + n <= Len(rest)
      BY <1>2, <1>3, <2>4, <2>5
    <3>2. ASSUME NEW j \in 1..n
          PROVE  rest[(p - 1) + j] = S[j]
      <4>1. (p - 1) + j \in 1..(Len(seq) - 1) /\ ~((p - 1) + j < k) /\ (p - 1) + j + 1 = p + j
        BY <1>2, <2>4, <2>5
      <4>2. rest[(p - 1) + j] = seq[(p - 1) + j + 1]
        BY <1>3, <4>1
      <4> QED
        BY <2>4, <4>1, <4>2
    <3> QED
      BY <3>1, <3>2 DEF LiesAt, n, S
  <2>6. CASE k > p
    <3>1. k > p + n
      <4>1. SUFFICES ASSUME k <= p + n
                     PROVE  FALSE
        BY <1>2, <2>4
      <4>2. k - p \in 1..n /\ p + (k - p) = k
        BY <1>2, <2>4, <2>6, <4>1
      <4> QED
        BY <2>4, <4>2
    <3>2. p + n <= Len(rest)
      BY <1>2, <1>3, <2>4, <3>1
    <3>3. ASSUME NEW j \in 1..n
          PROVE  rest[p + j] = S[j]
      <4>1. p + j \in 1..(Len(seq) - 1) /\ p + j < k
        BY <1>2, <2>4, <3>1
      <4> QED
        BY <1>3, <2>4, <4>1
    <3> QED
      BY <3>2, <3>3 DEF LiesAt, n, S
  <2> QED
    BY <1>2, <2>5, <2>6
<1> QED
  BY <1>3, <1>4, <1>5 DEF WellPlaced, rest

LEMMA ChangedSymbol ==
  ASSUME NEW frames \in Seq(Frames), NEW seq, Laid(frames, 1, Len(frames), seq),
         NEW k \in 1..Len(seq), NEW val \in Int
  PROVE  WellPlaced(frames, [seq EXCEPT ![k] = Stray(val)])
<1> DEFINE changed == [seq EXCEPT ![k] = Stray(val)]
<1>1. WellPlaced(frames, seq)
  BY LaidIsWellPlaced
<1>2. seq \in Seq(SymbolsOn(frames)) /\ Len(seq) \in Nat /\ k \in Nat
  BY <1>1, LenProperties DEF WellPlaced
<1>3. Stray(val) \in SymbolsOn(frames) /\ Stray(val).of = 0
  BY DEF Stray, SymbolsOn
<1>4. /\ changed \in Seq(SymbolsOn(frames)) /\ Len(changed) = Len(seq)
      /\ \A j \in 1..Len(seq) : changed[j] = IF j = k THEN Stray(val) ELSE seq[j]
  BY <1>2, <1>3, ExceptSeq
<1> HIDE DEF changed
<1>5. Ordered(changed)
  <2>1. SUFFICES ASSUME NEW a \in 1..Len(changed), NEW b \in 1..Len(changed), a < b
                 PROVE  Before(changed[a], changed[b])
    BY DEF Ordered
  <2>2. CASE a = k \/ b = k
    <3>1. changed[a].of = 0 \/ changed[b].of = 0
      BY <1>3, <1>4, <2>2
    <3> QED
      BY <3>1 DEF Before
  <2>3. CASE a # k /\ b # k
    <3>1. changed[a] = seq[a] /\ changed[b] = seq[b] /\ a \in 1..Len(seq) /\ b \in 1..Len(seq)
      BY <1>4, <2>3
    <3> QED
      BY <1>1, <2>1, <3>1 DEF WellPlaced, Ordered
  <2> QED
    BY <2>2, <2>3
<1>6. ASSUME NEW i \in 1..Len(frames), Whole(frames, changed, i)
      PROVE  \E p \in Nat : LiesAt(frames, changed, p, i)
  <2>1. ASSUME NEW j \in 1..Len(Symbols(frames, i))
        PROVE  \E l \in 1..Len(seq) : l # k /\ seq[l] = Symbols(frames, i)[j]
    <3>1. PICK m \in 1..Len(changed) : changed[m] = Symbols(frames, i)[j]
      BY <1>6 DEF Whole
    <3>2. Symbols(frames, i)[j].of # 0
      BY SymbolsAre, LenProperties
    <3>3. m # k
      BY <1>3, <1>4, <3>1, <3>2
    <3> QED
      BY <1>4, <3>1, <3>3
  <2>2. PICK p \in Nat : LiesAt(frames, seq, p, i) /\ \A j \in 1..Len(Symbols(frames, i)) : p + j # k
    BY <2>1, NotDamaged
  <2>3. Len(Symbols(frames, i)) \in Nat
    BY SymbolsAre, LenProperties
  <2>4. p + Len(Symbols(frames, i)) <= Len(changed)
    BY <1>4, <2>2 DEF LiesAt
  <2>5. ASSUME NEW j \in 1..Len(Symbols(frames, i))
        PROVE  changed[p + j] = Symbols(frames, i)[j]
    <3>1. p + j \in 1..Len(seq)
      BY <1>2, <1>4, <2>3, <2>4
    <3> QED
      BY <1>4, <2>2, <3>1 DEF LiesAt
  <2> QED
    BY <2>4, <2>5 DEF LiesAt
<1> QED
  BY <1>4, <1>5, <1>6 DEF WellPlaced, changed

\* The symbols of a source's frames, and what may become of them on the way.
LEMMA StreamsAre ==
  ASSUME NEW src \in Sources, src.link # "udp", NEW symbols \in Wires(src)
  PROVE  WellPlaced(src.frames, symbols)
<1> DEFINE frames == src.frames  all == SymbolsOf(frames)
<1>1. frames \in Seq(Frames) /\ Len(frames) \in Nat /\ DOMAIN frames = 1..Len(frames)
  BY SourcesAssumption, LenProperties
<1> HIDE DEF frames
<1>2. Laid(frames, 1, Len(frames), all)
  <2> DEFINE seqs == [i \in DOMAIN frames |-> Symbols(frames, i)]
  <2>0. all = FlattenSeq(seqs)
    BY DEF SymbolsOf
  <2>1. CASE Len(frames) = 0
    <3>1. seqs = <<>>
      BY <1>1, <2>1
    <3>2. FlattenSeq(<<>>) = <<>>
      BY EmptySeq DEF FlattenSeq
    <3>3. <<>> \in Seq(SymbolsFrom(1, 0)) /\ Len(<<>>) = 0
      BY EmptySeq
    <3>4. Laid(frames, 1, 0, <<>>)
      BY <3>3 DEF Laid, Ordered
    <3> HIDE DEF seqs
    <3> QED
      BY <2>0, <2>1, <3>1, <3>2, <3>4
  <2>2. CASE Len(frames) # 0
    <3> DEFINE moved == [k \in 1..Len(frames) |-> Symbols(frames, 0 + k)]
    <3>1. seqs = moved
      <4>1. \A k \in 1..Len(frames) : 0 + k = k
        BY <1>1
      <4> QED
        BY <1>1, <4>1, Zenon
    <3>2. /\ Len(frames) \in Nat \ {0} /\ 0 + Len(frames) <= Len(frames)
          /\ 0 + 1 = 1 /\ 0 + Len(frames) = Len(frames)
      BY <1>1, <2>2
    <3> HIDE DEF moved
    <3>3. Laid(frames, 0 + 1, 0 + Len(frames), FlattenSeq(moved))
      BY <1>1, <3>2, FramesLaid, Zenon DEF moved
    <3> QED
      BY <2>0, <3>1, <3>2, <3>3, Zenon
  <2> QED
    BY <2>1, <2>2
<1>3. symbols \in {all} \cup Damaged(all)
  BY Zenon DEF Wires, frames
<1> HIDE DEF all
<1>4. CASE symbols = all
  BY <1>1, <1>2, <1>4, LaidIsWellPlaced DEF frames
<1>5. CASE symbols \in Damaged(all)
  <2>0. DOMAIN all = 1..Len(all)
    BY <1>2, LenProperties DEF Laid
  <2>1. CASE \E k \in DOMAIN all : symbols = RemoveAt(all, k)
    BY <1>1, <1>2, <2>0, <2>1, LostSymbol DEF frames
  <2>2. ASSUME NEW k \in DOMAIN all, NEW val \in {Sync1, MaxSize},
               symbols = [all EXCEPT ![k] = Stray(val)]
        PROVE  WellPlaced(frames, symbols)
    <3>1. val \in Int
      BY BufferAssumption DEF Sync1
    <3> QED
      BY <1>1, <1>2, <2>0, <2>2, <3>1, ChangedSymbol
  <2>3. \/ \E k \in DOMAIN all : symbols = RemoveAt(all, k)
        \/ \E k \in DOMAIN all, val \in {Sync1, MaxSize} : symbols = [all EXCEPT ![k] = Stray(val)]
    <3> DEFINE lost    == {RemoveAt(all, k) : k \in DOMAIN all}
               changed == {[all EXCEPT ![k] = Stray(val)] : k \in DOMAIN all, val \in {Sync1, MaxSize}}
    <3>1. symbols \in lost \/ symbols \in changed
      BY <1>5, SMT DEF Damaged
    <3>2. symbols \in lost => \E k \in DOMAIN all : symbols = RemoveAt(all, k)
      BY Zenon
    <3>3. symbols \in changed =>
            \E k \in DOMAIN all, val \in {Sync1, MaxSize} : symbols = [all EXCEPT ![k] = Stray(val)]
      BY SMT
    <3> HIDE DEF lost, changed
    <3> QED
      BY <3>1, <3>2, <3>3, Zenon
  <2> QED
    BY <2>1, <2>2, <2>3 DEF frames
<1> QED
  BY <1>3, <1>4, <1>5

\* Datagrams in the order of their frames.
InOrder(frames, datagrams) ==
  /\ datagrams \in Seq(Seq(SymbolsOn(frames)))
  /\ \A d \in 1..Len(datagrams) : Ordered(datagrams[d])
  /\ \A d, e \in 1..Len(datagrams) : d < e =>
       \A a \in 1..Len(datagrams[d]), b \in 1..Len(datagrams[e]) : Before(datagrams[d][a], datagrams[e][b])

OneInEach(frames, datagrams) ==
  \A d \in 1..Len(datagrams) : \E i \in 1..Len(frames) : datagrams[d] = Symbols(frames, i)

LEMMA Portions ==
  ASSUME NEW n \in Nat, NEW m \in Nat \ {0}
  PROVE  /\ n \div m \in Nat
         /\ \A d \in 1..(n \div m) : (d - 1) * m \in Nat /\ (d - 1) * m + m <= n
         /\ \A d, e \in 1..(n \div m) : d < e => (d - 1) * m + m <= (e - 1) * m
<1> DEFINE q == n \div m  r == n % m
<1>1. q \in Int /\ r \in 0..(m - 1) /\ n = m * q + r
  OBVIOUS
<1>2. n \in Int /\ m \in Int /\ m >= 1
  OBVIOUS
<1> HIDE DEF q, r
<1>3. q >= 0
  <2>1. SUFFICES ASSUME q <= -1
                 PROVE  FALSE
    BY <1>1
  <2>2. m * q <= -m
    BY <1>1, <1>2, <2>1
  <2> QED
    BY <1>1, <1>2, <2>2
<1>4. ASSUME NEW d \in 1..q
      PROVE  (d - 1) * m \in Nat /\ (d - 1) * m + m <= n
  <2>1. d \in Int /\ d - 1 >= 0 /\ q - d >= 0
    BY <1>1
  <2>2. (d - 1) * m \in Int /\ (d - 1) * m >= 0
    BY <1>2, <2>1
  <2>3. m * (q - d) >= 0 /\ m * (q - d) = m * q - m * d /\ (d - 1) * m + m = m * d
    BY <1>1, <1>2, <2>1
  <2> QED
    BY <1>1, <1>2, <2>1, <2>2, <2>3
<1>5. ASSUME NEW d \in 1..q, NEW e \in 1..q, d < e
      PROVE  (d - 1) * m + m <= (e - 1) * m
  <2>1. d \in Int /\ e \in Int /\ e - 1 - d >= 0
    BY <1>1, <1>5
  <2>2. m * (e - 1 - d) >= 0 /\ m * (e - 1 - d) = (e - 1) * m - ((d - 1) * m + m)
    BY <1>2, <2>1
  <2>3. (e - 1) * m \in Int /\ (d - 1) * m \in Int
    BY <1>2, <2>1
  <2> QED
    BY <1>2, <2>2, <2>3
<1> QED
  BY <1>1, <1>3, <1>4, <1>5 DEF q

LEMMA DatagramsAre ==
  ASSUME NEW src \in Sources, src.link = "udp"
  PROVE  /\ InOrder(src.frames, Datagrams(src))
         /\ src.perDatagram = 1 => OneInEach(src.frames, Datagrams(src))
<1> DEFINE frames == src.frames  m == src.perDatagram  all == Datagrams(src)
           count == Len(frames) \div m
           Base(d) == (d - 1) * m
           In(d) == [k \in 1..m |-> Symbols(frames, Base(d) + k)]
<1>1. frames \in Seq(Frames) /\ Len(frames) \in Nat /\ DOMAIN frames = 1..Len(frames) /\ m \in Nat \ {0}
  BY SourcesAssumption, LenProperties
<1>2. all = [d \in 1..count |-> FlattenSeq(In(d))]
  BY Zenon DEF Datagrams
<1> HIDE DEF frames, m, all
<1>3. /\ count \in Nat
      /\ \A d \in 1..count : Base(d) \in Nat /\ Base(d) + m <= Len(frames)
      /\ \A d, e \in 1..count : d < e => Base(d) + m <= Base(e)
  BY <1>1, Portions
<1> HIDE DEF count, Base
<1>4. ASSUME NEW d \in 1..count
      PROVE  Laid(frames, Base(d) + 1, Base(d) + m, all[d])
  <2>1. all[d] = FlattenSeq(In(d))
    BY <1>2, Zenon
  <2> HIDE DEF In
  <2>2. In(d) = [k \in 1..m |-> Symbols(frames, Base(d) + k)]
    BY Zenon DEF In
  <2> QED
    <3> DEFINE seqs == In(d)  base == Base(d)
    <3>1. base \in Nat /\ base + m <= Len(frames)
      BY <1>3
    <3>2. seqs = [k \in 1..m |-> Symbols(frames, base + k)]
      BY <2>2, Zenon
    <3> HIDE DEF seqs, base
    <3>3. Laid(frames, base + 1, base + m, FlattenSeq(seqs))
      BY <1>1, <3>1, <3>2, FramesLaid, Zenon
    <3> QED
      BY <2>1, <3>3, Zenon DEF seqs, base
<1>5. ASSUME NEW d \in 1..count
      PROVE  /\ all[d] \in Seq(SymbolsOn(frames))
             /\ \A a \in 1..Len(all[d]) : all[d][a].of \in (Base(d) + 1)..(Base(d) + m)
  <2>1. all[d] \in Seq(SymbolsFrom(Base(d) + 1, Base(d) + m))
    BY <1>4, Zenon DEF Laid
  <2>2. SymbolsFrom(Base(d) + 1, Base(d) + m) \subseteq SymbolsOn(frames)
    <3>1. (Base(d) + 1)..(Base(d) + m) \subseteq DOMAIN frames
      BY <1>1, <1>3
    <3> QED
      BY <3>1 DEF SymbolsFrom, SymbolsOn
  <2>3. \A s \in SymbolsFrom(Base(d) + 1, Base(d) + m) : s.of \in (Base(d) + 1)..(Base(d) + m)
    BY DEF SymbolsFrom
  <2> QED
    BY <2>1, <2>2, <2>3, SeqMonotonic, ElementOfSeq, Zenon
<1>6. Len(all) = count /\ all \in Seq(Seq(SymbolsOn(frames)))
  <2>1. all \in [1..count -> Seq(SymbolsOn(frames))]
    BY <1>2, <1>5, Zenon
  <2>2. all \in Seq(Seq(SymbolsOn(frames)))
    BY <1>3, <2>1, SeqDef
  <2>3. 1..Len(all) = 1..count /\ Len(all) \in Nat
    BY <2>1, <2>2, LenProperties, Zenon
  <2> QED
    BY <1>3, <2>2, <2>3
<1>7. InOrder(frames, all)
  <2>1. ASSUME NEW d \in 1..count, NEW e \in 1..count, d < e,
               NEW a \in 1..Len(all[d]), NEW b \in 1..Len(all[e])
        PROVE  Before(all[d][a], all[e][b])
    <3>1. all[d][a].of \in (Base(d) + 1)..(Base(d) + m) /\ all[e][b].of \in (Base(e) + 1)..(Base(e) + m)
      BY <1>5
    <3>2. Base(d) + m <= Base(e) /\ Base(d) \in Nat /\ Base(e) \in Nat
      BY <1>3, <2>1
    <3>3. all[d][a].of < all[e][b].of
      <4> DEFINE x == all[d][a].of  y == all[e][b].of  c == Base(d)  f == Base(e)
      <4>1. x \in (c + 1)..(c + m) /\ y \in (f + 1)..(f + m)
        BY <3>1
      <4>2. c + m <= f /\ c \in Nat /\ f \in Nat
        BY <3>2
      <4> HIDE DEF x, y, c, f
      <4>3. x < y
        BY <1>1, <4>1, <4>2
      <4> QED
        BY <4>3 DEF x, y
    <3> QED
      BY <3>3 DEF Before
  <2> QED
    BY <1>4, <1>6, <2>1 DEF Laid, InOrder
<1>8. ASSUME m = 1
      PROVE  OneInEach(frames, all)
  <2> SUFFICES ASSUME NEW d \in 1..count
               PROVE  \E i \in 1..Len(frames) : all[d] = Symbols(frames, i)
    BY <1>6 DEF OneInEach
  <2>1. all[d] = FlattenSeq(In(d))
    BY <1>2, Zenon
  <2> DEFINE i == Base(d) + 1
  <2>2. i \in 1..Len(frames)
    BY <1>1, <1>3, <1>8
  <2>3. In(d) \in [1..m -> Seq(SymbolsFrom(i, i))] /\ In(d)[1] = Symbols(frames, i)
    <3>1. Symbols(frames, i) \in Seq(SymbolsFrom(i, i))
      BY <1>1, <2>2, SymbolsAre
    <3> QED
      BY <1>8, <3>1
  <2> DEFINE seqs == In(d)  T == SymbolsFrom(i, i)
  <2>4. seqs \in [1..m -> Seq(T)] /\ seqs[1] = Symbols(frames, i)
    BY <2>3
  <2>5. all[d] = FlattenSeq(seqs)
    BY <2>1
  <2> HIDE DEF i, seqs, T
  <2>6. FlattenSeq(seqs) = seqs[1]
    BY <1>1, <1>8, <2>4, FlattenOne
  <2>7. all[d] = Symbols(frames, i)
    BY <2>4, <2>5, <2>6, Zenon
  <2> QED
    BY <2>2, <2>7
<1> QED
  BY <1>7, <1>8 DEF frames, m, all

\* And when one is lost.
LEMMA WiresOfDatagrams ==
  ASSUME NEW src \in Sources, src.link = "udp", NEW datagrams \in Wires(src)
  PROVE  /\ InOrder(src.frames, datagrams)
         /\ src.perDatagram = 1 => OneInEach(src.frames, datagrams)
<1> DEFINE frames == src.frames  all == Datagrams(src)  T == Seq(SymbolsOn(frames))
<1>1. InOrder(frames, all) /\ (src.perDatagram = 1 => OneInEach(frames, all))
  BY DatagramsAre
<1>2. \/ datagrams = all
      \/ \E d \in DOMAIN all : datagrams = RemoveAt(all, d)
  BY Zenon DEF Wires
<1>3. all \in Seq(T) /\ DOMAIN all = 1..Len(all) /\ Len(all) \in Nat
  BY <1>1, LenProperties DEF InOrder
<1>4. ASSUME NEW k \in DOMAIN all, datagrams = RemoveAt(all, k)
      PROVE  /\ InOrder(frames, datagrams)
             /\ src.perDatagram = 1 => OneInEach(frames, datagrams)
  <2> HIDE DEF all, T
  <2>1. /\ datagrams \in Seq(T) /\ Len(datagrams) = Len(all) - 1
        /\ \A j \in 1..(Len(all) - 1) : datagrams[j] = IF j < k THEN all[j] ELSE all[j + 1]
    BY <1>3, <1>4, RemoveAtIs
  <2>2. ASSUME NEW d \in 1..Len(datagrams)
        PROVE  \E c \in 1..Len(all) : datagrams[d] = all[c] /\ c = IF d < k THEN d ELSE d + 1
    BY <1>3, <2>1
  <2>3. \A d \in 1..Len(datagrams) : Ordered(datagrams[d])
    BY <1>1, <2>2 DEF InOrder
  <2>4. ASSUME NEW d \in 1..Len(datagrams), NEW e \in 1..Len(datagrams), d < e,
               NEW a \in 1..Len(datagrams[d]), NEW b \in 1..Len(datagrams[e])
        PROVE  Before(datagrams[d][a], datagrams[e][b])
    <3>1. PICK c \in 1..Len(all) : datagrams[d] = all[c] /\ c = IF d < k THEN d ELSE d + 1
      BY <2>2
    <3>2. PICK f \in 1..Len(all) : datagrams[e] = all[f] /\ f = IF e < k THEN e ELSE e + 1
      BY <2>2
    <3>3. c < f
      BY <1>3, <2>1, <2>4, <3>1, <3>2
    <3> QED
      BY <1>1, <3>1, <3>2, <3>3 DEF InOrder
  <2>5. OneInEach(frames, all) => OneInEach(frames, datagrams)
    BY <2>2 DEF OneInEach
  <2> QED
    BY <1>1, <2>1, <2>3, <2>4, <2>5 DEF InOrder, T
<1> QED
  BY <1>1, <1>2, <1>4

-----------------------------------------------------------------------------
(***************************************************************************)
(* The wire.                                                               *)
(***************************************************************************)

LEMMA FramesAre ==
  ASSUME source \in Sources
  PROVE  /\ source.frames \in Seq(Frames) /\ Len(source.frames) \in Nat
         /\ DOMAIN source.frames = 1..Len(source.frames)
         /\ \A i \in DOMAIN source.frames :
              source.frames[i].stamp \in Nat /\ Len(source.frames[i].payload) <= MaxSize
<1>1. /\ source.frames \in Seq(Frames)
      /\ \A i \in DOMAIN source.frames : Len(source.frames[i].payload) <= MaxSize
  BY SourcesAssumption
<1>2. Len(source.frames) \in Nat /\ DOMAIN source.frames = 1..Len(source.frames)
  BY <1>1, LenProperties
<1>3. ASSUME NEW i \in DOMAIN source.frames
      PROVE  source.frames[i].stamp \in Nat
  <2>1. source.frames[i] \in Frames
    BY <1>1, <1>2, ElementOfSeq
  <2> QED
    BY <2>1 DEF Frames
<1> QED
  BY <1>1, <1>2, <1>3

LEMMA WireIs ==
  ASSUME source \in Sources, wire \in Wires(source)
  PROVE  /\ source.frames \in Seq(Frames)
         /\ source.link # "udp" => wire \in Seq(Symbol(source))
         /\ source.link = "udp" => wire \in Seq(Seq(Symbol(source)))
         /\ Len(wire) \in Nat
<1>1. Symbol(source) = SymbolsOn(source.frames)
  BY DEF Symbol, SymbolsOn
<1>2. source.link # "udp" => wire \in Seq(SymbolsOn(source.frames))
  BY StreamsAre DEF WellPlaced
<1>3. source.link = "udp" => wire \in Seq(Seq(SymbolsOn(source.frames)))
  BY WiresOfDatagrams DEF InOrder
<1>4. Len(wire) \in Nat
  BY <1>2, <1>3, LenProperties
<1> QED
  BY <1>1, <1>2, <1>3, <1>4, SourcesAssumption

-----------------------------------------------------------------------------
(***************************************************************************)
(* The search for a frame.                                                 *)
(***************************************************************************)

Buffers == {buf \in Seq(Symbol(source)) : Len(buf) <= Capacity}

\* A frame, or what may be the beginning of one, lies in the buffer, and as much as a
\* whole frame is never kept for its beginning.
LEMMA FrameAtBounds ==
  ASSUME NEW buf \in Buffers, NEW i \in SyncBytes(buf), ParseFrame(buf, i) # "invalid"
  PROVE  /\ FrameAt(buf, i).buffer = buf
         /\ FrameAt(buf, i).discard \in 0..Len(buf)
         /\ Len(buf) - FrameAt(buf, i).discard < Capacity
         /\ FrameAt(buf, i).frame \in {0} \cup DOMAIN source.frames
<1> DEFINE last == i + SizeIn(buf[i + 2]) + Overhead - 1
<1>0. buf \in Seq(Symbol(source)) /\ Len(buf) \in Nat /\ Len(buf) <= Capacity
      /\ i \in 1..(Len(buf) - 1) /\ MaxSize \in Nat /\ Capacity \in Nat
      /\ Capacity >= MaxSize + 4
  BY BufferAssumption DEF Buffers, SyncBytes, Overhead
<1>1. i + 2 <= Len(buf) => SizeIn(buf[i + 2]) \in Nat
  <2> SUFFICES ASSUME i + 2 <= Len(buf) PROVE SizeIn(buf[i + 2]) \in Nat
    OBVIOUS
  <2>1. buf[i + 2] \in Symbol(source)
    BY <1>0, ElementOfSeq
  <2> QED BY <2>1, <1>0 DEF SizeIn, Symbol
<1>2. CASE ParseFrame(buf, i) = "not ready"
  <2>1. FrameAt(buf, i) = NotReady(buf, i - 1)
    BY <1>2 DEF FrameAt
  <2>2. Len(buf) - i + 1 < MaxSize + 4
    <3>1. CASE i + 2 > Len(buf)
      BY <3>1, <1>0
    <3>2. CASE i + 2 <= Len(buf)
      <4>1. SizeIn(buf[i + 2]) <= MaxSize /\ last > Len(buf)
        BY <1>2, <3>2, <1>1, <1>0 DEF ParseFrame
      <4> QED BY <4>1, <1>1, <3>2, <1>0 DEF Overhead
    <3> QED BY <3>1, <3>2, <1>0
  <2> QED BY <2>1, <2>2, <1>0 DEF NotReady
<1>3. CASE ParseFrame(buf, i) = "frame"
  <2>1. /\ i + 2 <= Len(buf) /\ last <= Len(buf)
        /\ buf[i].of # 0
        /\ SubSeq(buf, i, last) = Symbols(source.frames, buf[i].of)
    <3>1. i + 2 <= Len(buf)
      BY <1>3, <1>0 DEF ParseFrame
    <3>2. SizeIn(buf[i + 2]) <= MaxSize
      BY <1>3, <3>1, <1>1, <1>0 DEF ParseFrame
    <3>3. last <= Len(buf)
      BY <1>3, <3>1, <3>2, <1>1, <1>0 DEF ParseFrame, Overhead
    <3>4. ParseFrame(buf, i) =
            IF buf[i].of # 0 /\ SubSeq(buf, i, last) = Symbols(source.frames, buf[i].of)
              THEN "frame" ELSE "invalid"
      <4>1. ~(i + 2 > Len(buf)) /\ ~(SizeIn(buf[i + 2]) > MaxSize) /\ ~(last > Len(buf))
        BY <3>1, <3>2, <3>3, <1>1, <1>0 DEF Overhead
      <4> QED BY <4>1 DEF ParseFrame
    <3> HIDE DEF last
    <3> QED BY <1>3, <3>1, <3>3, <3>4
  <2>2. last \in Int /\ last >= i + 3
    BY <2>1, <1>1, <1>0 DEF Overhead
  <2>3. Len(Symbols(source.frames, buf[i].of)) = last - i + 1
    <3>1. \A k \in i..last : buf[k] \in Symbol(source)
      BY <2>1, <2>2, <1>0, ElementOfSeq
    <3> HIDE DEF last
    <3>2. i \in Int /\ last \in Int
      BY <2>2, <1>0
    <3>3. Len(SubSeq(buf, i, last)) = IF i <= last THEN last - i + 1 ELSE 0
      BY <3>1, <3>2, SubSeqProperties
    <3> QED BY <3>2, <3>3, <2>1, <2>2
  <2>4. buf[i].of \in {0} \cup DOMAIN source.frames
    <3>1. buf[i] \in Symbol(source)
      BY <1>0, ElementOfSeq
    <3> QED BY <3>1 DEF Symbol
  <2>5. FrameAt(buf, i) = [buffer |-> buf, discard |-> i - 1 + (last - i + 1), frame |-> buf[i].of]
    BY <1>3, <2>3 DEF FrameAt
  <2> HIDE DEF last
  <2> QED BY <2>1, <2>2, <2>4, <2>5, <1>0
<1>4. ParseFrame(buf, i) \in {"not ready", "invalid", "frame"}
  BY <1>0, <1>1 DEF ParseFrame
<1> QED BY <1>2, <1>3, <1>4

\* After the search the buffer can take at least one symbol more, and what is given up
\* was in it.
LEMMA FindFrameBounds ==
  ASSUME NEW buf \in Buffers
  PROVE  LET found == FindFrame(buf)
         IN /\ found.buffer \in Buffers
            /\ found.discard \in 0..Len(found.buffer)
            /\ Len(found.buffer) - found.discard < Capacity
            /\ found.frame \in {0} \cup DOMAIN source.frames
<1> DEFINE valid == {i \in SyncBytes(buf) : ParseFrame(buf, i) # "invalid"}
<1>0. Len(buf) \in Nat /\ Len(buf) <= Capacity /\ Capacity \in Nat /\ Capacity >= 4
  BY BufferAssumption DEF Buffers, Overhead
<1>1. CASE valid # {}
  <2>1. valid \subseteq 1..Len(buf)
    BY <1>0 DEF SyncBytes
  <2>2. Min(valid) \in valid
    <3> HIDE DEF valid
    <3> QED BY <1>0, <1>1, <2>1, MinIsIn
  <2>3. FindFrame(buf) = FrameAt(buf, Min(valid))
    BY <1>1 DEF FindFrame
  <2>4. /\ FrameAt(buf, Min(valid)).buffer = buf
        /\ FrameAt(buf, Min(valid)).discard \in 0..Len(buf)
        /\ Len(buf) - FrameAt(buf, Min(valid)).discard < Capacity
        /\ FrameAt(buf, Min(valid)).frame \in {0} \cup DOMAIN source.frames
    BY <2>2, FrameAtBounds
  <2> QED BY <2>3, <2>4
<1>2. CASE valid = {}
  <2>1. FindFrame(buf) \in {NotReady(buf, Len(buf) - 1), NotReady(<<>>, 0)}
        /\ (FindFrame(buf) = NotReady(buf, Len(buf) - 1)
              => buf # <<>> \/ NotReady(buf, Len(buf) - 1) = NotReady(<<>>, 0))
    BY <1>2 DEF FindFrame
  <2>2. CASE FindFrame(buf) = NotReady(<<>>, 0)
    <3>1. <<>> \in Buffers /\ Len(<<>>) = 0
      BY <1>0, EmptySeq DEF Buffers
    <3> QED BY <2>2, <3>1, <1>0 DEF NotReady
  <2>3. CASE FindFrame(buf) = NotReady(buf, Len(buf) - 1) /\ buf # <<>>
    <3>1. Len(buf) > 0
      BY <1>0, <2>3, EmptySeq DEF Buffers
    <3> QED BY <2>3, <3>1, <1>0 DEF NotReady
  <2> QED BY <2>1, <2>2, <2>3
<1> QED BY <1>1, <1>2

-----------------------------------------------------------------------------
(***************************************************************************)
(* The invariant: what is on the wire and in the buffer are symbols of the *)
(* source, and what was found are its frames.                              *)
(***************************************************************************)

LinkInv ==
  /\ source \in Sources /\ wire \in Wires(source)
  /\ taken \in 0..arrived /\ arrived \in 0..Len(wire)

BufferInv ==
  /\ rxBuffer \in Buffers
  /\ discardSize \in 0..Len(rxBuffer)
  /\ Len(rxBuffer) - discardSize < Capacity

FramesInv ==
  /\ received \in Seq(DOMAIN source.frames) /\ ignored \in 0..Len(received)
  /\ published \in Seq(DOMAIN source.frames)

ReplayInv == log_replay_last_timestamp_ \in Nat /\ slept \in Nat

StreamInv ==
  /\ LinkInv /\ BufferInv /\ FramesInv /\ ReplayInv
  /\ phase \in {"configure", "handle", "spin"}

\* What is read fits in the room there is, and had arrived.
LEMMA ReadBounds ==
  ASSUME LinkInv, NEW room \in Nat
  PROVE  /\ Read(room).symbols \in Seq(Symbol(source))
         /\ Len(Read(room).symbols) <= room
         /\ Read(room).taken \in taken..arrived
<1> DEFINE count == Min({room, arrived - taken})
<1>0. /\ taken \in Nat /\ arrived \in Nat /\ taken <= arrived
      /\ Len(wire) \in Nat /\ arrived <= Len(wire)
      /\ arrived - taken \in Nat
  <2>2. Len(wire) \in Nat
    BY WireIs DEF LinkInv
  <2> QED BY <2>2 DEF LinkInv
<1>1. count \in Nat /\ count <= room /\ count <= arrived - taken
  BY <1>0, MinOfTwo
<1> HIDE DEF count
<1>2. CASE source.link # "udp"
  <2>1. Read(room) = [symbols |-> SubSeq(wire, taken + 1, taken + count), taken |-> taken + count]
    BY <1>2 DEF Read, count
  <2> DEFINE first == taken + 1
             final == taken + count
  <2>2. first \in Int /\ final \in Int /\ \A k \in first..final : wire[k] \in Symbol(source)
    <3>1. wire \in Seq(Symbol(source))
      BY <1>2, WireIs DEF LinkInv
    <3> QED BY <3>1, <1>0, <1>1, ElementOfSeq
  <2>3. (IF first <= final THEN final - first + 1 ELSE 0) = count
    BY <1>0, <1>1
  <2>4. Read(room) = [symbols |-> SubSeq(wire, first, final), taken |-> final]
    BY <2>1
  <2>5. final \in taken..arrived
    BY <1>0, <1>1
  <2> HIDE DEF first, final
  <2>6. SubSeq(wire, first, final) \in Seq(Symbol(source)) /\ Len(SubSeq(wire, first, final)) = count
    BY <2>2, <2>3, SubSeqProperties
  <2> QED BY <2>4, <2>5, <2>6, <1>1
<1>3. CASE source.link = "udp" /\ count = 0
  <2>1. Read(room) = [symbols |-> <<>>, taken |-> taken]
    BY <1>3 DEF Read, count
  <2>2. <<>> \in Seq(Symbol(source)) /\ Len(<<>>) = 0
    BY EmptySeq
  <2> QED BY <2>1, <2>2, <1>0
<1>4. CASE source.link = "udp" /\ count # 0
  <2> DEFINE datagram == wire[taken + 1]
             most     == Min({room, Len(datagram)})
  <2>1. Read(room) = [symbols |-> SubSeq(datagram, 1, most), taken |-> taken + 1]
    BY <1>4 DEF Read, count
  <2>2. datagram \in Seq(Symbol(source))
    <3>1. wire \in Seq(Seq(Symbol(source)))
      BY <1>4, WireIs DEF LinkInv
    <3>2. taken + 1 \in 1..Len(wire)
      BY <1>0, <1>1, <1>4
    <3> QED BY <3>1, <3>2, ElementOfSeq
  <2> HIDE DEF datagram
  <2>3. Len(datagram) \in Nat
    BY <2>2, LenProperties
  <2>4. most \in Nat /\ most <= room /\ most <= Len(datagram)
    BY <2>3, MinOfTwo
  <2> HIDE DEF most
  <2>5. /\ SubSeq(datagram, 1, most) \in Seq(Symbol(source))
        /\ Len(SubSeq(datagram, 1, most)) = IF 1 <= most THEN most - 1 + 1 ELSE 0
    <3>1. \A k \in 1..most : datagram[k] \in Symbol(source)
      BY <2>2, <2>3, <2>4, ElementOfSeq
    <3>2. 1 \in Int /\ most \in Int
      BY <2>4
    <3> QED BY <3>1, <3>2, SubSeqProperties
  <2> QED BY <2>1, <2>4, <2>5, <1>0, <1>1, <1>4
<1> QED BY <1>2, <1>3, <1>4

\* One call of sbgEComProtocolReceive2: a frame is looked for in what was kept and read.
LEMMA Receive2Is ==
  ASSUME LinkInv, BufferInv, NEW result \in Receive2
  PROVE  LET room   == Capacity - Len(AfterDiscard)
             buffer == AfterDiscard \o Read(room).symbols
         IN /\ AfterDiscard \in Seq(Symbol(source)) /\ room \in Nat
            /\ buffer \in Buffers
            /\ result.taken = Read(room).taken /\ result.found = FindFrame(buffer)
<1> DEFINE room   == Capacity - Len(AfterDiscard)
           buffer == AfterDiscard \o Read(room).symbols
<1>1. /\ AfterDiscard \in Seq(Symbol(source))
      /\ Len(AfterDiscard) \in Nat /\ Len(AfterDiscard) <= Capacity
  <2>1. rxBuffer \in Seq(Symbol(source)) /\ Len(rxBuffer) \in Nat /\ Len(rxBuffer) <= Capacity
        /\ discardSize \in 0..Len(rxBuffer)
    BY LenProperties DEF BufferInv, Buffers
  <2>2. \A k \in (discardSize + 1)..Len(rxBuffer) : rxBuffer[k] \in Symbol(source)
    BY <2>1, ElementOfSeq
  <2>3. discardSize + 1 \in Int /\ Len(rxBuffer) \in Int
    BY <2>1
  <2>4. /\ SubSeq(rxBuffer, discardSize + 1, Len(rxBuffer)) \in Seq(Symbol(source))
        /\ Len(SubSeq(rxBuffer, discardSize + 1, Len(rxBuffer)))
             = IF discardSize + 1 <= Len(rxBuffer) THEN Len(rxBuffer) - (discardSize + 1) + 1 ELSE 0
    BY <2>2, <2>3, SubSeqProperties
  <2>5. Capacity \in Nat
    BY BufferAssumption
  <2> QED BY <2>1, <2>4, <2>5 DEF AfterDiscard
<1>2. room \in Nat
  BY <1>1, BufferAssumption
<1>3. /\ Read(room).symbols \in Seq(Symbol(source))
      /\ Len(Read(room).symbols) <= room
      /\ Read(room).taken \in taken..arrived
  BY <1>2, ReadBounds
<1>4. buffer \in Buffers
  <2>1. /\ buffer \in Seq(Symbol(source))
        /\ Len(buffer) = Len(AfterDiscard) + Len(Read(room).symbols)
    BY <1>1, <1>3, ConcatProperties
  <2>2. Len(Read(room).symbols) \in Nat
    BY <1>3, LenProperties
  <2> QED BY <2>1, <2>2, <1>1, <1>3, BufferAssumption DEF Buffers
<1>5. result.taken = Read(room).taken /\ result.found = FindFrame(buffer)
  <2>1. PICK filled \in Refilled :
          result = [taken |-> filled.taken, found |-> FindFrame(filled.buffer)]
    BY Zenon DEF Receive2
  <2>2. filled = [buffer |-> buffer, taken |-> Read(room).taken]
    BY Zenon DEF Refilled
  <2>3. filled.buffer = buffer /\ filled.taken = Read(room).taken
    <3> HIDE DEF buffer, room
    <3> QED BY <2>2
  <2> HIDE DEF buffer, room
  <2>4. result.taken = filled.taken /\ result.found = FindFrame(filled.buffer)
    BY <2>1
  <2> QED BY <2>3, <2>4
<1> QED BY <1>1, <1>2, <1>4, <1>5

LEMMA Receive2Bounds ==
  ASSUME LinkInv, BufferInv, NEW result \in Receive2
  PROVE  /\ result.taken \in taken..arrived
         /\ result.found.buffer \in Buffers
         /\ result.found.discard \in 0..Len(result.found.buffer)
         /\ Len(result.found.buffer) - result.found.discard < Capacity
         /\ result.found.frame \in {0} \cup DOMAIN source.frames
<1> DEFINE room   == Capacity - Len(AfterDiscard)
           buffer == AfterDiscard \o Read(room).symbols
<1>1. /\ room \in Nat /\ buffer \in Buffers
      /\ result.taken = Read(room).taken /\ result.found = FindFrame(buffer)
  BY Receive2Is
<1> HIDE DEF room, buffer
<1>2. Read(room).taken \in taken..arrived
  BY <1>1, ReadBounds
<1> QED BY <1>1, <1>2, FindFrameBounds

\* What a call leaves behind.
LEMMA ReadsKeeps ==
  ASSUME StreamInv, NEW result \in Receive2, Reads(result), UNCHANGED linkVars
  PROVE  /\ LinkInv' /\ BufferInv'
         /\ received' \in Seq(DOMAIN source.frames)
         /\ Len(received) <= Len(received') /\ Len(received') \in Nat
         /\ result.found.frame \in {0} \cup DOMAIN source.frames
<1>1. /\ result.taken \in taken..arrived
      /\ result.found.buffer \in Buffers
      /\ result.found.discard \in 0..Len(result.found.buffer)
      /\ Len(result.found.buffer) - result.found.discard < Capacity
      /\ result.found.frame \in {0} \cup DOMAIN source.frames
  BY Receive2Bounds DEF StreamInv
<1>2. LinkInv'
  BY <1>1 DEF StreamInv, LinkInv, Reads, linkVars
<1>3. BufferInv'
  <2>1. Buffers' = Buffers
    BY DEF Buffers, linkVars
  <2> QED BY <1>1, <2>1 DEF BufferInv, Reads
<1>4. /\ received' \in Seq(DOMAIN source.frames)
      /\ Len(received) <= Len(received') /\ Len(received') \in Nat
  <2>1. received \in Seq(DOMAIN source.frames) /\ Len(received) \in Nat
    BY LenProperties DEF StreamInv, FramesInv
  <2>2. CASE result.found.frame = 0
    BY <2>1, <2>2 DEF Reads
  <2>3. CASE result.found.frame # 0
    <3>1. received' = Append(received, result.found.frame) /\ result.found.frame \in DOMAIN source.frames
      BY <1>1, <2>3 DEF Reads
    <3>2. /\ Append(received, result.found.frame) \in Seq(DOMAIN source.frames)
          /\ Len(Append(received, result.found.frame)) = Len(received) + 1
      BY <2>1, <3>1, AppendProperties
    <3> QED BY <2>1, <3>1, <3>2
  <2> QED BY <2>2, <2>3
<1> QED BY <1>1, <1>2, <1>3, <1>4

\* Logs that are published keep the replay's numbers.
LEMMA LogKeeps ==
  ASSUME StreamInv, NEW i \in DOMAIN source.frames, IsLog(i), onLogReceived(i)
  PROVE  published' \in Seq(DOMAIN source.frames) /\ ReplayInv'
<1>1. published' \in Seq(DOMAIN source.frames)
  BY AppendProperties DEF StreamInv, FramesInv, onLogReceived
<1>2. getTimestamp(source.frames[i]) \subseteq Nat
  <2>1. source.frames[i].kind \in {"log", "raw", "unknown"} /\ source.frames[i].stamp \in Nat
        /\ Stamps \subseteq Nat
    BY SourcesAssumption, FramesAre DEF IsLog, StreamInv, LinkInv
  <2> QED BY <2>1 DEF getTimestamp
<1>3. ReplayInv'
  <2>1. CASE source.link # "file"
    BY <2>1 DEF onLogReceived, ReplayInv, StreamInv
  <2>2. CASE source.link = "file"
    <3>1. PICK timestamp \in getTimestamp(source.frames[i]) :
            IF timestamp > log_replay_last_timestamp_
              THEN /\ slept' = IF log_replay_last_timestamp_ # 0
                                 THEN slept + timestamp - log_replay_last_timestamp_ ELSE slept
                   /\ log_replay_last_timestamp_' = timestamp
              ELSE UNCHANGED <<log_replay_last_timestamp_, slept>>
      BY <2>2 DEF onLogReceived
    <3>2. timestamp \in Nat
      BY <1>2
    <3> QED BY <3>1, <3>2 DEF ReplayInv, StreamInv
  <2> QED BY <2>1, <2>2
<1> QED BY <1>1, <1>3

LEMMA InitStream == Init => StreamInv
<1> SUFFICES ASSUME Init PROVE StreamInv
  OBVIOUS
<1>1. LinkInv
  <2>2. Len(wire) \in Nat
    BY WireIs DEF Init
  <2> QED BY <2>2 DEF Init, LinkInv
<1>2. BufferInv
  <2>1. <<>> \in Seq(Symbol(source)) /\ Len(<<>>) = 0
    BY EmptySeq
  <2> QED BY <2>1, BufferAssumption DEF Init, BufferInv, Buffers, Overhead
<1>3. FramesInv
  <2>1. <<>> \in Seq(DOMAIN source.frames) /\ Len(<<>>) = 0
    BY EmptySeq
  <2> QED BY <2>1 DEF Init, FramesInv
<1> QED BY <1>1, <1>2, <1>3 DEF Init, StreamInv, ReplayInv

LEMMA StepStream == StreamInv /\ [Next]_vars => StreamInv'
<1> SUFFICES ASSUME StreamInv, [Next]_vars PROVE StreamInv'
  OBVIOUS
<1>1. CASE ReceiveAnyCmd
  <2>1. PICK result \in Receive2 : Reads(result)
    BY <1>1 DEF ReceiveAnyCmd
  <2>2. UNCHANGED linkVars /\ UNCHANGED replayVars /\ phase' = phase /\ ignored' = Len(received')
    BY <1>1 DEF ReceiveAnyCmd
  <2>3. LinkInv' /\ BufferInv' /\ received' \in Seq(DOMAIN source.frames) /\ Len(received') \in Nat
    BY <2>1, <2>2, ReadsKeeps
  <2>4. FramesInv'
    BY <2>2, <2>3 DEF StreamInv, FramesInv, linkVars, replayVars
  <2> QED BY <2>2, <2>3, <2>4 DEF StreamInv, ReplayInv, replayVars
<1>2. CASE HandleOneLog
  <2>1. PICK result \in Receive2 :
          /\ Reads(result)
          /\ phase' \in {"spin", "handle"}
          /\ IF result.found.frame # 0 /\ IsLog(result.found.frame)
               THEN onLogReceived(result.found.frame) ELSE UNCHANGED replayVars
    BY <1>2 DEF HandleOneLog
  <2>2. UNCHANGED linkVars /\ ignored' = ignored
    BY <1>2 DEF HandleOneLog
  <2>3. /\ LinkInv' /\ BufferInv' /\ received' \in Seq(DOMAIN source.frames)
        /\ Len(received) <= Len(received') /\ Len(received') \in Nat
        /\ result.found.frame \in {0} \cup DOMAIN source.frames
    BY <2>1, <2>2, ReadsKeeps
  <2>4. published' \in Seq(DOMAIN source.frames) /\ ReplayInv'
    <3>1. CASE result.found.frame # 0 /\ IsLog(result.found.frame)
      BY <2>1, <2>3, <3>1, LogKeeps
    <3>2. CASE ~(result.found.frame # 0 /\ IsLog(result.found.frame))
      BY <2>1, <3>2 DEF StreamInv, FramesInv, ReplayInv, replayVars
    <3> QED BY <3>1, <3>2
  <2>5. FramesInv'
    <3>1. ignored \in 0..Len(received) /\ Len(received) \in Nat
      BY LenProperties DEF StreamInv, FramesInv
    <3> QED BY <2>2, <2>3, <2>4, <3>1 DEF FramesInv, linkVars
  <2> QED BY <2>1, <2>3, <2>4, <2>5 DEF StreamInv
<1>3. CASE SetReceiveLogCallback \/ Spin
  BY <1>3 DEF SetReceiveLogCallback, Spin, StreamInv, LinkInv, BufferInv, Buffers, FramesInv, ReplayInv,
              linkVars, readerVars, replayVars
<1>4. CASE Arrive
  <2>1. arrived < Len(wire) /\ arrived' = arrived + 1
        /\ UNCHANGED <<source, wire, readerVars, phase, ignored, replayVars>>
    BY <1>4 DEF Arrive
  <2>2. LinkInv'
    <3>2. Len(wire) \in Nat
      BY WireIs DEF StreamInv, LinkInv
    <3> QED BY <2>1, <3>2 DEF StreamInv, LinkInv, readerVars
  <2> QED BY <2>1, <2>2 DEF StreamInv, BufferInv, Buffers, FramesInv, ReplayInv, readerVars, replayVars
<1>5. CASE UNCHANGED vars
  BY <1>5 DEF vars, StreamInv, LinkInv, BufferInv, Buffers, FramesInv, ReplayInv,
              linkVars, readerVars, replayVars
<1> QED BY <1>1, <1>2, <1>3, <1>4, <1>5 DEF Next

\* For any frames, damage, sizes and order of steps: what is in the reception buffer
\* fits in it, no more is given up than it holds, and there is always room to read on;
\* what is found and published are frames of the source.
THEOREM TypeCorrect == Spec => []StreamTypeOK
<1>1. StreamInv => StreamTypeOK
  <2> SUFFICES ASSUME StreamInv PROVE StreamTypeOK
    OBVIOUS
  <2>1. ToSet(received) \subseteq DOMAIN source.frames /\ ToSet(published) \subseteq DOMAIN source.frames
    BY ElementOfSeq, LenProperties DEF StreamInv, FramesInv, ToSet
  <2> QED BY <2>1 DEF StreamInv, StreamTypeOK, LinkInv, BufferInv, Buffers, FramesInv, ReplayInv
<1> QED BY <1>1, InitStream, StepStream, PTL DEF Spec

-----------------------------------------------------------------------------
(***************************************************************************)
(* The pace of a replay.                                                   *)
(***************************************************************************)

StampAt(k) == source.frames[published[k]].stamp

Stamped == {k \in DOMAIN published : source.frames[published[k]].kind = "log" /\ StampAt(k) # 0}

Steady ==
  /\ \A k \in DOMAIN published : source.frames[published[k]].kind # "unknown"
  /\ \A j, k \in Stamped : j < k => StampAt(j) <= StampAt(k)

\* The last stamp kept is that of the last stamped log.
PaceInv ==
  (source.link = "file" /\ Steady) =>
    \/ Stamped = {} /\ log_replay_last_timestamp_ = 0 /\ slept = 0
    \/ \E f, l \in Stamped :
         /\ \A k \in Stamped : f <= k /\ k <= l
         /\ log_replay_last_timestamp_ = StampAt(l)
         /\ slept = StampAt(l) - StampAt(f)

LEMMA LogKeepsPace ==
  ASSUME StreamInv, PaceInv, NEW i \in DOMAIN source.frames, IsLog(i), onLogReceived(i), source' = source
  PROVE  PaceInv'
<1>0. PICK n \in Nat : n = Len(published)
  BY LenProperties DEF StreamInv, FramesInv
<1> DEFINE stamp == source.frames[i].stamp  kind == source.frames[i].kind
           last == log_replay_last_timestamp_
<1> SUFFICES ASSUME source.link = "file", Steady'
             PROVE  \/ Stamped' = {} /\ last' = 0 /\ slept' = 0
                    \/ \E f, l \in Stamped' :
                         /\ \A k \in Stamped' : f <= k /\ k <= l
                         /\ last' = StampAt(l)'
                         /\ slept' = StampAt(l)' - StampAt(f)'
  BY DEF PaceInv
<1>1. published \in Seq(DOMAIN source.frames) /\ DOMAIN published = 1..n /\ n \in Nat
  BY <1>0, LenProperties DEF StreamInv, FramesInv
<1>2. stamp \in Nat /\ kind \in {"log", "raw", "unknown"} /\ last \in Nat /\ slept \in Nat
  BY FramesAre DEF IsLog, StreamInv, LinkInv, ReplayInv
<1>3. /\ DOMAIN published' = 1..(n + 1)
      /\ published'[n + 1] = i
      /\ \A k \in 1..n : published'[k] = published[k]
  <2>1. published' = Append(published, i)
    BY DEF onLogReceived
  <2>2. /\ published' \in Seq(DOMAIN source.frames) /\ Len(published') = n + 1
        /\ published'[n + 1] = i
        /\ \A k \in 1..n : published'[k] = published[k]
    BY <1>1, <2>1, AppendProperties
  <2> QED
    BY <2>2, LenProperties
<1> HIDE DEF stamp, kind, last
<1>4. /\ StampAt(n + 1)' = stamp
      /\ \A k \in 1..n : StampAt(k)' = StampAt(k) /\ StampAt(k) \in Nat
  <2>1. \A k \in 1..n : StampAt(k) \in Nat
    BY <1>1, ElementOfSeq, FramesAre DEF StampAt, StreamInv, LinkInv
  <2> QED
    BY <1>3, <2>1 DEF StampAt, stamp
<1>5. Stamped' = Stamped \cup (IF kind = "log" /\ stamp # 0 THEN {n + 1} ELSE {})
  <2>1. \A k \in 1..n : k \in Stamped' <=> k \in Stamped
    BY <1>1, <1>3, <1>4 DEF Stamped
  <2>2. n + 1 \in Stamped' <=> kind = "log" /\ stamp # 0
    BY <1>1, <1>3, <1>4 DEF Stamped, kind
  <2>3. Stamped \subseteq 1..n /\ Stamped' \subseteq 1..(n + 1) /\ n + 1 \notin 1..n
        /\ 1..(n + 1) = 1..n \cup {n + 1}
    BY <1>1, <1>3 DEF Stamped
  <2> QED
    BY <2>1, <2>2, <2>3
<1>6. Stamped \subseteq 1..n
  BY <1>1 DEF Stamped
<1>7. Steady /\ kind # "unknown"
  <2>1. \A k \in 1..n : source.frames[published[k]].kind # "unknown"
    BY <1>1, <1>3 DEF Steady
  <2>2. kind # "unknown"
    BY <1>1, <1>3 DEF Steady, kind
  <2>3. \A j, k \in Stamped : j < k => StampAt(j) <= StampAt(k)
    BY <1>4, <1>5, <1>6 DEF Steady
  <2> QED
    BY <1>1, <2>1, <2>2, <2>3 DEF Steady
<1>8. \/ Stamped = {} /\ last = 0 /\ slept = 0
      \/ \E f, l \in Stamped :
           /\ \A k \in Stamped : f <= k /\ k <= l
           /\ last = StampAt(l)
           /\ slept = StampAt(l) - StampAt(f)
  BY <1>7 DEF PaceInv, last
<1>9. CASE ~(kind = "log" /\ stamp # 0)
  <2>1. Stamped' = Stamped /\ \A k \in Stamped : StampAt(k)' = StampAt(k)
    BY <1>4, <1>5, <1>6, <1>9
  <2>2. last' = last /\ slept' = slept
    <3>1. getTimestamp(source.frames[i]) = {0}
      BY <1>2, <1>7, <1>9 DEF getTimestamp, kind, stamp
    <3> QED
      BY <1>2, <3>1 DEF onLogReceived, last
  <2> QED
    BY <1>8, <2>1, <2>2
<1>10. CASE kind = "log" /\ stamp # 0
  <2>1. Stamped' = Stamped \cup {n + 1} /\ \A k \in Stamped : k <= n + 1 /\ StampAt(k)' = StampAt(k)
    BY <1>1, <1>4, <1>5, <1>6, <1>10
  <2>2. IF stamp > last
          THEN slept' = (IF last # 0 THEN slept + stamp - last ELSE slept) /\ last' = stamp
          ELSE last' = last /\ slept' = slept
    <3>1. getTimestamp(source.frames[i]) = {stamp}
      BY <1>10 DEF getTimestamp, kind, stamp
    <3> QED
      BY <3>1 DEF onLogReceived, last
  <2>3. CASE Stamped = {} /\ last = 0 /\ slept = 0
    <3>1. last' = stamp /\ slept' = 0
      BY <1>2, <1>10, <2>2, <2>3
    <3>2. Stamped' = {n + 1} /\ n + 1 <= n + 1 /\ 0 = stamp - stamp
      BY <1>1, <1>2, <2>1, <2>3
    <3> QED
      BY <1>4, <3>1, <3>2
  <2>4. ASSUME NEW f \in Stamped, NEW l \in Stamped,
               \A k \in Stamped : f <= k /\ k <= l,
               last = StampAt(l), slept = StampAt(l) - StampAt(f)
        PROVE  \E b, e \in Stamped' :
                 /\ \A k \in Stamped' : b <= k /\ k <= e
                 /\ last' = StampAt(e)'
                 /\ slept' = StampAt(e)' - StampAt(b)'
    <3>1. last <= stamp /\ last # 0
      <4>1. l \in Stamped' /\ n + 1 \in Stamped' /\ l < n + 1
        BY <1>1, <1>6, <2>1
      <4>2. StampAt(l)' <= StampAt(n + 1)'
        BY <4>1 DEF Steady
      <4>3. StampAt(l) # 0
        BY DEF Stamped
      <4> QED
        BY <1>4, <2>1, <2>4, <4>2, <4>3
    <3>2. last' = stamp /\ slept' = stamp - StampAt(f)
      <4>1. StampAt(f) \in Nat
        BY <1>4, <1>6
      <4> QED
        BY <1>2, <2>2, <2>4, <3>1, <4>1
    <3>3. \A k \in Stamped' : f <= k /\ k <= n + 1
      BY <1>1, <1>6, <2>1, <2>4
    <3>4. f \in Stamped' /\ n + 1 \in Stamped' /\ StampAt(f)' = StampAt(f)
      BY <2>1
    <3> QED
      BY <1>4, <3>2, <3>3, <3>4
  <2> QED
    BY <1>8, <2>3, <2>4 DEF last
<1> QED
  BY <1>9, <1>10 DEF last

-----------------------------------------------------------------------------
(***************************************************************************)
(* What the search keeps.                                                  *)
(***************************************************************************)

\* The symbols of a frame of the source.
LEMMA FrameSymbols ==
  ASSUME source \in Sources, NEW i \in DOMAIN source.frames
  PROVE  LET S == Symbols(source.frames, i)
         IN /\ i \in Nat /\ i # 0
            /\ Len(S) \in Nat /\ Len(S) >= 4 /\ Len(S) <= MaxSize + Overhead
            /\ \A j \in 1..Len(S) : S[j] \in Symbol(source) /\ S[j].of = i /\ S[j].at = j
            /\ 1 \in 1..Len(S) /\ S[1].val = Sync1
<1> DEFINE S == Symbols(source.frames, i)  size == Len(source.frames[i].payload)
<1>1. i \in 1..Len(source.frames) /\ source.frames \in Seq(Frames) /\ size <= MaxSize
      /\ Len(source.frames) \in Nat
  BY FramesAre
<1>2. /\ S \in Seq(SymbolsFrom(i, i)) /\ size \in Nat /\ Len(S) = size + Overhead
      /\ \A j \in 1..Len(S) : S[j].of = i /\ S[j].at = j
      /\ S[1].val = Sync1
  BY <1>1, SymbolsAre
<1> HIDE DEF S, size
<1>3. i \in Nat /\ i # 0
  BY <1>1
<1>4. Len(S) \in Nat /\ Len(S) >= 4 /\ Len(S) <= MaxSize + Overhead /\ 1 \in 1..Len(S)
  BY <1>1, <1>2, BufferAssumption DEF Overhead
<1>5. \A j \in 1..Len(S) : S[j] \in Symbol(source)
  <2>1. SymbolsFrom(i, i) \subseteq Symbol(source)
    BY <1>1 DEF SymbolsFrom, Symbol
  <2>2. \A j \in 1..Len(S) : S[j] \in SymbolsFrom(i, i)
    BY <1>2, ElementOfSeq
  <2> QED
    BY <2>1, <2>2
<1> QED
  BY <1>2, <1>3, <1>4, <1>5 DEF S

\* What of the i-th frame fits is in the buffer, after p symbols.
StartsIn(buf, p, i) ==
  /\ p \in Nat /\ p < Len(buf)
  /\ \A j \in 1..Len(Symbols(source.frames, i)) :
       p + j <= Len(buf) => buf[p + j] = Symbols(source.frames, i)[j]

LastOf(buf, i) == i + SizeIn(buf[i + 2]) + Overhead - 1

\* The outcomes of sbgEComProtocolParseFrame.
LEMMA ParseCases ==
  ASSUME NEW buf \in Buffers, NEW i \in 1..Len(buf)
  PROVE  /\ i + 2 > Len(buf) => ParseFrame(buf, i) = "not ready"
         /\ i + 2 <= Len(buf) =>
              /\ SizeIn(buf[i + 2]) \in Nat
              /\ SizeIn(buf[i + 2]) > MaxSize => ParseFrame(buf, i) = "invalid"
              /\ SizeIn(buf[i + 2]) <= MaxSize /\ LastOf(buf, i) > Len(buf)
                   => ParseFrame(buf, i) = "not ready"
              /\ SizeIn(buf[i + 2]) <= MaxSize /\ LastOf(buf, i) <= Len(buf)
                   => ParseFrame(buf, i)
                        = IF buf[i].of # 0
                             /\ SubSeq(buf, i, LastOf(buf, i)) = Symbols(source.frames, buf[i].of)
                            THEN "frame" ELSE "invalid"
         /\ buf[i].of \in {0} \cup DOMAIN source.frames
<1>1. buf \in Seq(Symbol(source)) /\ Len(buf) \in Nat /\ i \in Nat /\ MaxSize \in Nat
  BY BufferAssumption, LenProperties DEF Buffers
<1>2. buf[i].of \in {0} \cup DOMAIN source.frames
  <2>1. buf[i] \in Symbol(source)
    BY <1>1, ElementOfSeq
  <2> QED
    BY <2>1 DEF Symbol
<1>3. ASSUME i + 2 <= Len(buf)
      PROVE  SizeIn(buf[i + 2]) \in Nat
  <2>1. i + 2 \in 1..Len(buf)
    BY <1>1, <1>3
  <2>2. buf[i + 2] \in Symbol(source)
    BY <1>1, <2>1, ElementOfSeq
  <2>3. buf[i + 2].val \in Int
    BY <2>2 DEF Symbol
  <2> QED
    BY <1>1, <2>3 DEF SizeIn
<1> DEFINE size == SizeIn(buf[i + 2])  last == LastOf(buf, i)
           parsed == IF buf[i].of # 0 /\ SubSeq(buf, i, last) = Symbols(source.frames, buf[i].of)
                       THEN "frame" ELSE "invalid"
<1>4. ParseFrame(buf, i) =
        IF i + 2 > Len(buf) THEN "not ready"
        ELSE IF size > MaxSize THEN "invalid"
        ELSE IF last > Len(buf) THEN "not ready" ELSE parsed
  BY Zenon DEF ParseFrame, LastOf
<1>5. i + 2 <= Len(buf) => last \in Int
  BY <1>1, <1>3 DEF LastOf, Overhead
<1> HIDE DEF size, last, parsed
<1>6. i + 2 > Len(buf) => ParseFrame(buf, i) = "not ready"
  BY <1>4
<1>7. i + 2 <= Len(buf) =>
        /\ size > MaxSize => ParseFrame(buf, i) = "invalid"
        /\ size <= MaxSize /\ last > Len(buf) => ParseFrame(buf, i) = "not ready"
        /\ size <= MaxSize /\ last <= Len(buf) => ParseFrame(buf, i) = parsed
  <2> SUFFICES ASSUME i + 2 <= Len(buf)
               PROVE  /\ size > MaxSize => ParseFrame(buf, i) = "invalid"
                      /\ size <= MaxSize /\ last > Len(buf) => ParseFrame(buf, i) = "not ready"
                      /\ size <= MaxSize /\ last <= Len(buf) => ParseFrame(buf, i) = parsed
    OBVIOUS
  <2>1. ~(i + 2 > Len(buf)) /\ size \in Nat /\ last \in Int
    BY <1>1, <1>3, <1>5 DEF size
  <2>2. /\ size <= MaxSize => ~(size > MaxSize)
        /\ last <= Len(buf) => ~(last > Len(buf))
    BY <1>1, <2>1
  <2> QED
    BY <1>4, <2>1, <2>2, Zenon
<1> QED
  BY <1>2, <1>3, <1>6, <1>7, Zenon DEF size, last, parsed

\* It is recognised where it begins.
LEMMA ParseStart ==
  ASSUME source \in Sources, NEW buf \in Buffers, NEW i \in DOMAIN source.frames, NEW p \in Nat,
         StartsIn(buf, p, i), p + 2 <= Len(buf)
  PROVE  /\ p + 1 \in SyncBytes(buf)
         /\ ParseFrame(buf, p + 1) \in {"frame", "not ready"}
         /\ p + Len(Symbols(source.frames, i)) <= Len(buf) => ParseFrame(buf, p + 1) = "frame"
<1> DEFINE S == Symbols(source.frames, i)  size == Len(source.frames[i].payload)
           m == p + 1  last == LastOf(buf, m)
<1>1. /\ S \in Seq(SymbolsFrom(i, i)) /\ size \in Nat /\ Len(S) = size + 4 /\ size <= MaxSize
      /\ S[1].of = i /\ S[1].val = Sync1 /\ S[2].val = Sync2 /\ S[3].val = size
      /\ i # 0
  <2>1. i \in 1..Len(source.frames) /\ source.frames \in Seq(Frames) /\ size <= MaxSize
        /\ Len(source.frames) \in Nat
    BY FramesAre
  <2>2. /\ S \in Seq(SymbolsFrom(i, i)) /\ size \in Nat /\ Len(S) = size + Overhead
        /\ \A j \in 1..Len(S) : S[j].of = i /\ S[j].at = j
        /\ S[1].val = Sync1 /\ S[2].val = Sync2 /\ S[3].val = size
    BY <2>1, SymbolsAre
  <2> HIDE DEF S, size
  <2>3. Len(S) = size + 4 /\ 1 \in 1..Len(S)
    BY <2>2 DEF Overhead
  <2> QED
    BY <2>1, <2>2, <2>3
<1>2. /\ buf \in Seq(Symbol(source)) /\ Len(buf) \in Nat /\ p \in Nat
      /\ \A j \in 1..(size + 4) : p + j <= Len(buf) => buf[p + j] = S[j]
  BY <1>1, LenProperties DEF Buffers, StartsIn
<1> HIDE DEF S, size
<1>3. m \in SyncBytes(buf) /\ m \in 1..Len(buf) /\ m \in Nat
  <2>1. buf[p + 1] = S[1] /\ buf[p + 2] = S[2] /\ p + 1 \in 1..(Len(buf) - 1) /\ p + 2 = (p + 1) + 1
    BY <1>1, <1>2
  <2> QED
    BY <1>1, <1>2, <2>1 DEF SyncBytes
<1>4. CASE m + 2 > Len(buf)
  <2> HIDE DEF m
  <2>1. ParseFrame(buf, m) = "not ready"
    BY <1>3, <1>4, ParseCases
  <2>2. ~(p + Len(S) <= Len(buf))
    BY <1>1, <1>2, <1>4 DEF m
  <2> QED
    BY <1>3, <2>1, <2>2 DEF m, S
<1>5. CASE m + 2 <= Len(buf)
  <2>1. SizeIn(buf[m + 2]) = size
    <3>1. buf[m + 2] = S[3]
      <4>1. p + 3 <= Len(buf) /\ 3 \in 1..(size + 4) /\ m + 2 = p + 3
        BY <1>1, <1>2, <1>5
      <4>2. buf[p + 3] = S[3]
        BY <1>2, <4>1
      <4> QED
        BY <4>1, <4>2
    <3> QED
      BY <1>1, <3>1 DEF SizeIn
  <2>2. last = p + (size + 4)
    BY <1>1, <1>2, <2>1 DEF Overhead, LastOf
  <2>3. CASE p + (size + 4) > Len(buf)
    <3> HIDE DEF m, last
    <3>1. ParseFrame(buf, m) = "not ready"
      BY <1>1, <1>3, <1>5, <2>1, <2>2, <2>3, ParseCases DEF last
    <3>2. ~(p + Len(S) <= Len(buf))
      BY <1>1, <1>2, <2>3
    <3> QED
      BY <1>3, <3>1, <3>2 DEF m, S
  <2>4. CASE p + (size + 4) <= Len(buf)
    <3>1. SubSeq(buf, m, last) = S
      <4> DEFINE first == p + 1  final == p + (size + 4)
      <4>1. first \in Int /\ final \in Int /\ \A j \in first..final : buf[j] \in Symbol(source)
        BY <1>1, <1>2, <2>4, ElementOfSeq
      <4>2. final - first + 1 = size + 4 /\ first <= final /\ first - 1 = p
        BY <1>1, <1>2
      <4> HIDE DEF first, final
      <4>3. /\ SubSeq(buf, first, final) \in Seq(Symbol(source))
            /\ Len(SubSeq(buf, first, final)) = size + 4
            /\ \A j \in 1..(size + 4) : SubSeq(buf, first, final)[j] = buf[first + j - 1]
        BY <4>1, <4>2, SubSeqProperties
      <4>4. ASSUME NEW j \in 1..(size + 4)
            PROVE  SubSeq(buf, first, final)[j] = S[j]
        <5>1. first + j - 1 = p + j /\ p + j <= Len(buf)
          BY <1>1, <1>2, <2>4, <4>1, <4>2
        <5> QED
          BY <1>2, <4>3, <5>1
      <4>5. S \in Seq(Symbol(source))
        <5>1. SymbolsFrom(i, i) \subseteq Symbol(source)
          BY <1>1 DEF SymbolsFrom, Symbol
        <5> QED
          BY <1>1, <5>1, SeqMonotonic
      <4>6. SubSeq(buf, first, final) = S
        BY <1>1, <4>3, <4>4, <4>5, SeqEqual
      <4> QED
        BY <2>2, <4>6 DEF first, final
    <3>2. buf[m].of = i
      BY <1>1, <1>2
    <3>3. ParseFrame(buf, m) = "frame"
      <4>1. buf[m].of # 0 /\ SubSeq(buf, m, last) = Symbols(source.frames, buf[m].of)
        BY <1>1, <3>1, <3>2 DEF S
      <4>2. size <= MaxSize /\ last <= Len(buf)
        BY <1>1, <2>2, <2>4
      <4> HIDE DEF m, last
      <4> QED
        BY <1>3, <1>5, <2>1, <4>1, <4>2, ParseCases DEF last
    <3> QED
      BY <1>3, <3>3
  <2> QED
    <3>1. p + (size + 4) > Len(buf) \/ p + (size + 4) <= Len(buf)
      BY <1>1, <1>2
    <3> QED
      BY <2>3, <2>4, <3>1, Zenon
<1>6. m + 2 > Len(buf) \/ m + 2 <= Len(buf)
  BY <1>2
<1> HIDE DEF m
<1> QED
  BY <1>4, <1>5, <1>6, Zenon

\* And what is taken for a frame is one.
LEMMA FrameIs ==
  ASSUME source \in Sources, NEW buf \in Buffers, NEW m \in 1..(Len(buf) - 1),
         ParseFrame(buf, m) = "frame"
  PROVE  /\ buf[m].of \in DOMAIN source.frames
         /\ LiesAt(source.frames, buf, m - 1, buf[m].of)
<1> DEFINE last == LastOf(buf, m)
           S == Symbols(source.frames, buf[m].of)
<1> HIDE DEF last, S
<1>1. /\ buf \in Seq(Symbol(source)) /\ Len(buf) \in Nat /\ m \in Nat
      /\ m \in 1..Len(buf) /\ MaxSize \in Nat
  <2>1. buf \in Seq(Symbol(source)) /\ Len(buf) \in Nat /\ MaxSize \in Nat
    BY BufferAssumption, LenProperties DEF Buffers
  <2> QED
    BY <2>1
<1>2. m + 2 <= Len(buf)
  <2>1. ~(m + 2 > Len(buf))
    BY <1>1, ParseCases
  <2> QED
    BY <1>1, <2>1
<1>3. SizeIn(buf[m + 2]) \in Nat /\ buf[m].of \in {0} \cup DOMAIN source.frames
  BY <1>1, <1>2, ParseCases
<1>4. last \in Int /\ last >= m + 3
  BY <1>1, <1>3 DEF Overhead, LastOf, last
<1>5. SizeIn(buf[m + 2]) <= MaxSize /\ last <= Len(buf)
  <2> DEFINE size == SizeIn(buf[m + 2])
  <2>1. /\ size > MaxSize => ParseFrame(buf, m) = "invalid"
        /\ size <= MaxSize /\ last > Len(buf) => ParseFrame(buf, m) = "not ready"
    BY <1>1, <1>2, ParseCases DEF last
  <2> HIDE DEF size
  <2>2. size \in Nat
    BY <1>3 DEF size
  <2> QED
    BY <1>1, <1>4, <2>1, <2>2 DEF size
<1>6. buf[m].of # 0 /\ SubSeq(buf, m, last) = S
  <2>1. ParseFrame(buf, m) = IF buf[m].of # 0 /\ SubSeq(buf, m, last) = S THEN "frame" ELSE "invalid"
    BY <1>1, <1>2, <1>5, ParseCases DEF last, S
  <2> QED
    BY <2>1
<1>8. /\ Len(S) = last - m + 1
      /\ \A j \in 1..(last - m + 1) : S[j] = buf[m + j - 1]
  <2>1. \A k \in m..last : buf[k] \in Symbol(source)
    BY <1>1, <1>5, <1>4, ElementOfSeq
  <2>2. m \in Int /\ last \in Int /\ m <= last
    BY <1>1, <1>4
  <2>3. /\ Len(SubSeq(buf, m, last)) = IF m <= last THEN last - m + 1 ELSE 0
        /\ \A j \in 1..last - m + 1 : SubSeq(buf, m, last)[j] = buf[m + j - 1]
    BY <2>1, <2>2, SubSeqProperties
  <2> QED
    BY <1>6, <2>2, <2>3
<1>9. LiesAt(source.frames, buf, m - 1, buf[m].of)
  <2>1. m - 1 \in Nat /\ (m - 1) + Len(S) <= Len(buf)
    BY <1>1, <1>5, <1>4, <1>8
  <2>2. ASSUME NEW j \in 1..Len(S)
        PROVE  buf[(m - 1) + j] = S[j]
    <3>1. (m - 1) + j = m + j - 1 /\ S[j] = buf[m + j - 1]
      BY <1>1, <1>4, <1>8
    <3> QED
      BY <3>1
  <2> QED
    BY <2>1, <2>2 DEF LiesAt, S
<1> QED
  BY <1>3, <1>6, <1>9

Rest(found) == SubSeq(found.buffer, found.discard + 1, Len(found.buffer))

\* The first c symbols are given up: none of a frame that may still be found.
KeepsFrom(buf, found, c) ==
  /\ Rest(found) = SubSeq(buf, c + 1, Len(buf))
  /\ found.frame # 0 => \E p \in Nat : /\ LiesAt(source.frames, buf, p, found.frame)
                                      /\ c = p + Len(Symbols(source.frames, found.frame))
  /\ \A i \in DOMAIN source.frames, p \in Nat : StartsIn(buf, p, i) => c <= p \/ found.frame = i
  /\ \A i \in DOMAIN source.frames : LiesAt(source.frames, buf, 0, i) => found.frame = i

LEMMA Starts ==
  ASSUME NEW buf \in Buffers, NEW i \in DOMAIN source.frames, source \in Sources,
         LiesAt(source.frames, buf, 0, i)
  PROVE  StartsIn(buf, 0, i) /\ 4 <= Len(buf) /\ 0 + Len(Symbols(source.frames, i)) <= Len(buf)
<1> DEFINE S == Symbols(source.frames, i)
<1>1. Len(S) \in Nat /\ Len(S) >= 4
  BY FrameSymbols
<1>2. Len(buf) \in Nat
  BY LenProperties DEF Buffers
<1>3. 0 + Len(S) <= Len(buf) /\ \A j \in 1..Len(S) : buf[0 + j] = S[j]
  BY DEF LiesAt
<1> HIDE DEF S
<1>4. 0 < Len(buf) /\ 4 <= Len(buf) /\ 0 \in Nat
  BY <1>1, <1>2, <1>3
<1> QED
  BY <1>3, <1>4 DEF StartsIn, S

\* Two frames do not overlap.
LEMMA NoOverlap ==
  ASSUME source \in Sources, NEW buf \in Buffers, NEW k \in DOMAIN source.frames, NEW q \in Nat,
         LiesAt(source.frames, buf, q, k),
         NEW i \in DOMAIN source.frames, NEW p \in Nat, StartsIn(buf, p, i),
         q <= p, p < q + Len(Symbols(source.frames, k))
  PROVE  k = i
<1> DEFINE S == Symbols(source.frames, i)  K == Symbols(source.frames, k)
<1>1. /\ Len(S) \in Nat /\ Len(S) >= 4 /\ \A j \in 1..Len(S) : S[j].of = i /\ S[j].at = j
      /\ Len(K) \in Nat /\ \A j \in 1..Len(K) : K[j].of = k /\ K[j].at = j
  BY FrameSymbols
<1>2. /\ \A j \in 1..Len(K) : buf[q + j] = K[j]
      /\ \A j \in 1..Len(S) : p + j <= Len(buf) => buf[p + j] = S[j]
      /\ p < Len(buf) /\ Len(buf) \in Nat /\ p < q + Len(K)
  BY LenProperties DEF LiesAt, StartsIn, Buffers
<1> HIDE DEF S, K
<1>3. buf[p + 1] = S[1]
  <2>1. 1 \in 1..Len(S) /\ p + 1 <= Len(buf)
    BY <1>1, <1>2
  <2> QED
    BY <1>2, <2>1
<1>4. PICK j \in 1..Len(K) : q + j = p + 1
  <2>1. p + 1 - q \in 1..Len(K) /\ q + (p + 1 - q) = p + 1
    BY <1>1, <1>2
  <2> QED
    BY <2>1
<1>5. buf[p + 1] = K[j]
  BY <1>2, <1>4
<1>6. S[1].of = i /\ K[j].of = k
  BY <1>1
<1> QED
  BY <1>3, <1>5, <1>6

LEMMA FrameAtKeeps ==
  ASSUME source \in Sources, NEW buf \in Buffers, NEW m \in 1..(Len(buf) - 1),
         ParseFrame(buf, m) # "invalid",
         \A k \in SyncBytes(buf) : ParseFrame(buf, k) # "invalid" => m <= k
  PROVE  \E c \in 0..Len(buf) : KeepsFrom(buf, FrameAt(buf, m), c)
<1>1. /\ Len(buf) \in Nat /\ m \in Nat /\ m >= 1 /\ m < Len(buf) /\ m \in 1..Len(buf)
      /\ buf \in Seq(Symbol(source))
  <2>1. Len(buf) \in Nat /\ buf \in Seq(Symbol(source))
    BY LenProperties DEF Buffers
  <2> QED
    BY <2>1
<1>2. ASSUME NEW i \in DOMAIN source.frames, NEW p \in Nat, StartsIn(buf, p, i)
      PROVE  m - 1 <= p
  <2>1. p < Len(buf)
    BY <1>2 DEF StartsIn
  <2>2. CASE p + 2 <= Len(buf)
    <3>1. p + 1 \in SyncBytes(buf) /\ ParseFrame(buf, p + 1) # "invalid"
      BY <1>2, <2>2, ParseStart
    <3>2. m <= p + 1
      BY <3>1
    <3> QED
      BY <1>1, <3>2
  <2>3. CASE ~(p + 2 <= Len(buf))
    BY <1>1, <2>1, <2>3
  <2> QED
    BY <2>2, <2>3
<1>3. ASSUME NEW i \in DOMAIN source.frames, LiesAt(source.frames, buf, 0, i)
      PROVE  m = 1 /\ ParseFrame(buf, 1) = "frame" /\ buf[1].of = i
  <2>1. StartsIn(buf, 0, i) /\ 4 <= Len(buf) /\ 0 + Len(Symbols(source.frames, i)) <= Len(buf)
    BY <1>3, Starts
  <2>2. m - 1 <= 0
    BY <1>2, <2>1
  <2>3. 0 + 2 <= Len(buf) /\ 0 + 1 = 1 /\ 0 \in Nat
    BY <1>1, <2>1
  <2>4. ParseFrame(buf, 1) = "frame"
    BY <2>1, <2>3, ParseStart
  <2>5. buf[1].of = i
    <3>1. Symbols(source.frames, i)[1].of = i /\ 1 \in 1..Len(Symbols(source.frames, i))
      BY FrameSymbols
    <3>2. buf[0 + 1] = Symbols(source.frames, i)[1]
      BY <1>3, <3>1 DEF LiesAt
    <3> QED
      BY <2>3, <3>1, <3>2
  <2> QED
    BY <1>1, <2>2, <2>4, <2>5
<1>4. CASE ParseFrame(buf, m) = "not ready"
  <2>1. FrameAt(buf, m) = [buffer |-> buf, discard |-> m - 1, frame |-> 0]
    BY <1>4 DEF FrameAt, NotReady
  <2>2. \A i \in DOMAIN source.frames : ~LiesAt(source.frames, buf, 0, i)
    BY <1>3, <1>4
  <2>3. KeepsFrom(buf, FrameAt(buf, m), m - 1)
    BY <1>2, <2>1, <2>2 DEF KeepsFrom, Rest
  <2>4. m - 1 \in 0..Len(buf)
    BY <1>1
  <2> QED
    BY <2>3, <2>4
<1>5. CASE ParseFrame(buf, m) = "frame"
  <2> DEFINE k == buf[m].of  K == Symbols(source.frames, k)  c == m - 1 + Len(K)
             found == FrameAt(buf, m)
  <2>1. k \in DOMAIN source.frames /\ LiesAt(source.frames, buf, m - 1, k)
    BY <1>5, FrameIs
  <2>2. found = [buffer |-> buf, discard |-> c, frame |-> k]
    BY <1>5 DEF FrameAt
  <2> HIDE DEF k
  <2>3. m - 1 \in Nat /\ Len(K) \in Nat /\ c \in 0..Len(buf)
    <3>1. Len(K) \in Nat
      BY <2>1, FrameSymbols
    <3>2. (m - 1) + Len(K) <= Len(buf)
      BY <2>1 DEF LiesAt
    <3> HIDE DEF K
    <3> QED
      BY <1>1, <3>1, <3>2
  <2>4. ASSUME NEW i \in DOMAIN source.frames, NEW p \in Nat, StartsIn(buf, p, i)
        PROVE  c <= p \/ k = i
    <3>1. m - 1 <= p
      BY <1>2, <2>4
    <3>2. CASE p < (m - 1) + Len(K)
      BY <2>1, <2>3, <2>4, <3>1, <3>2, NoOverlap
    <3>3. CASE ~(p < (m - 1) + Len(K))
      <4> HIDE DEF K
      <4> QED
        BY <2>3, <3>3
    <3> QED
      BY <3>2, <3>3
  <2>5. \A i \in DOMAIN source.frames : LiesAt(source.frames, buf, 0, i) => k = i
    BY <1>3 DEF k
  <2>6. KeepsFrom(buf, found, c)
    <3>1. Rest(found) = SubSeq(buf, c + 1, Len(buf)) /\ found.frame = k
      <4> HIDE DEF found, c
      <4> QED
        BY <2>2 DEF Rest
    <3> HIDE DEF found, c
    <3>2. c = (m - 1) + Len(Symbols(source.frames, k))
      BY DEF c
    <3> QED
      BY <2>1, <2>3, <2>4, <2>5, <3>1, <3>2 DEF KeepsFrom
  <2> QED
    BY <2>3, <2>6
<1>6. ParseFrame(buf, m) = "not ready" \/ ParseFrame(buf, m) = "frame"
  BY Zenon DEF ParseFrame
<1> QED
  BY <1>4, <1>5, <1>6

LEMMA FindFrameKeeps ==
  ASSUME source \in Sources, NEW buf \in Buffers
  PROVE  \E c \in 0..Len(buf) : KeepsFrom(buf, FindFrame(buf), c)
<1> DEFINE valid == {i \in SyncBytes(buf) : ParseFrame(buf, i) # "invalid"}
           found == FindFrame(buf)
<1>1. Len(buf) \in Nat /\ buf \in Seq(Symbol(source))
  BY LenProperties DEF Buffers
<1>2. CASE valid # {}
  <2>1. valid \subseteq 1..Len(buf) /\ SyncBytes(buf) \subseteq 1..(Len(buf) - 1)
    BY <1>1 DEF SyncBytes
  <2>2. Min(valid) \in valid /\ \A k \in valid : Min(valid) <= k
    <3> HIDE DEF valid
    <3> QED
      BY <1>1, <1>2, <2>1, MinIsIn
  <2>3. found = FrameAt(buf, Min(valid))
    BY <1>2, Zenon DEF FindFrame
  <2>4. PICK m \in 1..(Len(buf) - 1) :
          /\ m = Min(valid)
          /\ ParseFrame(buf, m) # "invalid"
          /\ \A k \in SyncBytes(buf) : ParseFrame(buf, k) # "invalid" => m <= k
    BY <2>1, <2>2
  <2> HIDE DEF valid, found
  <2>5. \E c \in 0..Len(buf) : KeepsFrom(buf, FrameAt(buf, m), c)
    BY <2>4, FrameAtKeeps
  <2> QED
    BY <2>3, <2>4, <2>5 DEF found
<1>3. CASE valid = {}
  <2>1. ASSUME NEW i \in DOMAIN source.frames, NEW p \in Nat, StartsIn(buf, p, i)
        PROVE  p = Len(buf) - 1 /\ Last(buf).val = Sync1 /\ buf # <<>>
    <3>1. p < Len(buf)
      BY <2>1 DEF StartsIn
    <3>2. ~(p + 2 <= Len(buf))
      <4> SUFFICES ASSUME p + 2 <= Len(buf) PROVE FALSE
        OBVIOUS
      <4>1. p + 1 \in SyncBytes(buf) /\ ParseFrame(buf, p + 1) # "invalid"
        BY <2>1, ParseStart
      <4> QED
        BY <1>3, <4>1
    <3>3. p = Len(buf) - 1 /\ p + 1 = Len(buf)
      BY <1>1, <3>1, <3>2
    <3>4. buf[p + 1] = Symbols(source.frames, i)[1] /\ Symbols(source.frames, i)[1].val = Sync1
      BY <2>1, <3>3, FrameSymbols DEF StartsIn
    <3>5. buf # <<>>
      BY <3>1, EmptySeq
    <3> QED
      BY <3>3, <3>4, <3>5 DEF Last
  <2>2. \A i \in DOMAIN source.frames : ~LiesAt(source.frames, buf, 0, i)
    <3> SUFFICES ASSUME NEW i \in DOMAIN source.frames, LiesAt(source.frames, buf, 0, i) PROVE FALSE
      OBVIOUS
    <3>1. StartsIn(buf, 0, i) /\ 4 <= Len(buf)
      BY Starts
    <3>2. 0 = Len(buf) - 1
      BY <2>1, <3>1
    <3>3. Len(buf) = 1
      BY <1>1, <3>2
    <3> QED
      BY <3>1, <3>3
  <2>3. CASE buf # <<>> /\ Last(buf).val = Sync1
    <3>1. found = [buffer |-> buf, discard |-> Len(buf) - 1, frame |-> 0]
      BY <1>3, <2>3, Zenon DEF FindFrame, NotReady
    <3>2. Len(buf) - 1 \in 0..Len(buf)
      BY <1>1, <2>3, EmptySeq
    <3>3. Rest(found) = SubSeq(buf, (Len(buf) - 1) + 1, Len(buf)) /\ found.frame = 0
      <4> HIDE DEF found
      <4> QED
        BY <3>1 DEF Rest
    <3>4. \A i \in DOMAIN source.frames, p \in Nat : StartsIn(buf, p, i) => Len(buf) - 1 <= p
      BY <1>1, <2>1
    <3> HIDE DEF found
    <3>5. KeepsFrom(buf, found, Len(buf) - 1)
      BY <2>2, <3>3, <3>4 DEF KeepsFrom
    <3> QED
      BY <3>2, <3>5 DEF found
  <2>4. CASE ~(buf # <<>> /\ Last(buf).val = Sync1)
    <3>1. found = [buffer |-> <<>>, discard |-> 0, frame |-> 0]
      BY <1>3, <2>4, Zenon DEF FindFrame, NotReady
    <3>2. Rest(found) = SubSeq(<<>>, 0 + 1, Len(<<>>)) /\ found.frame = 0
      <4> HIDE DEF found
      <4> QED
        BY <3>1 DEF Rest
    <3>3. SubSeq(<<>>, 0 + 1, Len(<<>>)) = SubSeq(buf, Len(buf) + 1, Len(buf))
      <4>1. Len(<<>>) = 0 /\ 0 + 1 = 1
        BY EmptySeq
      <4>2. SubSeq(<<>>, 1, 0) = <<>>
        BY SubSeqProperties, EmptySeq
      <4>3. SubSeq(buf, Len(buf) + 1, Len(buf)) = <<>>
        BY <1>1, SubSeqEmpty
      <4> QED
        BY <4>1, <4>2, <4>3
    <3> HIDE DEF found
    <3>4. \A i \in DOMAIN source.frames, p \in Nat : ~StartsIn(buf, p, i)
      BY <2>1, <2>4
    <3>5. KeepsFrom(buf, found, Len(buf))
      BY <2>2, <3>2, <3>3, <3>4 DEF KeepsFrom
    <3>6. Len(buf) \in 0..Len(buf)
      BY <1>1
    <3> QED
      BY <3>5, <3>6 DEF found
  <2> QED
    BY <2>3, <2>4
<1> QED
  BY <1>2, <1>3

-----------------------------------------------------------------------------
(***************************************************************************)
(* The order in which symbols are read.                                    *)
(***************************************************************************)

LEMMA SymbolsOnSource == SymbolsOn(source.frames) = Symbol(source)
BY DEF SymbolsOn, Symbol

LEMMA Delivered ==
  ASSUME LinkInv, NEW k \in Nat, NEW m \in Nat, 1 <= k, k <= m
  PROVE  /\ DeliveredFrom(m) \subseteq DeliveredFrom(k)
         /\ DeliveredFrom(k) \subseteq Symbol(source)
<1>1. /\ source.link # "udp" => wire \in Seq(Symbol(source))
      /\ source.link = "udp" => wire \in Seq(Seq(Symbol(source)))
      /\ Len(wire) \in Nat
  BY WireIs DEF LinkInv
<1>2. m..Len(wire) \subseteq k..Len(wire) /\ k..Len(wire) \subseteq 1..Len(wire)
  BY <1>1
<1>3. CASE source.link # "udp"
  <2>1. \A j \in 1..Len(wire) : wire[j] \in Symbol(source)
    BY <1>1, <1>3, ElementOfSeq
  <2> QED
    BY <1>2, <1>3, <2>1 DEF DeliveredFrom
<1>4. CASE source.link = "udp"
  <2>1. \A d \in 1..Len(wire) : ToSet(wire[d]) \subseteq Symbol(source)
    <3> SUFFICES ASSUME NEW d \in 1..Len(wire) PROVE ToSet(wire[d]) \subseteq Symbol(source)
      OBVIOUS
    <3>1. wire[d] \in Seq(Symbol(source))
      BY <1>1, <1>4, ElementOfSeq
    <3>2. DOMAIN wire[d] = 1..Len(wire[d]) /\ \A j \in 1..Len(wire[d]) : wire[d][j] \in Symbol(source)
      BY <3>1, LenProperties, ElementOfSeq
    <3> QED
      BY <3>2 DEF ToSet
  <2>2. /\ DeliveredFrom(m) = UNION {ToSet(wire[d]) : d \in m..Len(wire)}
        /\ DeliveredFrom(k) = UNION {ToSet(wire[d]) : d \in k..Len(wire)}
    BY <1>4 DEF DeliveredFrom
  <2> QED
    BY <1>2, <2>1, <2>2
<1> QED
  BY <1>3, <1>4

\* What is read in one call.
ReadsOn(symbols, next) ==
  /\ Ordered(symbols)
  /\ \A a \in 1..Len(symbols) :
       /\ symbols[a] \in DeliveredFrom(taken + 1)
       /\ \A t \in DeliveredFrom(next + 1) : Before(symbols[a], t)

LEMMA ReadStream ==
  ASSUME LinkInv, NEW room \in Nat, source.link # "udp"
  PROVE  /\ ReadsOn(Read(room).symbols, Read(room).taken)
         /\ Read(room).taken = taken + Len(Read(room).symbols)
         /\ \A a \in 1..Len(Read(room).symbols) : Read(room).symbols[a] = wire[taken + a]
<1> DEFINE count == Min({room, arrived - taken})
           symbols == SubSeq(wire, taken + 1, taken + count)
<1>1. /\ taken \in Nat /\ arrived \in Nat /\ taken <= arrived
      /\ Len(wire) \in Nat /\ arrived <= Len(wire)
      /\ wire \in Seq(Symbol(source)) /\ arrived - taken \in Nat
  BY WireIs DEF LinkInv
<1>2. Read(room) = [symbols |-> symbols, taken |-> taken + count]
  BY Zenon DEF Read
<1>3. count \in Nat /\ count <= arrived - taken
  BY <1>1, MinOfTwo
<1> HIDE DEF count
<1>4. /\ symbols \in Seq(Symbol(source)) /\ Len(symbols) = count
      /\ \A a \in 1..count : symbols[a] = wire[taken + a]
  <2> DEFINE first == taken + 1  final == taken + count
  <2>1. first \in Int /\ final \in Int /\ \A k \in first..final : wire[k] \in Symbol(source)
    BY <1>1, <1>3, ElementOfSeq
  <2>2. /\ (IF first <= final THEN final - first + 1 ELSE 0) = count
        /\ final - first + 1 = count
        /\ \A a \in 1..count : first + a - 1 = taken + a
    BY <1>1, <1>3
  <2>3. symbols = SubSeq(wire, first, final)
    OBVIOUS
  <2> HIDE DEF first, final, symbols
  <2>4. /\ symbols \in Seq(Symbol(source)) /\ Len(symbols) = count
        /\ \A a \in 1..count : symbols[a] = wire[first + a - 1]
    BY <2>1, <2>2, <2>3, SubSeqProperties
  <2> QED
    BY <2>2, <2>4
<1>5. Ordered(wire)
  <2>1. WellPlaced(source.frames, wire)
    BY StreamsAre DEF LinkInv
  <2> QED
    BY <2>1 DEF WellPlaced
<1> HIDE DEF symbols
<1>6. Ordered(symbols)
  <2> SUFFICES ASSUME NEW a \in 1..count, NEW b \in 1..count, a < b
               PROVE  Before(symbols[a], symbols[b])
    BY <1>4 DEF Ordered
  <2>1. taken + a \in 1..Len(wire) /\ taken + b \in 1..Len(wire) /\ taken + a < taken + b
    BY <1>1, <1>3
  <2> QED
    BY <1>4, <1>5, <2>1 DEF Ordered
<1>7. ASSUME NEW a \in 1..count
      PROVE  /\ symbols[a] \in DeliveredFrom(taken + 1)
             /\ \A t \in DeliveredFrom((taken + count) + 1) : Before(symbols[a], t)
  <2>1. symbols[a] = wire[taken + a] /\ taken + a \in (taken + 1)..Len(wire) /\ taken + a \in 1..Len(wire)
    BY <1>1, <1>3, <1>4
  <2>2. symbols[a] \in DeliveredFrom(taken + 1)
    BY <2>1 DEF DeliveredFrom
  <2>3. ASSUME NEW t \in DeliveredFrom((taken + count) + 1)
        PROVE  Before(symbols[a], t)
    <3>1. PICK j \in ((taken + count) + 1)..Len(wire) : t = wire[j]
      BY DEF DeliveredFrom
    <3>2. j \in 1..Len(wire) /\ taken + a < j
      BY <1>1, <1>3
    <3> QED
      BY <1>5, <2>1, <3>1, <3>2 DEF Ordered
  <2> QED
    BY <2>2, <2>3
<1>8. Read(room).symbols = symbols /\ Read(room).taken = taken + count
  BY <1>2
<1> QED
  BY <1>4, <1>6, <1>7, <1>8 DEF ReadsOn

LEMMA ReadDatagram ==
  ASSUME LinkInv, NEW room \in Nat, source.link = "udp"
  PROVE  /\ ReadsOn(Read(room).symbols, Read(room).taken)
         /\ \/ Read(room).symbols = <<>> /\ Read(room).taken = taken
            \/ /\ taken + 1 \in 1..Len(wire) /\ Read(room).taken = taken + 1
               /\ Read(room).symbols = SubSeq(wire[taken + 1], 1, Min({room, Len(wire[taken + 1])}))
<1> DEFINE count == Min({room, arrived - taken})
<1>1. /\ taken \in Nat /\ arrived \in Nat /\ taken <= arrived
      /\ Len(wire) \in Nat /\ arrived <= Len(wire)
      /\ wire \in Seq(Seq(Symbol(source))) /\ arrived - taken \in Nat
  BY WireIs DEF LinkInv
<1>2. count \in Nat /\ count <= arrived - taken
  BY <1>1, MinOfTwo
<1>3. CASE count = 0
  <2>1. Read(room) = [symbols |-> <<>>, taken |-> taken]
    BY <1>3, Zenon DEF Read
  <2>2. Read(room).symbols = <<>> /\ Read(room).taken = taken
    BY <2>1
  <2>3. Len(<<>>) = 0
    BY EmptySeq
  <2> HIDE DEF count
  <2>4. ReadsOn(<<>>, taken)
    BY <2>3 DEF ReadsOn, Ordered
  <2> QED
    BY <2>2, <2>4
<1>4. CASE count # 0
  <2> DEFINE datagram == wire[taken + 1]
             most == Min({room, Len(datagram)})
             symbols == SubSeq(datagram, 1, most)
  <2>1. Read(room) = [symbols |-> symbols, taken |-> taken + 1]
    BY <1>4, Zenon DEF Read
  <2>2. taken + 1 \in 1..Len(wire)
    BY <1>1, <1>2, <1>4
  <2>3. datagram \in Seq(Symbol(source))
    BY <1>1, <2>2, ElementOfSeq
  <2> HIDE DEF datagram
  <2>4. Len(datagram) \in Nat
    BY <2>3, LenProperties
  <2>5. most \in Nat /\ most <= Len(datagram)
    BY <2>4, MinOfTwo
  <2> HIDE DEF most
  <2>6. Len(symbols) = most /\ \A a \in 1..most : symbols[a] = datagram[a]
    <3>1. \A k \in 1..most : datagram[k] \in Symbol(source)
      BY <2>3, <2>4, <2>5, ElementOfSeq
    <3>2. 1 \in Int /\ most \in Int /\ most - 1 + 1 = most /\ (IF 1 <= most THEN most - 1 + 1 ELSE 0) = most
          /\ \A a \in 1..most : 1 + a - 1 = a
      BY <2>5
    <3>3. /\ Len(symbols) = IF 1 <= most THEN most - 1 + 1 ELSE 0
          /\ \A a \in 1..most - 1 + 1 : symbols[a] = datagram[1 + a - 1]
      BY <3>1, <3>2, SubSeqProperties
    <3> HIDE DEF symbols
    <3> QED
      BY <3>2, <3>3
  <2>7. /\ Ordered(datagram)
        /\ \A e \in 1..Len(wire) : taken + 1 < e =>
             \A a \in 1..Len(datagram), b \in 1..Len(wire[e]) : Before(datagram[a], wire[e][b])
    <3>1. InOrder(source.frames, wire)
      BY WiresOfDatagrams DEF LinkInv
    <3> QED
      BY <2>2, <3>1 DEF InOrder, datagram
  <2> HIDE DEF symbols
  <2>8. Ordered(symbols)
    BY <2>4, <2>5, <2>6, <2>7 DEF Ordered
  <2>9. ASSUME NEW a \in 1..most
        PROVE  /\ symbols[a] \in DeliveredFrom(taken + 1)
               /\ \A t \in DeliveredFrom((taken + 1) + 1) : Before(symbols[a], t)
    <3>1. a \in 1..Len(datagram) /\ symbols[a] = datagram[a]
      BY <2>4, <2>5, <2>6
    <3>2. taken + 1 \in (taken + 1)..Len(wire)
      BY <1>1, <2>2
    <3>3. symbols[a] \in DeliveredFrom(taken + 1)
      <4>1. symbols[a] \in ToSet(datagram)
        BY <2>3, <3>1, LenProperties DEF ToSet
      <4> QED
        BY <3>2, <4>1 DEF DeliveredFrom, datagram
    <3>4. ASSUME NEW t \in DeliveredFrom((taken + 1) + 1)
          PROVE  Before(symbols[a], t)
      <4>1. PICK e \in ((taken + 1) + 1)..Len(wire) : t \in ToSet(wire[e])
        BY DEF DeliveredFrom
      <4>2. e \in 1..Len(wire) /\ taken + 1 < e
        BY <1>1
      <4>3. wire[e] \in Seq(Symbol(source))
        BY <1>1, <4>2, ElementOfSeq
      <4>4. PICK b \in 1..Len(wire[e]) : t = wire[e][b]
        BY <4>1, <4>3, LenProperties DEF ToSet
      <4> QED
        BY <2>7, <3>1, <4>2, <4>4
    <3> QED
      BY <3>3, <3>4
  <2>10. Read(room).symbols = symbols /\ Read(room).taken = taken + 1
    BY <2>1
  <2> QED
    BY <2>2, <2>6, <2>8, <2>9, <2>10 DEF ReadsOn, symbols, most, datagram
<1> QED
  BY <1>3, <1>4

-----------------------------------------------------------------------------
(***************************************************************************)
(* The order in which frames are found.                                    *)
(***************************************************************************)

\* A symbol that may still be used once the i-th frame was found.
After(i, t) == t.of = 0 \/ i < t.of \/ (t.of = i /\ t.at > 1)

\* The symbols held, those delivered from the k-th on, and the frames found before.
OrderOf(held, k, found) ==
  /\ Ordered(held)
  /\ \A a \in 1..Len(held) :
       /\ held[a] \in DeliveredFrom(1)
       /\ \A t \in DeliveredFrom(k) : Before(held[a], t)
  /\ \A r \in 1..Len(found) :
       /\ IntactIn(DeliveredFrom(1), found[r])
       /\ \A a \in 1..Len(held) : After(found[r], held[a])
       /\ \A t \in DeliveredFrom(k) : After(found[r], t)
  /\ \A q, r \in 1..Len(found) : q < r => found[q] < found[r]

\* What is read comes after what was held.
LEMMA ReadingKeepsOrder ==
  ASSUME LinkInv, NEW held \in Seq(Symbol(source)), NEW found, OrderOf(held, taken + 1, found),
         NEW symbols \in Seq(Symbol(source)), NEW next \in Nat, taken <= next, ReadsOn(symbols, next)
  PROVE  OrderOf(held \o symbols, next + 1, found)
<1> DEFINE all == held \o symbols
<1>1. /\ Len(held) \in Nat /\ Len(symbols) \in Nat /\ Len(all) = Len(held) + Len(symbols)
      /\ \A a \in 1..Len(all) :
           \/ a \in 1..Len(held) /\ all[a] = held[a]
           \/ a - Len(held) \in 1..Len(symbols) /\ all[a] = symbols[a - Len(held)] /\ ~(a <= Len(held))
  <2>1. Len(held) \in Nat /\ Len(symbols) \in Nat
    BY LenProperties
  <2>2. /\ Len(all) = Len(held) + Len(symbols)
        /\ \A a \in 1..Len(held) + Len(symbols) :
             all[a] = IF a <= Len(held) THEN held[a] ELSE symbols[a - Len(held)]
    BY ConcatProperties
  <2> HIDE DEF all
  <2> QED
    BY <2>1, <2>2
<1> HIDE DEF all
<1>2. /\ DeliveredFrom(next + 1) \subseteq DeliveredFrom(taken + 1)
      /\ DeliveredFrom(taken + 1) \subseteq DeliveredFrom(1)
  <2>1. /\ taken + 1 \in Nat /\ next + 1 \in Nat /\ 1 \in Nat
        /\ 1 <= taken + 1 /\ taken + 1 <= next + 1 /\ 1 <= 1
    BY WireIs DEF LinkInv
  <2>2. DeliveredFrom(next + 1) \subseteq DeliveredFrom(taken + 1)
    BY <2>1, Delivered
  <2>3. DeliveredFrom(taken + 1) \subseteq DeliveredFrom(1)
    BY <2>1, Delivered
  <2> QED
    BY <2>2, <2>3
<1>3. Ordered(all)
  <2> SUFFICES ASSUME NEW a \in 1..Len(all), NEW b \in 1..Len(all), a < b
               PROVE  Before(all[a], all[b])
    BY DEF Ordered
  <2>1. CASE a \in 1..Len(held) /\ b \in 1..Len(held)
    <3>1. all[a] = held[a] /\ all[b] = held[b]
      BY <1>1, <2>1
    <3> QED
      BY <2>1, <3>1 DEF OrderOf, Ordered
  <2>2. CASE a \in 1..Len(held) /\ b \notin 1..Len(held)
    <3>1. all[a] = held[a] /\ b - Len(held) \in 1..Len(symbols) /\ all[b] = symbols[b - Len(held)]
      BY <1>1, <2>2
    <3> QED
      BY <2>2, <3>1 DEF OrderOf, ReadsOn
  <2>3. CASE a \notin 1..Len(held)
    <3>1. /\ a - Len(held) \in 1..Len(symbols) /\ all[a] = symbols[a - Len(held)]
          /\ b - Len(held) \in 1..Len(symbols) /\ all[b] = symbols[b - Len(held)]
          /\ a - Len(held) < b - Len(held)
      <4>1. /\ a \in 1..Len(all) /\ b \in 1..Len(all) /\ Len(all) \in Nat
            /\ ~(a <= Len(held)) /\ ~(b <= Len(held))
        BY <1>1, <2>3
      <4> QED
        BY <1>1, <4>1
    <3> QED
      BY <3>1 DEF ReadsOn, Ordered
  <2> QED
    BY <2>1, <2>2, <2>3
<1>4. ASSUME NEW a \in 1..Len(all)
      PROVE  /\ all[a] \in DeliveredFrom(1)
             /\ \A t \in DeliveredFrom(next + 1) : Before(all[a], t)
             /\ \A r \in 1..Len(found) : After(found[r], all[a])
  <2>1. CASE a \in 1..Len(held)
    BY <1>1, <1>2, <2>1 DEF OrderOf
  <2>2. CASE a \notin 1..Len(held)
    <3>1. a - Len(held) \in 1..Len(symbols) /\ all[a] = symbols[a - Len(held)]
      BY <1>1, <2>2
    <3>2. all[a] \in DeliveredFrom(taken + 1)
      BY <3>1 DEF ReadsOn
    <3> QED
      BY <1>2, <3>1, <3>2 DEF ReadsOn, OrderOf
  <2> QED
    BY <2>1, <2>2
<1> QED
  BY <1>2, <1>3, <1>4 DEF OrderOf, all

\* A frame that is found comes after those found before, and what is kept comes after it.
LEMMA FindingKeepsOrder ==
  ASSUME LinkInv, NEW buf \in Buffers, NEW k \in Nat, 1 <= k,
         NEW found \in Seq(DOMAIN source.frames), OrderOf(buf, k, found),
         NEW kept \in Seq(Symbol(source)), NEW c \in 0..Len(buf), Len(kept) = Len(buf) - c,
         \A a \in 1..Len(kept) : kept[a] = buf[c + a],
         NEW frame \in {0} \cup DOMAIN source.frames,
         frame # 0 => \E p \in Nat : LiesAt(source.frames, buf, p, frame)
                                     /\ c = p + Len(Symbols(source.frames, frame))
  PROVE  /\ OrderOf(kept, k, IF frame = 0 THEN found ELSE Append(found, frame))
         /\ frame # 0 => \A r \in 1..Len(found) : found[r] < frame
<1>1. /\ Len(buf) \in Nat /\ Len(kept) \in Nat
      /\ \A a \in 1..Len(kept) : kept[a] = buf[c + a] /\ c + a \in 1..Len(buf) /\ c < c + a
  <2>1. Len(buf) \in Nat /\ Len(kept) \in Nat
    BY LenProperties DEF Buffers
  <2> QED
    BY <2>1
<1>2. Ordered(kept)
  <2> SUFFICES ASSUME NEW a \in 1..Len(kept), NEW b \in 1..Len(kept), a < b
               PROVE  Before(kept[a], kept[b])
    BY DEF Ordered
  <2>1. c + a < c + b
    OBVIOUS
  <2> QED
    BY <1>1, <2>1 DEF OrderOf, Ordered
<1>3. OrderOf(kept, k, found)
  BY <1>1, <1>2 DEF OrderOf
<1>4. CASE frame = 0
  BY <1>3, <1>4
<1>5. CASE frame # 0
  <2> DEFINE S == Symbols(source.frames, frame)
  <2>1. PICK p \in Nat : LiesAt(source.frames, buf, p, frame) /\ c = p + Len(S)
    BY <1>5
  <2>2. /\ frame \in DOMAIN source.frames /\ frame \in Nat /\ frame # 0
        /\ Len(S) \in Nat /\ Len(S) >= 4
        /\ \A j \in 1..Len(S) : S[j] \in Symbol(source) /\ S[j].of = frame /\ S[j].at = j
    BY <1>5, FrameSymbols DEF LinkInv
  <2>3. /\ \A j \in 1..Len(S) : buf[p + j] = S[j] /\ p + j \in 1..Len(buf)
        /\ DOMAIN S = 1..Len(S)
    <3>1. p + Len(S) <= Len(buf) /\ \A j \in 1..Len(S) : buf[p + j] = S[j]
      BY <2>1 DEF LiesAt
    <3>2. DOMAIN S = 1..Len(S)
      BY SymbolsAre, LenProperties, FramesAre, <2>2 DEF LinkInv
    <3> HIDE DEF S
    <3> QED
      BY <1>1, <2>2, <3>1, <3>2
  <2> HIDE DEF S
  <2>4. /\ Len(found) \in Nat
        /\ Len(Append(found, frame)) = Len(found) + 1
        /\ Append(found, frame)[Len(found) + 1] = frame
        /\ \A r \in 1..Len(found) : Append(found, frame)[r] = found[r] /\ found[r] \in DOMAIN source.frames
        /\ \A r \in 1..Len(Append(found, frame)) : r \in 1..Len(found) \/ r = Len(found) + 1
    <3>1. Len(found) \in Nat /\ \A r \in 1..Len(found) : found[r] \in DOMAIN source.frames
      BY LenProperties, ElementOfSeq
    <3>2. /\ Len(Append(found, frame)) = Len(found) + 1
          /\ Append(found, frame)[Len(found) + 1] = frame
          /\ \A r \in 1..Len(found) : Append(found, frame)[r] = found[r]
      BY <2>2, AppendProperties
    <3> QED
      BY <3>1, <3>2
  <2>5. IntactIn(DeliveredFrom(1), frame)
    <3>1. \A j \in 1..Len(S) : S[j] \in DeliveredFrom(1)
      BY <2>3 DEF OrderOf
    <3> QED
      BY <2>3, <3>1 DEF IntactIn, ToSet, S
  <2>6. \A r \in 1..Len(found) : found[r] < frame
    <3> SUFFICES ASSUME NEW r \in 1..Len(found) PROVE found[r] < frame
      OBVIOUS
    <3>1. 1 \in 1..Len(S)
      BY <2>2
    <3>2. buf[p + 1] = S[1] /\ p + 1 \in 1..Len(buf) /\ S[1].of = frame /\ S[1].at = 1
      BY <2>2, <2>3, <3>1
    <3>3. After(found[r], S[1])
      BY <3>2 DEF OrderOf
    <3> QED
      BY <2>2, <3>2, <3>3 DEF After
  <2>7. /\ c \in 1..Len(buf) /\ buf[c].of = frame /\ buf[c].at = Len(S)
    <3>1. Len(S) \in 1..Len(S)
      BY <2>2
    <3>2. buf[p + Len(S)] = S[Len(S)] /\ p + Len(S) \in 1..Len(buf)
      BY <2>3, <3>1
    <3> QED
      BY <2>1, <2>2, <3>1, <3>2 DEF S
  <2>8. ASSUME NEW t \in Symbol(source), Before(buf[c], t)
        PROVE  After(frame, t)
    <3>1. t.at \in Nat /\ Len(S) > 1
      BY <2>2 DEF Symbol
    <3> QED
      BY <2>2, <2>7, <2>8, <3>1 DEF Before, After
  <2>9. \A a \in 1..Len(kept) : After(frame, kept[a])
    <3> SUFFICES ASSUME NEW a \in 1..Len(kept) PROVE After(frame, kept[a])
      OBVIOUS
    <3>1. kept[a] \in Symbol(source)
      BY ElementOfSeq
    <3>2. Before(buf[c], kept[a])
      BY <1>1, <2>7 DEF OrderOf, Ordered
    <3> QED
      BY <2>8, <3>1, <3>2
  <2>10. \A t \in DeliveredFrom(k) : After(frame, t)
    <3>1. DeliveredFrom(k) \subseteq Symbol(source)
      <4>1. k <= k
        OBVIOUS
      <4> QED
        BY <4>1, Delivered
    <3> QED
      BY <2>7, <2>8, <3>1 DEF OrderOf
  <2>11. OrderOf(kept, k, Append(found, frame))
    <3> DEFINE more == Append(found, frame)
    <3>1. \A r \in 1..Len(more) :
            /\ IntactIn(DeliveredFrom(1), more[r])
            /\ \A a \in 1..Len(kept) : After(more[r], kept[a])
            /\ \A t \in DeliveredFrom(k) : After(more[r], t)
      BY <1>3, <2>4, <2>5, <2>9, <2>10 DEF OrderOf
    <3>2. \A q, r \in 1..Len(more) : q < r => more[q] < more[r]
      <4> SUFFICES ASSUME NEW q \in 1..Len(more), NEW r \in 1..Len(more), q < r
                   PROVE  more[q] < more[r]
        OBVIOUS
      <4>1. q \in 1..Len(found)
        BY <2>4
      <4>2. CASE r \in 1..Len(found)
        BY <1>3, <2>4, <4>1, <4>2 DEF OrderOf
      <4>3. CASE r = Len(found) + 1
        BY <2>4, <2>6, <4>1, <4>3
      <4> QED
        BY <2>4, <4>2, <4>3
    <3> HIDE DEF more
    <3> QED
      BY <1>3, <3>1, <3>2 DEF OrderOf, more
  <2> QED
    BY <1>5, <2>6, <2>11
<1> QED
  BY <1>4, <1>5

-----------------------------------------------------------------------------
(***************************************************************************)
(* The place of what is held, and the frames that were not found yet.      *)
(***************************************************************************)

\* Of a stream the last symbols read are held, and what lies before them was found.
PlaceOf(held, n, found) ==
  /\ Len(held) <= n
  /\ \A a \in 1..Len(held) : held[a] = wire[n - Len(held) + a]
  /\ \A i \in DOMAIN source.frames, p \in Nat :
       LiesAt(source.frames, wire, p, i) => n - Len(held) <= p \/ i \in ToSet(found)

\* Of datagrams of one frame nothing is held.
NoneLeft(held, n, found) ==
  /\ held = <<>>
  /\ \A d \in 1..n, i \in DOMAIN source.frames :
       wire[d] = Symbols(source.frames, i) => i \in ToSet(found)

LEMMA StreamPlace ==
  ASSUME LinkInv, source.link # "udp", NEW held \in Seq(Symbol(source)), NEW found,
         PlaceOf(held, taken, found), NEW symbols \in Seq(Symbol(source)),
         \A a \in 1..Len(symbols) : symbols[a] = wire[taken + a],
         NEW buf \in Buffers, buf = held \o symbols, taken + Len(symbols) <= Len(wire),
         NEW kept \in Seq(Symbol(source)), NEW c \in 0..Len(buf), Len(kept) = Len(buf) - c,
         \A a \in 1..Len(kept) : kept[a] = buf[c + a],
         NEW frame,
         \A i \in DOMAIN source.frames, p \in Nat : StartsIn(buf, p, i) => c <= p \/ frame = i,
         NEW more, ToSet(found) \subseteq ToSet(more),
         frame \in DOMAIN source.frames => frame \in ToSet(more)
  PROVE  PlaceOf(kept, taken + Len(symbols), more)
<1> DEFINE base == taken - Len(held)
<1>1. /\ taken \in Nat /\ Len(held) \in Nat /\ Len(symbols) \in Nat /\ base \in Nat
      /\ Len(buf) = Len(held) + Len(symbols) /\ Len(buf) \in Nat /\ Len(kept) \in Nat
  <2>1. taken \in Nat /\ Len(held) \in Nat /\ Len(symbols) \in Nat /\ Len(kept) \in Nat
    BY WireIs, LenProperties DEF LinkInv
  <2>2. Len(held) <= taken
    BY DEF PlaceOf
  <2>3. Len(buf) = Len(held) + Len(symbols)
    BY ConcatProperties
  <2> QED
    BY <2>1, <2>2, <2>3
<1>2. ASSUME NEW a \in 1..Len(buf)
      PROVE  buf[a] = wire[base + a]
  <2>1. buf[a] = IF a <= Len(held) THEN held[a] ELSE symbols[a - Len(held)]
    BY <1>1, ConcatProperties
  <2>2. CASE a <= Len(held)
    <3>1. a \in 1..Len(held)
      BY <1>1, <2>2
    <3> QED
      BY <2>1, <2>2, <3>1 DEF PlaceOf
  <2>3. CASE ~(a <= Len(held))
    <3>1. a - Len(held) \in 1..Len(symbols) /\ taken + (a - Len(held)) = base + a
      BY <1>1, <2>3
    <3> QED
      BY <2>1, <2>3, <3>1
  <2> QED
    BY <2>2, <2>3
<1>3. /\ Len(kept) <= taken + Len(symbols)
      /\ (taken + Len(symbols)) - Len(kept) = base + c
      /\ \A a \in 1..Len(kept) : c + a \in 1..Len(buf) /\ base + (c + a) = (base + c) + a
  BY <1>1
<1>4. \A a \in 1..Len(kept) : kept[a] = wire[(base + c) + a]
  BY <1>2, <1>3
<1>5. ASSUME NEW i \in DOMAIN source.frames, NEW p \in Nat, LiesAt(source.frames, wire, p, i)
      PROVE  base + c <= p \/ i \in ToSet(more)
  <2>1. base <= p \/ i \in ToSet(found)
    BY <1>5 DEF PlaceOf
  <2>2. CASE i \in ToSet(found)
    BY <2>2
  <2>3. CASE base <= p /\ ~(base + c <= p)
    <3> DEFINE S == Symbols(source.frames, i)
    <3>1. p - base \in Nat /\ p - base < Len(buf) /\ ~(c <= p - base)
      BY <1>1, <2>3
    <3>2. ASSUME NEW j \in 1..Len(S), (p - base) + j <= Len(buf)
          PROVE  buf[(p - base) + j] = S[j]
      <4>1. wire[p + j] = S[j]
        BY <1>5 DEF LiesAt
      <4> HIDE DEF S
      <4>2. (p - base) + j \in 1..Len(buf) /\ base + ((p - base) + j) = p + j
        BY <1>1, <2>3, <3>1, <3>2
      <4> QED
        BY <1>2, <4>1, <4>2
    <3> HIDE DEF base
    <3>3. StartsIn(buf, p - base, i)
      BY <3>1, <3>2 DEF StartsIn
    <3>4. frame = i
      BY <3>1, <3>3
    <3> QED
      BY <3>4
  <2>4. base <= p => (base <= p /\ ~(base + c <= p)) \/ base + c <= p
    OBVIOUS
  <2> HIDE DEF base
  <2> QED
    BY <2>1, <2>2, <2>3, <2>4
<1> HIDE DEF base
<1> QED
  BY <1>3, <1>4, <1>5 DEF PlaceOf

\* A datagram of one frame fits in the empty buffer, and is used at once.
LEMMA DatagramUsed ==
  ASSUME LinkInv, source.link = "udp", source.perDatagram = 1, NEW found, NoneLeft(<<>>, taken, found),
         NEW symbols, NEW next,
         \/ symbols = <<>> /\ next = taken
         \/ /\ taken + 1 \in 1..Len(wire) /\ next = taken + 1
            /\ symbols = SubSeq(wire[taken + 1], 1, Min({Capacity, Len(wire[taken + 1])})),
         NEW kept \in Seq(Symbol(source)), NEW c \in 0..Len(symbols), Len(kept) = Len(symbols) - c,
         NEW frame,
         \A i \in DOMAIN source.frames : LiesAt(source.frames, symbols, 0, i) => frame = i,
         frame # 0 => \E p \in Nat : LiesAt(source.frames, symbols, p, frame)
                                     /\ c = p + Len(Symbols(source.frames, frame)),
         NEW more, ToSet(found) \subseteq ToSet(more),
         frame \in DOMAIN source.frames => frame \in ToSet(more)
  PROVE  NoneLeft(kept, next, more)
<1>1. CASE symbols = <<>> /\ next = taken
  <2>1. Len(symbols) = 0
    BY <1>1, EmptySeq
  <2>2. kept = <<>>
    <3>1. c = 0
      BY <2>1
    <3>2. Len(kept) = 0
      BY <2>1, <3>1
    <3> QED
      BY <3>2, EmptySeq
  <2> QED
    BY <1>1, <2>2 DEF NoneLeft
<1>2. ASSUME taken + 1 \in 1..Len(wire), next = taken + 1,
             symbols = SubSeq(wire[taken + 1], 1, Min({Capacity, Len(wire[taken + 1])}))
      PROVE  NoneLeft(kept, next, more)
  <2>1. PICK i \in DOMAIN source.frames : wire[taken + 1] = Symbols(source.frames, i)
    <3>1. OneInEach(source.frames, wire)
      BY WiresOfDatagrams DEF LinkInv
    <3>2. DOMAIN source.frames = 1..Len(source.frames)
      BY FramesAre DEF LinkInv
    <3> QED
      BY <1>2, <3>1, <3>2 DEF OneInEach
  <2> DEFINE S == Symbols(source.frames, i)
  <2>2. /\ i # 0 /\ Len(S) \in Nat /\ Len(S) >= 4 /\ Len(S) <= MaxSize + Overhead
        /\ \A j \in 1..Len(S) : S[j] \in Symbol(source) /\ S[j].of = i
        /\ 1 \in 1..Len(S)
    BY FrameSymbols DEF LinkInv
  <2>3. wire[taken + 1] = S
    BY <2>1
  <2> HIDE DEF S
  <2>4. Min({Capacity, Len(S)}) = Len(S)
    <3>1. Capacity \in Nat /\ MaxSize + Overhead <= Capacity /\ MaxSize \in Nat
      BY BufferAssumption
    <3>2. Len(S) <= Capacity
      BY <2>2, <3>1 DEF Overhead
    <3>3. {Capacity, Len(S)} # {} /\ {Capacity, Len(S)} \subseteq 1..Capacity
      BY <2>2, <3>1, <3>2
    <3>4. Min({Capacity, Len(S)}) \in {Capacity, Len(S)} /\ Min({Capacity, Len(S)}) <= Len(S)
      BY <3>1, <3>3, MinIsIn
    <3> QED
      BY <2>2, <3>1, <3>2, <3>4
  <2>5. symbols = SubSeq(S, 1, Len(S))
    BY <1>2, <2>3, <2>4
  <2>6. Len(symbols) = Len(S) /\ \A j \in 1..Len(S) : symbols[j] = S[j]
    <3>1. 1 \in Int /\ Len(S) \in Int /\ (IF 1 <= Len(S) THEN Len(S) - 1 + 1 ELSE 0) = Len(S)
          /\ Len(S) - 1 + 1 = Len(S) /\ \A j \in 1..Len(S) : 1 + j - 1 = j
      BY <2>2
    <3>2. /\ Len(SubSeq(S, 1, Len(S))) = IF 1 <= Len(S) THEN Len(S) - 1 + 1 ELSE 0
          /\ \A j \in 1..Len(S) - 1 + 1 : SubSeq(S, 1, Len(S))[j] = S[1 + j - 1]
      BY <2>2, <3>1, SubSeqProperties
    <3> QED
      BY <2>5, <3>1, <3>2
  <2>7. LiesAt(source.frames, symbols, 0, i)
    <3>1. 0 \in Nat /\ 0 + Len(S) <= Len(symbols) /\ \A j \in 1..Len(S) : symbols[0 + j] = S[j]
      BY <2>2, <2>6
    <3> QED
      BY <3>1 DEF LiesAt, S
  <2>8. frame = i
    BY <2>7
  <2>9. kept = <<>>
    <3>1. PICK p \in Nat : c = p + Len(S)
      BY <2>2, <2>8 DEF S
    <3>2. Len(kept) = 0
      BY <2>2, <2>6, <3>1
    <3> QED
      BY <3>2, EmptySeq
  <2>10. ASSUME NEW d \in 1..next, NEW k \in DOMAIN source.frames, wire[d] = Symbols(source.frames, k)
         PROVE  k \in ToSet(more)
    <3>1. taken \in Nat
      BY WireIs DEF LinkInv
    <3>2. CASE d = taken + 1
      <4>1. Symbols(source.frames, k) = S
        BY <2>3, <2>10, <3>2
      <4>2. 1 \in 1..Len(S) /\ S[1].of = k
        BY <4>1, FrameSymbols DEF LinkInv
      <4>3. k = i
        BY <2>2, <4>2
      <4> QED
        BY <2>8, <4>3
    <3>3. CASE d # taken + 1
      <4>1. d \in 1..taken
        BY <1>2, <3>1, <3>3
      <4> QED
        BY <2>10, <4>1 DEF NoneLeft
    <3> QED
      BY <3>2, <3>3
  <2> QED
    BY <2>9, <2>10 DEF NoneLeft
<1> QED
  BY <1>1, <1>2

-----------------------------------------------------------------------------
(***************************************************************************)
(* The steps keep the order and the place.                                 *)
(***************************************************************************)

OrderInv == OrderOf(AfterDiscard, taken + 1, received)

PlaceInv ==
  /\ source.link # "udp" => PlaceOf(AfterDiscard, taken, received)
  /\ source.link = "udp" /\ source.perDatagram = 1 => NoneLeft(AfterDiscard, taken, received)

LEMMA SameLinkSameOrder ==
  ASSUME source' = source, wire' = wire, OrderOf(AfterDiscard', taken' + 1, received')
  PROVE  OrderInv'
<1>1. (source' = source) /\ (wire' = wire)
  OBVIOUS
<1>2. PICK held, next, found : held = AfterDiscard' /\ next = taken' /\ found = received'
  OBVIOUS
<1>3. OrderOf(held, next + 1, found)
  BY <1>2
<1>4. OrderOf(held, next + 1, found)'
  <2>1. DeliveredFrom(1)' = DeliveredFrom(1) /\ DeliveredFrom(next + 1)' = DeliveredFrom(next + 1)
    BY <1>1 DEF DeliveredFrom
  <2>2. \A r \in 1..Len(found) : IntactIn(DeliveredFrom(1), found[r]) = IntactIn(DeliveredFrom(1), found[r])'
    BY <1>1, <2>1 DEF IntactIn
  <2> QED
    BY <1>3, <2>1, <2>2 DEF OrderOf
<1>5. OrderOf(AfterDiscard, taken + 1, received)'
  BY <1>2, <1>4 DEF OrderOf
<1> QED
  BY <1>5 DEF OrderInv

LEMMA SameLinkSamePlace ==
  ASSUME source' = source, wire' = wire,
         source.link # "udp" => PlaceOf(AfterDiscard', taken', received'),
         source.link = "udp" /\ source.perDatagram = 1 => NoneLeft(AfterDiscard', taken', received')
  PROVE  PlaceInv'
<1>1. (source' = source) /\ (wire' = wire)
  OBVIOUS
<1>2. PICK held, n, found : held = AfterDiscard' /\ n = taken' /\ found = received'
  OBVIOUS
<1>3. (source.link # "udp" => PlaceOf(held, n, found)')
      /\ (source.link = "udp" /\ source.perDatagram = 1 => NoneLeft(held, n, found)')
  <2>1. /\ source.link # "udp" => PlaceOf(held, n, found)
        /\ source.link = "udp" /\ source.perDatagram = 1 => NoneLeft(held, n, found)
    BY <1>2
  <2>2. PlaceOf(held, n, found) => PlaceOf(held, n, found)'
    BY <1>1 DEF PlaceOf
  <2>3. NoneLeft(held, n, found) => NoneLeft(held, n, found)'
    BY <1>1 DEF NoneLeft
  <2> QED
    BY <2>1, <2>2, <2>3
<1>4. PlaceOf(held, n, found)' => PlaceOf(AfterDiscard, taken, received)'
  BY <1>2 DEF PlaceOf
<1>5. NoneLeft(held, n, found)' => NoneLeft(AfterDiscard, taken, received)'
  BY <1>2 DEF NoneLeft
<1> QED
  BY <1>1, <1>3, <1>4, <1>5 DEF PlaceInv

\* A frame that one call finds comes after those found before.
LEMMA ReceivesInOrder ==
  ASSUME StreamInv, OrderInv, PlaceInv, NEW result \in Receive2, Reads(result), UNCHANGED linkVars
  PROVE  /\ OrderInv' /\ PlaceInv'
         /\ result.found.frame # 0 => \A r \in 1..Len(received) : received[r] < result.found.frame
<1> DEFINE held == AfterDiscard  room == Capacity - Len(held)  read == Read(room)
           buf == held \o read.symbols  found == result.found  frame == found.frame
           kept == Rest(found)
           more == IF frame = 0 THEN received ELSE Append(received, frame)
<1>1. /\ LinkInv /\ BufferInv /\ source \in Sources
      /\ held \in Seq(Symbol(source)) /\ room \in Nat /\ buf \in Buffers
      /\ result.taken = read.taken /\ found = FindFrame(buf)
      /\ frame \in {0} \cup DOMAIN source.frames
  BY Receive2Is, Receive2Bounds DEF StreamInv, LinkInv
<1>2. /\ read.symbols \in Seq(Symbol(source)) /\ read.taken \in Nat /\ taken <= read.taken
      /\ read.taken <= Len(wire) /\ taken \in Nat /\ Len(wire) \in Nat
  <2>1. taken \in Nat /\ arrived \in Nat /\ arrived <= Len(wire) /\ Len(wire) \in Nat
    BY <1>1, WireIs DEF LinkInv
  <2>2. read.symbols \in Seq(Symbol(source)) /\ read.taken \in taken..arrived
    BY <1>1, ReadBounds
  <2> HIDE DEF read
  <2> QED
    BY <2>1, <2>2
<1>3. received \in Seq(DOMAIN source.frames)
  BY DEF StreamInv, FramesInv
<1>4. PICK c \in 0..Len(buf) : KeepsFrom(buf, found, c)
  BY <1>1, FindFrameKeeps
<1>5. AfterDiscard' = kept /\ taken' = read.taken /\ received' = more
  BY <1>1 DEF Reads, AfterDiscard, Rest
<1> HIDE DEF held, room, read, buf, found, frame, kept
<1>6. /\ kept \in Seq(Symbol(source)) /\ Len(kept) = Len(buf) - c
      /\ \A a \in 1..Len(kept) : kept[a] = buf[c + a]
  <2>1. buf \in Seq(Symbol(source)) /\ Len(buf) \in Nat
    BY <1>1, LenProperties DEF Buffers
  <2> DEFINE first == c + 1  final == Len(buf)
  <2>2. first \in Int /\ final \in Int /\ \A k \in first..final : buf[k] \in Symbol(source)
    BY <2>1, ElementOfSeq
  <2>3. /\ (IF first <= final THEN final - first + 1 ELSE 0) = Len(buf) - c
        /\ final - first + 1 = Len(buf) - c
        /\ \A a \in 1..(Len(buf) - c) : first + a - 1 = c + a
    BY <2>1
  <2>4. kept = SubSeq(buf, first, final)
    BY <1>4 DEF KeepsFrom, kept
  <2> HIDE DEF first, final
  <2>5. /\ kept \in Seq(Symbol(source)) /\ Len(kept) = Len(buf) - c
        /\ \A a \in 1..(Len(buf) - c) : kept[a] = buf[first + a - 1]
    BY <2>2, <2>3, <2>4, SubSeqProperties
  <2> QED
    BY <2>3, <2>5
<1>7. /\ frame # 0 => \E p \in Nat : LiesAt(source.frames, buf, p, frame)
                                     /\ c = p + Len(Symbols(source.frames, frame))
      /\ \A i \in DOMAIN source.frames, p \in Nat : StartsIn(buf, p, i) => c <= p \/ frame = i
      /\ \A i \in DOMAIN source.frames : LiesAt(source.frames, buf, 0, i) => frame = i
  BY <1>4 DEF KeepsFrom, frame
<1>8. /\ ReadsOn(read.symbols, read.taken)
      /\ source.link # "udp" => /\ read.taken = taken + Len(read.symbols)
                                /\ \A a \in 1..Len(read.symbols) : read.symbols[a] = wire[taken + a]
      /\ source.link = "udp" =>
           \/ read.symbols = <<>> /\ read.taken = taken
           \/ /\ taken + 1 \in 1..Len(wire) /\ read.taken = taken + 1
              /\ read.symbols = SubSeq(wire[taken + 1], 1, Min({room, Len(wire[taken + 1])}))
  <2>1. CASE source.link # "udp"
    BY <1>1, <2>1, ReadStream DEF read
  <2>2. CASE source.link = "udp"
    BY <1>1, <2>2, ReadDatagram DEF read
  <2> QED
    BY <2>1, <2>2
<1>9. OrderOf(buf, read.taken + 1, received)
  <2>1. OrderOf(held, taken + 1, received)
    BY DEF OrderInv, held
  <2> QED
    BY <1>1, <1>2, <1>8, <2>1, ReadingKeepsOrder DEF buf
<1>10. OrderOf(kept, read.taken + 1, more) /\ (frame # 0 => \A r \in 1..Len(received) : received[r] < frame)
  <2>1. read.taken + 1 \in Nat /\ 1 <= read.taken + 1
    BY <1>2
  <2> QED
    BY <1>1, <1>3, <1>6, <1>7, <1>9, <2>1, FindingKeepsOrder
<1>11. OrderInv'
  BY <1>5, <1>10, SameLinkSameOrder DEF linkVars
<1>12. ToSet(received) \subseteq ToSet(more) /\ (frame \in DOMAIN source.frames => frame \in ToSet(more))
  <2>1. CASE frame = 0
    <3>1. 0 \notin DOMAIN source.frames
      BY <1>1, FramesAre
    <3> QED
      BY <2>1, <3>1
  <2>2. CASE frame # 0
    <3>1. /\ Len(received) \in Nat /\ DOMAIN received = 1..Len(received)
          /\ DOMAIN Append(received, frame) = 1..Len(Append(received, frame))
          /\ Len(Append(received, frame)) = Len(received) + 1
          /\ Append(received, frame)[Len(received) + 1] = frame
          /\ \A r \in 1..Len(received) : Append(received, frame)[r] = received[r]
      <4>1. frame \in DOMAIN source.frames
        BY <1>1, <2>2
      <4> QED
        BY <1>3, <4>1, AppendProperties, LenProperties
    <3>2. 1..Len(received) \subseteq 1..(Len(received) + 1) /\ Len(received) + 1 \in 1..(Len(received) + 1)
      BY <3>1
    <3>3. ToSet(received) \subseteq ToSet(Append(received, frame)) /\ frame \in ToSet(Append(received, frame))
      BY <3>1, <3>2 DEF ToSet
    <3> QED
      BY <2>2, <3>3
  <2> QED
    BY <2>1, <2>2
<1> HIDE DEF more
<1>13. source.link # "udp" => PlaceOf(kept, read.taken, more)
  <2> SUFFICES ASSUME source.link # "udp" PROVE PlaceOf(kept, read.taken, more)
    OBVIOUS
  <2>1. PlaceOf(held, taken, received)
    BY DEF PlaceInv, held
  <2>2. /\ read.taken = taken + Len(read.symbols)
        /\ \A a \in 1..Len(read.symbols) : read.symbols[a] = wire[taken + a]
        /\ taken + Len(read.symbols) <= Len(wire)
    BY <1>2, <1>8
  <2>3. PlaceOf(kept, taken + Len(read.symbols), more)
    BY <1>1, <1>2, <1>6, <1>7, <1>12, <2>1, <2>2, StreamPlace DEF buf
  <2> QED
    BY <2>2, <2>3
<1>14. source.link = "udp" /\ source.perDatagram = 1 => NoneLeft(kept, read.taken, more)
  <2> SUFFICES ASSUME source.link = "udp", source.perDatagram = 1 PROVE NoneLeft(kept, read.taken, more)
    OBVIOUS
  <2>1. NoneLeft(held, taken, received)
    BY DEF PlaceInv, held
  <2>2. held = <<>>
    BY <2>1 DEF NoneLeft
  <2>3. room = Capacity
    BY <2>2, EmptySeq, BufferAssumption DEF room
  <2>4. buf = read.symbols
    BY <1>2, <2>2, ConcatEmptySeq DEF buf
  <2>5. NoneLeft(<<>>, taken, received)
    BY <2>1, <2>2
  <2>6. \/ buf = <<>> /\ read.taken = taken
        \/ /\ taken + 1 \in 1..Len(wire) /\ read.taken = taken + 1
           /\ buf = SubSeq(wire[taken + 1], 1, Min({Capacity, Len(wire[taken + 1])}))
    BY <1>8, <2>3, <2>4, Zenon
  <2> HIDE DEF buf
  <2> QED
    BY <1>1, <1>6, <1>7, <1>12, <2>5, <2>6, DatagramUsed
<1>15. PlaceInv'
  BY <1>5, <1>13, <1>14, SameLinkSamePlace DEF linkVars
<1> QED
  BY <1>10, <1>11, <1>15 DEF frame, found

-----------------------------------------------------------------------------
(***************************************************************************)
(* The logs published are those found since the callback was set.          *)
(***************************************************************************)

Sent(found, skipped) ==
  {found[k] : k \in {k \in (skipped + 1)..Len(found) : IsLog(found[k])}}

PublishedInv ==
  /\ \A j, k \in DOMAIN published : j < k => published[j] < published[k]
  /\ ToSet(published) = Sent(received, ignored)
  /\ phase = "configure" => published = <<>>

\* One frame more is found.
LEMMA SentNext ==
  ASSUME NEW found \in Seq(DOMAIN source.frames), NEW frame \in DOMAIN source.frames,
         NEW skipped \in 0..Len(found)
  PROVE  Sent(Append(found, frame), skipped)
           = Sent(found, skipped) \cup (IF IsLog(frame) THEN {frame} ELSE {})
<1> DEFINE more == Append(found, frame)
<1>1. /\ Len(found) \in Nat /\ Len(more) = Len(found) + 1 /\ more[Len(found) + 1] = frame
      /\ \A k \in 1..Len(found) : more[k] = found[k]
  BY AppendProperties, LenProperties
<1>2. PICK n \in Nat : n = Len(found)
  BY <1>1
<1> HIDE DEF more
<1>3. /\ (skipped + 1)..(n + 1) = ((skipped + 1)..n) \cup {n + 1}
      /\ (skipped + 1)..n \subseteq 1..n
  BY <1>2
<1>4. /\ \A k \in (skipped + 1)..n : more[k] = found[k]
      /\ more[n + 1] = frame
  BY <1>1, <1>2, <1>3
<1>5. /\ Sent(more, skipped) = {more[k] : k \in {k \in (skipped + 1)..(n + 1) : IsLog(more[k])}}
      /\ Sent(found, skipped) = {found[k] : k \in {k \in (skipped + 1)..n : IsLog(found[k])}}
  BY <1>1, <1>2 DEF Sent
<1>6. Sent(more, skipped) = Sent(found, skipped) \cup (IF IsLog(frame) THEN {frame} ELSE {})
  <2> HIDE DEF Sent
  <2> QED
    BY <1>3, <1>4, <1>5
<1> QED
  BY <1>6 DEF more

\* One log more is published.
LEMMA OneMore ==
  ASSUME NEW logs \in Seq(DOMAIN source.frames), NEW frame \in DOMAIN source.frames
  PROVE  /\ ToSet(Append(logs, frame)) = ToSet(logs) \cup {frame}
         /\ (/\ \A j, k \in DOMAIN logs : j < k => logs[j] < logs[k]
             /\ \A t \in ToSet(logs) : t < frame)
              => \A j, k \in DOMAIN Append(logs, frame) :
                   j < k => Append(logs, frame)[j] < Append(logs, frame)[k]
<1> DEFINE more == Append(logs, frame)
<1>1. /\ Len(logs) \in Nat /\ DOMAIN logs = 1..Len(logs)
      /\ DOMAIN more = 1..(Len(logs) + 1) /\ more[Len(logs) + 1] = frame
      /\ \A k \in 1..Len(logs) : more[k] = logs[k]
  <2>1. Len(logs) \in Nat /\ DOMAIN logs = 1..Len(logs)
    BY LenProperties
  <2>2. /\ more \in Seq(DOMAIN source.frames) /\ Len(more) = Len(logs) + 1 /\ more[Len(logs) + 1] = frame
        /\ \A k \in 1..Len(logs) : more[k] = logs[k]
    BY AppendProperties
  <2>3. DOMAIN more = 1..Len(more)
    BY <2>2, LenProperties
  <2> QED
    BY <2>1, <2>2, <2>3
<1> HIDE DEF more
<1>2. 1..(Len(logs) + 1) = 1..Len(logs) \cup {Len(logs) + 1}
  BY <1>1
<1>3. ToSet(more) = ToSet(logs) \cup {frame}
  BY <1>1, <1>2 DEF ToSet
<1>4. ASSUME \A j, k \in DOMAIN logs : j < k => logs[j] < logs[k], \A t \in ToSet(logs) : t < frame,
             NEW j \in DOMAIN more, NEW k \in DOMAIN more, j < k
      PROVE  more[j] < more[k]
  <2>1. j \in 1..Len(logs) /\ (k \in 1..Len(logs) \/ k = Len(logs) + 1)
    BY <1>1, <1>4
  <2>2. CASE k \in 1..Len(logs)
    BY <1>1, <1>4, <2>1, <2>2
  <2>3. CASE k = Len(logs) + 1
    <3>1. logs[j] \in ToSet(logs)
      BY <1>1, <2>1 DEF ToSet
    <3> QED
      BY <1>1, <1>4, <2>1, <2>3, <3>1
  <2> QED
    BY <2>1, <2>2, <2>3
<1> QED
  BY <1>3, <1>4 DEF more

-----------------------------------------------------------------------------
(***************************************************************************)
(* The invariant of the two properties.                                    *)
(***************************************************************************)

FoundInv == OrderInv /\ PlaceInv /\ PublishedInv /\ PaceInv

LEMMA InitFound == Init => FoundInv
<1> SUFFICES ASSUME Init PROVE FoundInv
  OBVIOUS
<1>1. /\ taken = 0 /\ rxBuffer = <<>> /\ discardSize = 0 /\ received = <<>> /\ ignored = 0
      /\ published = <<>> /\ log_replay_last_timestamp_ = 0 /\ slept = 0
  BY DEF Init
<1>2. Len(<<>>) = 0 /\ 1..0 = {} /\ DOMAIN <<>> = {}
  BY EmptySeq
<1>3. AfterDiscard = <<>>
  <2>1. AfterDiscard = SubSeq(<<>>, 0 + 1, 0)
    BY <1>1, <1>2 DEF AfterDiscard
  <2> QED
    BY <2>1, SubSeqEmpty
<1>4. OrderInv
  BY <1>1, <1>2, <1>3 DEF OrderInv, OrderOf, Ordered
<1>5. PlaceInv
  BY <1>1, <1>2, <1>3 DEF PlaceInv, PlaceOf, NoneLeft
<1>6. PublishedInv
  <2>1. ToSet(<<>>) = {}
    BY <1>2 DEF ToSet
  <2>2. Sent(<<>>, 0) = {}
    BY <1>2 DEF Sent
  <2> QED
    BY <1>1, <1>2, <2>1, <2>2 DEF PublishedInv
<1>7. PaceInv
  BY <1>1, <1>2 DEF PaceInv, Stamped
<1> QED
  BY <1>4, <1>5, <1>6, <1>7 DEF FoundInv

\* A step that publishes nothing keeps the pace.
LEMMA SamePace ==
  ASSUME PaceInv, UNCHANGED replayVars, source' = source
  PROVE  PaceInv'
BY Zenon DEF PaceInv, Steady, Stamped, StampAt, replayVars

\* Nor does one that reads nothing lose a frame.
LEMMA SameFound ==
  ASSUME FoundInv, UNCHANGED <<source, wire, readerVars, ignored, replayVars>>,
         phase' = "configure" => phase = "configure"
  PROVE  FoundInv'
<1>1. /\ source' = source /\ wire' = wire /\ taken' = taken /\ rxBuffer' = rxBuffer
      /\ discardSize' = discardSize /\ received' = received /\ ignored' = ignored
      /\ UNCHANGED replayVars /\ published' = published
  BY DEF readerVars, replayVars
<1>2. AfterDiscard' = AfterDiscard
  BY <1>1 DEF AfterDiscard
<1>3. OrderInv'
  BY <1>1, <1>2, SameLinkSameOrder DEF FoundInv, OrderInv
<1>4. PlaceInv'
  BY <1>1, <1>2, SameLinkSamePlace DEF FoundInv, PlaceInv
<1>5. PublishedInv'
  BY <1>1 DEF FoundInv, PublishedInv, Sent, IsLog
<1>6. PaceInv'
  BY <1>1, SamePace DEF FoundInv
<1> QED
  BY <1>3, <1>4, <1>5, <1>6 DEF FoundInv

LEMMA StepFound == StreamInv /\ FoundInv /\ [Next]_vars => FoundInv'
<1> SUFFICES ASSUME StreamInv, FoundInv, [Next]_vars PROVE FoundInv'
  OBVIOUS
<1>1. /\ received \in Seq(DOMAIN source.frames) /\ published \in Seq(DOMAIN source.frames)
      /\ Len(received) \in Nat /\ ignored \in 0..Len(received)
  BY LenProperties DEF StreamInv, FramesInv
<1>2. CASE ReceiveAnyCmd
  <2>1. PICK result \in Receive2 : Reads(result)
    BY <1>2 DEF ReceiveAnyCmd
  <2>2. /\ UNCHANGED linkVars /\ UNCHANGED replayVars /\ source' = source
        /\ phase = "configure" /\ ignored' = Len(received') /\ published' = published
    BY <1>2 DEF ReceiveAnyCmd, linkVars, replayVars
  <2>3. OrderInv' /\ PlaceInv'
    BY <2>1, <2>2, ReceivesInOrder DEF FoundInv
  <2>4. PublishedInv'
    <3>1. published = <<>>
      BY <2>2 DEF FoundInv, PublishedInv
    <3>2. Sent(received, ignored)' = {}
      <4>1. Len(received') \in Nat
        BY <2>1, <2>2, ReadsKeeps
      <4>2. (ignored' + 1)..Len(received') = {}
        BY <2>2, <4>1
      <4> QED
        BY <4>2 DEF Sent
    <3>3. ToSet(<<>>) = {} /\ DOMAIN <<>> = {}
      BY EmptySeq DEF ToSet
    <3> QED
      BY <2>2, <3>1, <3>2, <3>3 DEF PublishedInv
  <2>5. PaceInv'
    BY <2>2, SamePace DEF FoundInv
  <2> QED
    BY <2>3, <2>4, <2>5 DEF FoundInv
<1>3. CASE HandleOneLog
  <2>1. PICK result \in Receive2 :
          /\ Reads(result)
          /\ IF result.found.frame # 0 /\ IsLog(result.found.frame)
               THEN onLogReceived(result.found.frame) ELSE UNCHANGED replayVars
    BY <1>3 DEF HandleOneLog
  <2>2. /\ UNCHANGED linkVars /\ source' = source /\ ignored' = ignored /\ phase = "handle"
        /\ phase' # "configure"
    BY <1>3 DEF HandleOneLog, linkVars
  <2>3. PICK frame \in {0} \cup DOMAIN source.frames : frame = result.found.frame
    BY <2>1, <2>2, ReadsKeeps
  <2>4. /\ OrderInv' /\ PlaceInv'
        /\ frame # 0 => \A r \in 1..Len(received) : received[r] < frame
    BY <2>1, <2>2, <2>3, ReceivesInOrder DEF FoundInv
  <2>5. received' = IF frame = 0 THEN received ELSE Append(received, frame)
    BY <2>1, <2>3 DEF Reads
  <2>6. Sent(received, ignored)' = Sent(received', ignored)
    BY <2>2 DEF Sent, IsLog
  <2>7. CASE frame # 0 /\ IsLog(frame)
    <3>1. frame \in DOMAIN source.frames /\ onLogReceived(frame)
      BY <2>1, <2>3, <2>7
    <3>2. published' = Append(published, frame)
      BY <3>1 DEF onLogReceived
    <3>3. Sent(received, ignored)' = Sent(received, ignored) \cup {frame}
      BY <1>1, <2>5, <2>6, <2>7, <3>1, SentNext
    <3>4. \A t \in ToSet(published) : t < frame
      <4>1. ToSet(published) = Sent(received, ignored)
        BY DEF FoundInv, PublishedInv
      <4>2. (ignored + 1)..Len(received) \subseteq 1..Len(received)
        BY <1>1
      <4> QED
        BY <2>4, <2>7, <4>1, <4>2 DEF Sent
    <3>5. PublishedInv'
      <4>1. ToSet(published') = ToSet(published) \cup {frame}
        BY <1>1, <3>1, <3>2, OneMore
      <4>2. \A j, k \in DOMAIN published' : j < k => published'[j] < published'[k]
        <5>1. \A j, k \in DOMAIN published : j < k => published[j] < published[k]
          BY DEF FoundInv, PublishedInv
        <5> QED
          BY <1>1, <3>1, <3>2, <3>4, <5>1, OneMore
      <4> QED
        BY <2>2, <3>3, <4>1, <4>2 DEF FoundInv, PublishedInv
    <3>6. PaceInv'
      BY <2>2, <2>7, <3>1, LogKeepsPace DEF FoundInv
    <3> QED
      BY <2>4, <3>5, <3>6 DEF FoundInv
  <2>8. CASE ~(frame # 0 /\ IsLog(frame))
    <3>1. UNCHANGED replayVars /\ published' = published
      BY <2>1, <2>3, <2>8 DEF replayVars
    <3>2. Sent(received, ignored)' = Sent(received, ignored)
      <4>1. CASE frame = 0
        BY <2>5, <2>6, <4>1
      <4>2. CASE frame # 0
        <5>1. frame \in DOMAIN source.frames /\ ~IsLog(frame)
          BY <2>8, <4>2
        <5>2. Sent(Append(received, frame), ignored) = Sent(received, ignored) \cup {}
          BY <1>1, <5>1, SentNext
        <5> QED
          BY <2>5, <2>6, <4>2, <5>2
      <4> QED
        BY <4>1, <4>2
    <3>3. PublishedInv'
      BY <2>2, <3>1, <3>2 DEF FoundInv, PublishedInv
    <3>4. PaceInv'
      BY <2>2, <3>1, SamePace DEF FoundInv
    <3> QED
      BY <2>4, <3>3, <3>4 DEF FoundInv
  <2> QED
    BY <2>7, <2>8
<1>4. CASE SetReceiveLogCallback
  BY <1>4, SameFound DEF SetReceiveLogCallback, linkVars
<1>5. CASE Spin
  BY <1>5, SameFound DEF Spin, linkVars
<1>6. CASE Arrive
  BY <1>6, SameFound DEF Arrive
<1>7. CASE UNCHANGED vars
  BY <1>7, SameFound DEF vars, linkVars
<1> QED
  BY <1>2, <1>3, <1>4, <1>5, <1>6, <1>7 DEF Next

\* While a file whose stamps do not go back is replayed, the driver has slept, at each
\* log, from the first stamp to the last: whatever frames the file holds, whichever of
\* them is damaged, and however the reads cut them.
THEOREM ReplayPace == Spec => []ReplayKeepsPace
<1>1. StreamInv /\ FoundInv => ReplayKeepsPace
  <2> SUFFICES ASSUME StreamInv, FoundInv, source.link = "file", Stamped # {}, Steady
               PROVE  slept = StampAt(Max(Stamped)) - StampAt(Min(Stamped))
    BY Zenon DEF ReplayKeepsPace, Steady, Stamped, StampAt
  <2>1. PICK f \in Stamped, l \in Stamped :
          (\A k \in Stamped : f <= k /\ k <= l) /\ slept = StampAt(l) - StampAt(f)
    BY DEF FoundInv, PaceInv
  <2>2. Stamped \subseteq Nat
    BY LenProperties DEF Stamped, StreamInv, FramesInv
  <2>3. Max(Stamped) = l
    <3>1. l \in Stamped /\ \A k \in Stamped : l >= k
      BY <2>1, <2>2
    <3>2. \A m \in Stamped : (\A k \in Stamped : m >= k) => m = l
      BY <2>1, <2>2
    <3> QED
      BY <3>1, <3>2 DEF Max
  <2>4. Min(Stamped) = f
    <3>1. f \in Stamped /\ \A k \in Stamped : f <= k
      BY <2>1, <2>2
    <3>2. \A m \in Stamped : (\A k \in Stamped : m <= k) => m = f
      BY <2>1, <2>2
    <3> QED
      BY <3>1, <3>2 DEF Min
  <2> QED
    BY <2>1, <2>3, <2>4
<1> QED
  BY <1>1, InitStream, InitFound, StepStream, StepFound, PTL DEF Spec

\* What arrives whole is found or can still be.
LEMMA StillThere ==
  ASSUME StreamInv, PlaceInv, KeepsDatagrams, NEW i \in DOMAIN source.frames,
         IntactIn(DeliveredFrom(1), i)
  PROVE  i \in ToSet(received) \/ IntactIn(Ahead, i)
<1> DEFINE S == Symbols(source.frames, i)
<1>1. /\ LinkInv /\ source \in Sources /\ taken \in Nat /\ Len(wire) \in Nat /\ taken <= Len(wire)
      /\ i \in 1..Len(source.frames)
  <2>1. LinkInv /\ Len(wire) \in Nat
    BY WireIs DEF StreamInv, LinkInv
  <2> QED
    BY <2>1, FramesAre DEF LinkInv
<1>2. /\ i # 0 /\ Len(S) \in Nat /\ \A j \in 1..Len(S) : S[j] \in Symbol(source) /\ S[j].of = i
      /\ 1 \in 1..Len(S) /\ DOMAIN S = 1..Len(S)
  <2>1. DOMAIN S = 1..Len(S)
    BY <1>1, FramesAre, SymbolsAre, LenProperties
  <2> QED
    BY <1>1, <2>1, FrameSymbols
<1>3. /\ \A j \in 1..Len(S) : S[j] \in DeliveredFrom(1)
      /\ (\A j \in 1..Len(S) : S[j] \in Ahead) => IntactIn(Ahead, i)
  BY <1>2 DEF IntactIn, ToSet
<1> HIDE DEF S
<1>4. CASE source.link # "udp"
  <2>1. Whole(source.frames, wire, i)
    <3>1. \A j \in 1..Len(S) : \E k \in 1..Len(wire) : S[j] = wire[k]
      BY <1>3, <1>4 DEF DeliveredFrom
    <3> QED
      BY <3>1 DEF Whole, S
  <2>2. PICK p \in Nat : LiesAt(source.frames, wire, p, i)
    BY <1>1, <1>4, <2>1, StreamsAre DEF LinkInv, WellPlaced
  <2>3. /\ AfterDiscard \in Seq(Symbol(source)) /\ Len(AfterDiscard) \in Nat
        /\ DOMAIN AfterDiscard = 1..Len(AfterDiscard)
    <3>1. AfterDiscard \in Seq(Symbol(source))
      <4>1. rxBuffer \in Seq(Symbol(source)) /\ Len(rxBuffer) \in Nat /\ discardSize \in Nat
        BY LenProperties DEF StreamInv, BufferInv, Buffers
      <4>2. /\ discardSize + 1 \in Int /\ Len(rxBuffer) \in Int
            /\ \A k \in (discardSize + 1)..Len(rxBuffer) : rxBuffer[k] \in Symbol(source)
        BY <4>1, ElementOfSeq
      <4> QED
        BY <4>2, SubSeqProperties DEF AfterDiscard
    <3> QED
      BY <3>1, LenProperties
  <2> DEFINE base == taken - Len(AfterDiscard)
  <2>4. /\ Len(AfterDiscard) <= taken
        /\ \A a \in 1..Len(AfterDiscard) : AfterDiscard[a] = wire[base + a]
        /\ base <= p \/ i \in ToSet(received)
    BY <1>4, <2>2 DEF PlaceInv, PlaceOf
  <2>5. ASSUME base <= p, NEW j \in 1..Len(S)
        PROVE  S[j] \in Ahead
    <3>1. S[j] = wire[p + j] /\ p + j <= Len(wire)
      <4>1. S[j] = wire[p + j] /\ p + Len(S) <= Len(wire)
        BY <2>2 DEF LiesAt, S
      <4> QED
        BY <1>1, <1>2, <4>1
    <3>2. CASE p + j <= taken
      <4>1. (p + j) - base \in 1..Len(AfterDiscard) /\ base + ((p + j) - base) = p + j
        BY <1>1, <1>2, <2>3, <2>4, <2>5, <3>2
      <4>2. S[j] = AfterDiscard[(p + j) - base]
        BY <2>4, <3>1, <4>1
      <4>3. S[j] \in ToSet(AfterDiscard)
        BY <2>3, <4>1, <4>2 DEF ToSet
      <4> QED
        BY <4>3 DEF Ahead
    <3>3. CASE ~(p + j <= taken)
      <4>1. p + j \in (taken + 1)..Len(wire)
        BY <1>1, <1>2, <3>1, <3>3
      <4>2. S[j] \in DeliveredFrom(taken + 1)
        BY <1>4, <3>1, <4>1 DEF DeliveredFrom
      <4> QED
        BY <4>2 DEF Ahead
    <3> QED
      BY <3>2, <3>3
  <2> QED
    BY <1>3, <2>4, <2>5
<1>5. CASE source.link = "udp"
  <2>1. source.perDatagram = 1
    BY <1>5 DEF KeepsDatagrams
  <2>2. PICK d \in 1..Len(wire) : S[1] \in ToSet(wire[d])
    BY <1>2, <1>3, <1>5 DEF DeliveredFrom
  <2>3. wire[d] = S
    <3>1. OneInEach(source.frames, wire)
      BY <1>1, <1>5, <2>1, WiresOfDatagrams DEF LinkInv
    <3>2. PICK k \in 1..Len(source.frames) : wire[d] = Symbols(source.frames, k)
      BY <3>1 DEF OneInEach
    <3>3. k \in DOMAIN source.frames /\ DOMAIN wire[d] = 1..Len(wire[d])
      BY <1>1, <3>2, FramesAre, SymbolsAre, LenProperties
    <3>4. \A j \in 1..Len(wire[d]) : wire[d][j].of = k
      BY <1>1, <3>2, <3>3, FrameSymbols
    <3>5. S[1].of = k
      BY <2>2, <3>3, <3>4 DEF ToSet
    <3> QED
      BY <1>2, <3>2, <3>5 DEF S
  <2>4. CASE d \in 1..taken
    BY <1>5, <2>1, <2>3, <2>4 DEF PlaceInv, NoneLeft, S
  <2>5. CASE d \notin 1..taken
    <3>1. d \in (taken + 1)..Len(wire)
      BY <1>1, <2>5
    <3>2. \A j \in 1..Len(S) : S[j] \in ToSet(wire[d])
      BY <1>2, <2>3 DEF ToSet
    <3>3. \A j \in 1..Len(S) : S[j] \in DeliveredFrom(taken + 1)
      BY <1>5, <3>1, <3>2 DEF DeliveredFrom
    <3> QED
      BY <1>3, <3>3 DEF Ahead
  <2> QED
    BY <2>4, <2>5
<1> QED
  BY <1>4, <1>5

\* For any frames, whichever symbol or datagram is lost or changed on the way, however the
\* stream is cut and in any order of the steps: a frame that arrives whole is found or
\* still can be; what is found arrived whole, each once and in the order it was sent; and
\* each log found since the callback was set is published once, in that order.
THEOREM NothingLost == Spec => []NothingDropped
<1>1. StreamInv /\ FoundInv => NothingDropped
  <2> SUFFICES ASSUME StreamInv, FoundInv PROVE NothingDropped
    OBVIOUS
  <2>1. KeepsDatagrams =>
          \A i \in DOMAIN source.frames :
            IntactIn(DeliveredFrom(1), i) => i \in ToSet(received) \/ IntactIn(Ahead, i)
    BY StillThere DEF FoundInv
  <2>2. DOMAIN received = 1..Len(received)
    BY LenProperties DEF StreamInv, FramesInv
  <2>3. /\ \A k \in DOMAIN received : IntactIn(DeliveredFrom(1), received[k])
        /\ \A j, k \in DOMAIN received : j < k => received[j] < received[k]
    BY <2>2 DEF FoundInv, OrderInv, OrderOf
  <2>4. /\ \A j, k \in DOMAIN published : j < k => published[j] < published[k]
        /\ ToSet(published) = Sent(received, ignored)
    BY DEF FoundInv, PublishedInv
  <2> QED
    BY <2>1, <2>3, <2>4, Zenon DEF NothingDropped, Sent
<1> QED
  BY <1>1, InitStream, InitFound, StepStream, StepFound, PTL DEF Spec

=============================================================================
