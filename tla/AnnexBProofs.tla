---------------------------- MODULE AnnexBProofs ----------------------------
(***************************************************************************)
(* Proofs about split_nals for streams of any length: what it returns for  *)
(* a stream an encoder writes is the stream's NAL units.                   *)
(*                                                                         *)
(* Both Nals and the community modules' FlattenSeq are recursive, so that  *)
(* they satisfy their own equations has to be proved, by induction over    *)
(* the positions.  SetInduction is induction with the set of the numbers   *)
(* for which something holds in place of a predicate.                      *)
(***************************************************************************)
EXTENDS AnnexB, WellFoundedInduction, TLAPS

(***************************************************************************)
(* Natural numbers.                                                        *)
(***************************************************************************)
\* A set of natural numbers has a least element.
LEMMA NatMin ==
    ASSUME NEW S \in SUBSET Nat, S # {}
    PROVE  \E x \in S : \A y \in S : x <= y
<1> DEFINE R == {ss \in Nat \X Nat : ss[1] < ss[2]}
<1>1. IsWellFoundedOn(R, Nat)
  BY NatLessThanWellFounded DEF OpToRel
<1> HIDE DEF R
<1>2. PICK x \in S : \A y \in S : ~(<<y, x>> \in R)
  BY <1>1, WFMin
<1>3. ASSUME NEW y \in S, y < x PROVE <<y, x>> \in R
  BY <1>3 DEF R
<1>4. \A y \in S : ~(y < x)
  BY <1>2, <1>3
<1> QED BY <1>4

\* A set with 0, and with every successor of its numbers, has them all.
LEMMA SetInduction ==
    ASSUME NEW G, 0 \in G, \A k \in Nat : k \in G => k + 1 \in G
    PROVE  \A k \in Nat : k \in G
<1> SUFFICES ASSUME NEW j \in Nat, j \notin G PROVE FALSE
  OBVIOUS
<1>1. PICK k \in Nat \ G : \A y \in Nat \ G : k <= y
  <2>1. Nat \ G \in SUBSET Nat /\ Nat \ G # {}
    OBVIOUS
  <2> QED BY <2>1, NatMin
<1>2. k # 0 /\ k - 1 \in Nat /\ ~(k <= k - 1)
  OBVIOUS
<1>3. k - 1 \in G
  BY <1>1, <1>2
<1>4. (k - 1) + 1 \in G
  BY <1>2, <1>3
<1> QED BY <1>2, <1>4

\* Min and Max of the sets split_nals's model asks for.
LEMMA MinIs ==
    ASSUME NEW S \in SUBSET Nat, S # {}
    PROVE  Min(S) \in S /\ \A y \in S : Min(S) <= y
BY NatMin DEF Min

LEMMA MinMaxOfTwo ==
    ASSUME NEW a \in Int, NEW b \in Int
    PROVE  /\ Min({a, b}) = IF a <= b THEN a ELSE b
           /\ Max({a, b}) = IF a <= b THEN b ELSE a
<1> DEFINE lo == IF a <= b THEN a ELSE b
           hi == IF a <= b THEN b ELSE a
<1>1. lo \in {a, b} /\ \A y \in {a, b} : lo <= y
  OBVIOUS
<1>2. hi \in {a, b} /\ \A y \in {a, b} : hi >= y
  OBVIOUS
<1>3. \A x \in {a, b} : (\A y \in {a, b} : x <= y) => x = lo
  OBVIOUS
<1>4. \A x \in {a, b} : (\A y \in {a, b} : x >= y) => x = hi
  OBVIOUS
<1>5. Min({a, b}) = lo
  BY <1>1, <1>3 DEF Min
<1>6. Max({a, b}) = hi
  BY <1>2, <1>4 DEF Max
<1> QED BY <1>5, <1>6

(***************************************************************************)
(* FlattenSeq.                                                             *)
(***************************************************************************)
\* The first i sequences one behind the other, for every i.
IsFlat(f, seqs) ==
    f = [i \in 1 .. Len(seqs) |-> IF i = 1 THEN seqs[i] ELSE f[i - 1] \o seqs[i]]

LEMMA FlattenIs ==
    ASSUME NEW S, NEW seqs \in Seq(Seq(S)), seqs # << >>
    PROVE  \E f \in [1 .. Len(seqs) -> Seq(S)] :
              IsFlat(f, seqs) /\ FlattenSeq(seqs) = f[Len(seqs)]
<1>1. PICK n \in Nat : n = Len(seqs) /\ n > 0
  OBVIOUS
<1>2. \A i \in 1 .. n : seqs[i] \in Seq(S)
  BY <1>1
<1> DEFINE Step(f, i) == f[i] = IF i = 1 THEN seqs[i] ELSE f[i - 1] \o seqs[i]
           Built(k) == \E f \in [1 .. n -> Seq(S)] : \A i \in 1 .. k : Step(f, i)
           G == {k \in Nat : k <= n => Built(k)}
<1> HIDE DEF Built
<1>3. 0 \in G
  <2> DEFINE f == [i \in 1 .. n |-> << >>]
  <2>1. << >> \in Seq(S)
    OBVIOUS
  <2>2. f \in [1 .. n -> Seq(S)]
    BY <2>1
  <2> HIDE DEF f
  <2>3. \A i \in 1 .. 0 : Step(f, i)
    OBVIOUS
  <2> QED BY <2>2, <2>3 DEF Built
<1>4. ASSUME NEW k \in Nat, k \in G PROVE k + 1 \in G
  <2> SUFFICES ASSUME k + 1 <= n PROVE Built(k + 1)
    OBVIOUS
  <2>0. Built(k)
    BY <1>4
  <2>1. PICK f \in [1 .. n -> Seq(S)] : \A i \in 1 .. k : Step(f, i)
    BY <2>0 DEF Built
  <2> DEFINE e == IF k = 0 THEN seqs[1] ELSE f[k] \o seqs[k + 1]
             g == [f EXCEPT ![k + 1] = e]
  <2>2. k + 1 \in 1 .. n /\ (k > 0 => k \in 1 .. n) /\ 1 \in 1 .. n
    BY <1>1
  <2>3. e \in Seq(S)
    <3>1. CASE k = 0
      BY <1>2, <2>2, <3>1
    <3>2. CASE k > 0
      <4>1. f[k] \in Seq(S) /\ seqs[k + 1] \in Seq(S)
        BY <1>2, <2>2, <3>2
      <4> QED BY <3>2, <4>1
    <3> QED BY <3>1, <3>2
  <2> HIDE DEF e
  <2>4. g \in [1 .. n -> Seq(S)] /\ g[k + 1] = e
    BY <2>2, <2>3
  <2>5. \A i \in 1 .. k : g[i] = f[i]
    BY <2>2
  <2>6. ASSUME NEW i \in 1 .. k + 1 PROVE Step(g, i)
    <3>1. CASE i = k + 1
      BY <2>2, <2>4, <2>5, <3>1 DEF e
    <3>2. CASE i \in 1 .. k
      <4>1. Step(f, i) /\ g[i] = f[i]
        BY <2>1, <2>5, <3>2
      <4>2. i # 1 => g[i - 1] = f[i - 1]
        BY <2>5, <3>2
      <4> HIDE DEF g
      <4> QED BY <4>1, <4>2
    <3> QED BY <3>1, <3>2
  <2> QED BY <2>4, <2>6 DEF Built
<1>5. n \in G
  <2> HIDE DEF G
  <2> QED BY <1>3, <1>4, SetInduction
<1>6. Built(n)
  BY <1>5
<1>7. PICK f \in [1 .. n -> Seq(S)] : \A i \in 1 .. n : Step(f, i)
  BY <1>6 DEF Built
<1>8. IsFlat(f, seqs)
  <2>1. f = [i \in 1 .. n |-> f[i]]
    OBVIOUS
  <2> QED BY <1>1, <1>7, <2>1 DEF IsFlat
<1> DEFINE g == CHOOSE h : IsFlat(h, seqs)
<1>9. IsFlat(g, seqs)
  BY <1>8
<1>10. FlattenSeq(seqs) = g[n]
  BY <1>1 DEF FlattenSeq, IsFlat
<1>11. g[n] = f[n]
  <2> DEFINE K == {k \in Nat : k \in 1 .. n => g[k] = f[k]}
  <2>1. 0 \in K
    OBVIOUS
  <2>2. ASSUME NEW k \in Nat, k \in K PROVE k + 1 \in K
    <3> SUFFICES ASSUME k + 1 \in 1 .. n PROVE g[k + 1] = f[k + 1]
      OBVIOUS
    <3>1. k + 1 # 1 => g[k] = f[k] /\ (k + 1) - 1 = k
      BY <2>2
    <3>2. g[k + 1] = IF k + 1 = 1 THEN seqs[k + 1] ELSE g[(k + 1) - 1] \o seqs[k + 1]
      BY <1>1, <1>9 DEF IsFlat
    <3>3. f[k + 1] = IF k + 1 = 1 THEN seqs[k + 1] ELSE f[(k + 1) - 1] \o seqs[k + 1]
      BY <1>7
    <3> QED BY <3>1, <3>2, <3>3
  <2> HIDE DEF K
  <2>3. n \in K
    BY <2>1, <2>2, SetInduction
  <2> QED BY <1>1, <2>3 DEF K
<1> QED BY <1>1, <1>8, <1>10, <1>11

(***************************************************************************)
(* The scan for start codes.                                               *)
(***************************************************************************)
LEMMA StartAtIs ==
    ASSUME NEW S, NEW b \in Seq(S), NEW e \in Nat
    PROVE  StartAt(b, e) <=> e + 3 <= Len(b) /\ b[e + 1] = 0 /\ b[e + 2] = 0 /\ b[e + 3] = 1
<1> SUFFICES ASSUME e + 3 <= Len(b)
             PROVE  SubSeq(b, e + 1, e + 3) = StartCode
                    <=> b[e + 1] = 0 /\ b[e + 2] = 0 /\ b[e + 3] = 1
  BY DEF StartAt
<1> DEFINE s == SubSeq(b, e + 1, e + 3)
<1>1. s \in Seq(S) /\ Len(s) = 3 /\ s[1] = b[e + 1] /\ s[2] = b[e + 2] /\ s[3] = b[e + 3]
  OBVIOUS
<1> HIDE DEF s
<1>2. s = <<s[1], s[2], s[3]>>
  BY <1>1
<1>3. s = StartCode <=> s[1] = 0 /\ s[2] = 0 /\ s[3] = 1
  BY <1>2 DEF StartCode
<1> QED BY <1>1, <1>3 DEF s

\* From inside the stream the scan stops inside it, at the first start code or
\* behind the last position where one could be.
LEMMA StartFromIs ==
    ASSUME NEW S, NEW b \in Seq(S), NEW pos \in Nat
    PROVE  /\ StartFrom(b, pos) \in Nat /\ StartFrom(b, pos) >= pos
           /\ pos < Len(b) => StartFrom(b, pos) < Len(b)
           /\ StartFrom(b, 0) <= Len(b)
           /\ \A e \in Nat : e >= pos /\ StartAt(b, e)
                             /\ (\A d \in Nat : d >= pos /\ d < e => ~StartAt(b, d))
                             => StartFrom(b, pos) = e
           /\ (\A e \in Nat : e >= pos => ~StartAt(b, e))
                 => StartFrom(b, pos) = IF pos <= Len(b) - 2 THEN Len(b) - 2 ELSE pos
<1> DEFINE n == Len(b)
           Found(q) == {e \in q .. n : StartAt(b, e)}
<1>1. n \in Nat /\ \A e \in Nat : StartAt(b, e) => e + 3 <= n
  BY DEF StartAt
<1>2. ASSUME NEW q \in Nat, Found(q) # {}
      PROVE  /\ StartFrom(b, q) \in Nat /\ StartFrom(b, q) >= q /\ StartFrom(b, q) + 3 <= n
             /\ StartAt(b, StartFrom(b, q))
             /\ \A y \in Found(q) : StartFrom(b, q) <= y
  <2>1. Found(q) \in SUBSET Nat
    BY <1>1
  <2>2. StartFrom(b, q) = Min(Found(q))
    BY <1>2 DEF StartFrom
  <2> HIDE DEF Found
  <2>3. Min(Found(q)) \in Found(q) /\ \A y \in Found(q) : Min(Found(q)) <= y
    BY <1>2, <2>1, MinIs
  <2> QED BY <1>1, <2>1, <2>2, <2>3 DEF Found
<1>3. ASSUME NEW q \in Nat, Found(q) = {}
      PROVE  StartFrom(b, q) = IF q <= n - 2 THEN n - 2 ELSE q
  <2>1. StartFrom(b, q) = Max({q, n - 2})
    BY <1>3 DEF StartFrom
  <2>2. n - 2 \in Int /\ q \in Int
    BY <1>1
  <2> QED BY <2>1, <2>2, MinMaxOfTwo
<1> HIDE DEF n
<1>4. ASSUME NEW q \in Nat
      PROVE  /\ StartFrom(b, q) \in Nat /\ StartFrom(b, q) >= q
             /\ q < n => StartFrom(b, q) < n
             /\ q = 0 => StartFrom(b, q) <= n
  <2>1. CASE Found(q) = {}
    BY <1>1, <1>3, <2>1
  <2>2. CASE Found(q) # {}
    BY <1>1, <1>2, <2>2
  <2> QED BY <2>1, <2>2
<1>5. ASSUME NEW e \in Nat, e >= pos, StartAt(b, e),
             \A d \in Nat : d >= pos /\ d < e => ~StartAt(b, d)
      PROVE  StartFrom(b, pos) = e
  <2>1. e \in Found(pos)
    BY <1>1, <1>5
  <2>2. /\ StartFrom(b, pos) \in Nat /\ StartFrom(b, pos) >= pos
        /\ StartAt(b, StartFrom(b, pos)) /\ StartFrom(b, pos) <= e
    BY <1>2, <2>1
  <2> QED BY <1>5, <2>2
<1>6. ASSUME \A e \in Nat : e >= pos => ~StartAt(b, e)
      PROVE  Found(pos) = {}
  BY <1>1, <1>6
<1> QED BY <1>3, <1>4, <1>5, <1>6 DEF n

\* A unit ends where it begins or later, and inside the stream.
LEMMA NalEndIs ==
    ASSUME NEW S, NEW b \in Seq(S), NEW pos \in Nat, pos < Len(b)
    PROVE  NalEnd(b, pos) \in Nat /\ NalEnd(b, pos) >= pos /\ NalEnd(b, pos) <= Len(b)
<1>1. PICK n \in Nat : n = Len(b)
  OBVIOUS
<1>2. StartFrom(b, pos) \in Nat /\ StartFrom(b, pos) >= pos /\ StartFrom(b, pos) < n
  BY <1>1, StartFromIs
<1> DEFINE e == IF StartAt(b, StartFrom(b, pos)) THEN StartFrom(b, pos) ELSE Len(b)
<1>3. e \in Nat /\ e >= pos /\ e <= n
  BY <1>1, <1>2
<1>4. NalEnd(b, pos) = Trimmed(b, pos, e)
  BY DEF NalEnd
<1> HIDE DEF e
<1> QED BY <1>1, <1>3, <1>4 DEF Trimmed

\* Nals is the function its recursive definition describes.
LEMMA NalsIs ==
    ASSUME NEW S, NEW b \in Seq(S)
    PROVE  /\ Nals(b) \in [0 .. Len(b) + 3 -> Seq(Seq(S))]
           /\ \A pos \in 0 .. Len(b) + 3 :
                 /\ pos >= Len(b) => Nals(b)[pos] = << >>
                 /\ pos < Len(b) =>
                       /\ StartFrom(b, pos) + 3 \in 0 .. Len(b) + 3
                       /\ Nals(b)[pos] = <<SubSeq(b, pos + 1, NalEnd(b, pos))>>
                                         \o Nals(b)[StartFrom(b, pos) + 3]
<1>1. PICK n \in Nat : n = Len(b)
  OBVIOUS
<1> DEFINE D == 0 .. n + 3
           next(pos) == StartFrom(b, pos) + 3
           unit(pos) == SubSeq(b, pos + 1, NalEnd(b, pos))
           T == Seq(Seq(S))
           Step(f, pos) == f[pos] = IF pos >= n THEN << >> ELSE <<unit(pos)>> \o f[next(pos)]
           Built(k) == \E f \in [D -> T] : \A pos \in n + 3 - k .. n + 3 : Step(f, pos)
           G == {k \in Nat : k <= n + 3 => Built(k)}
<1>2. \A pos \in D : pos < n => /\ next(pos) \in D /\ next(pos) > pos
                                /\ unit(pos) \in Seq(S)
  <2> SUFFICES ASSUME NEW pos \in D, pos < n
               PROVE  next(pos) \in D /\ next(pos) > pos /\ unit(pos) \in Seq(S)
    OBVIOUS
  <2>1. pos \in Nat /\ StartFrom(b, pos) \in Nat /\ StartFrom(b, pos) >= pos /\ StartFrom(b, pos) < n
    BY <1>1, StartFromIs
  <2>2. NalEnd(b, pos) \in Nat /\ NalEnd(b, pos) <= Len(b)
    BY <1>1, <2>1, NalEndIs
  <2>3. unit(pos) \in Seq(S)
    BY <1>1, <2>1, <2>2
  <2> QED BY <2>1, <2>3
<1> HIDE DEF next, unit, T
<1>3. << >> \in T /\ \A t \in T, u \in Seq(S) : <<u>> \o t \in T
  BY DEF T
<1> HIDE DEF Built
<1>4. 0 \in G
  <2> DEFINE f == [pos \in D |-> << >>]
  <2>1. f \in [D -> T]
    BY <1>3
  <2>2. \A pos \in n + 3 - 0 .. n + 3 : pos \in D /\ pos >= n
    OBVIOUS
  <2>3. \A pos \in n + 3 - 0 .. n + 3 : Step(f, pos)
    BY <2>2
  <2> QED BY <2>1, <2>3 DEF Built
<1>5. ASSUME NEW k \in Nat, k \in G PROVE k + 1 \in G
  <2> SUFFICES ASSUME k + 1 <= n + 3 PROVE Built(k + 1)
    OBVIOUS
  <2>1. Built(k)
    BY <1>5
  <2>2. PICK f \in [D -> T] : \A pos \in n + 3 - k .. n + 3 : Step(f, pos)
    BY <2>1 DEF Built
  <2>3. PICK p \in D : p = n + 3 - (k + 1)
    OBVIOUS
  <2> DEFINE e == IF p >= n THEN << >> ELSE <<unit(p)>> \o f[next(p)]
             g == [f EXCEPT ![p] = e]
  <2>4. e \in T
    <3>1. CASE p >= n
      BY <1>3, <3>1
    <3>2. CASE p < n
      <4>1. f[next(p)] \in T /\ unit(p) \in Seq(S)
        BY <1>2, <3>2
      <4> QED BY <1>3, <2>3, <3>2, <4>1
    <3> QED BY <2>3, <3>1, <3>2
  <2>5. p < n => next(p) # p
    BY <1>2, <2>3
  <2>6. e = IF p >= n THEN << >> ELSE <<unit(p)>> \o f[next(p)]
    OBVIOUS
  <2> HIDE DEF e, D
  <2>7. g \in [D -> T] /\ g[p] = e /\ \A q \in D : q # p => g[q] = f[q]
    BY <2>4
  <2> HIDE DEF g
  <2>8. ASSUME NEW q \in n + 3 - (k + 1) .. n + 3 PROVE Step(g, q)
    <3>1. q \in D
      BY <2>3 DEF D
    <3>2. q < n => next(q) \in D /\ next(q) > q
      BY <1>2, <3>1
    <3>3. CASE q = p
      <4>1. q < n => g[next(q)] = f[next(q)]
        BY <2>3, <2>5, <2>7, <3>2, <3>3
      <4>2. q \in Nat
        BY <3>1 DEF D
      <4> QED BY <2>6, <2>7, <3>3, <4>1, <4>2
    <3>4. CASE q # p
      <4>1. q > p /\ q \in n + 3 - k .. n + 3
        BY <2>3, <3>4
      <4>2. Step(f, q) /\ g[q] = f[q]
        BY <2>2, <2>7, <3>1, <3>4, <4>1
      <4>3. q < n => next(q) # p
        BY <1>2, <2>3, <3>1, <4>1 DEF D
      <4>4. q < n => g[next(q)] = f[next(q)]
        BY <2>7, <3>2, <4>3
      <4>5. q \in Nat
        BY <3>1 DEF D
      <4> QED BY <4>2, <4>4, <4>5
    <3> QED BY <3>3, <3>4
  <2> QED BY <2>7, <2>8 DEF Built
<1>6. n + 3 \in G
  <2> HIDE DEF G
  <2> QED BY <1>4, <1>5, SetInduction
<1>7. Built(n + 3)
  BY <1>6
<1>8. PICK f \in [D -> T] : \A pos \in D : Step(f, pos)
  <2>1. n + 3 - (n + 3) = 0
    OBVIOUS
  <2> QED BY <1>7, <2>1 DEF Built
<1> DEFINE IsNals(h) == h = [pos \in 0 .. Len(b) + 3 |->
                                IF pos >= Len(b) THEN << >>
                                ELSE <<SubSeq(b, pos + 1, NalEnd(b, pos))>>
                                     \o h[StartFrom(b, pos) + 3]]
           g == CHOOSE h : IsNals(h)
<1>9. IsNals(f)
  <2>1. f = [pos \in D |-> f[pos]]
    OBVIOUS
  <2> QED BY <1>1, <1>8, <2>1 DEF next, unit
<1>10. IsNals(g)
  <2> HIDE DEF IsNals
  <2> QED BY <1>9
<1>11. Nals(b) = g
  BY DEF Nals
<1> HIDE DEF g
<1>12. \A pos \in D : Step(g, pos)
  BY <1>1, <1>10 DEF next, unit
<1>13. DOMAIN g = D
  BY <1>1, <1>10
<1> HIDE DEF IsNals
<1>14. \A pos \in D : g[pos] = f[pos]
  <2> DEFINE K == {k \in Nat : \A pos \in D : pos >= n + 3 - k => g[pos] = f[pos]}
  <2>1. 0 \in K
    <3>1. \A pos \in D : pos >= n + 3 - 0 => pos >= n
      OBVIOUS
    <3> QED BY <1>8, <1>12, <3>1
  <2>2. ASSUME NEW k \in Nat, k \in K PROVE k + 1 \in K
    <3> SUFFICES ASSUME NEW pos \in D, pos >= n + 3 - (k + 1)
                 PROVE  g[pos] = f[pos]
      OBVIOUS
    <3>1. CASE pos >= n
      BY <1>8, <1>12, <3>1
    <3>2. CASE pos < n
      <4>1. next(pos) \in D /\ next(pos) > pos
        BY <1>2, <3>2
      <4>2. next(pos) >= n + 3 - k
        BY <4>1
      <4>3. g[next(pos)] = f[next(pos)]
        BY <2>2, <4>1, <4>2
      <4> QED BY <1>8, <1>12, <4>3
    <3> QED BY <3>1, <3>2
  <2> HIDE DEF K
  <2>3. n + 3 \in K
    BY <2>1, <2>2, SetInduction
  <2> QED BY <2>3 DEF K
<1>15. g \in [D -> T]
  <2>1. g = [pos \in D |-> g[pos]]
    BY <1>1, <1>10, <1>13 DEF IsNals
  <2>2. \A pos \in D : g[pos] \in T
    BY <1>14
  <2> QED BY <2>1, <2>2
<1>16. ASSUME NEW pos \in 0 .. Len(b) + 3
       PROVE  /\ pos >= Len(b) => g[pos] = << >>
              /\ pos < Len(b) =>
                    /\ StartFrom(b, pos) + 3 \in 0 .. Len(b) + 3
                    /\ g[pos] = <<SubSeq(b, pos + 1, NalEnd(b, pos))>>
                                \o g[StartFrom(b, pos) + 3]
  <2>1. pos \in D /\ n = Len(b) /\ pos \in Nat
    BY <1>1
  <2>2. pos >= n => g[pos] = << >>
    BY <1>12, <2>1
  <2>3. pos < n => next(pos) \in D
    BY <1>2, <2>1
  <2>4. pos < n => g[pos] = <<unit(pos)>> \o g[next(pos)]
    <3>1. Step(g, pos)
      BY <1>12, <2>1
    <3>2. pos < n => ~(pos >= n)
      BY <2>1
    <3> QED BY <3>1, <3>2
  <2> HIDE DEF D
  <2>5. pos < n => next(pos) \in 0 .. Len(b) + 3
    BY <1>1, <2>3 DEF D
  <2> QED BY <2>1, <2>2, <2>4, <2>5 DEF next, unit
<1> QED BY <1>1, <1>11, <1>15, <1>16 DEF T

(***************************************************************************)
(* Concatenations.                                                         *)
(***************************************************************************)
LEMMA ConcatIs ==
    ASSUME NEW S, NEW x \in Seq(S), NEW y \in Seq(S)
    PROVE  /\ x \o y \in Seq(S) /\ Len(x \o y) = Len(x) + Len(y)
           /\ Len(x) \in Nat /\ Len(y) \in Nat
           /\ \A j \in 1 .. Len(x) : (x \o y)[j] = x[j]
           /\ \A j \in 1 .. Len(y) : (x \o y)[Len(x) + j] = y[j]
OBVIOUS

\* The n sequences of seqs lie in whole one behind the other, each behind end[i - 1].
Lie(seqs, n, whole, end) ==
    /\ end \in [0 .. n -> Nat] /\ end[0] = 0
    /\ Len(whole) = end[n]
    /\ \A i \in 1 .. n :
          /\ end[i] = end[i - 1] + Len(seqs[i])
          /\ end[i] <= end[n]
          /\ \A j \in 1 .. Len(seqs[i]) : whole[end[i - 1] + j] = seqs[i][j]

\* FlattenSeq lays its sequences out so.
LEMMA FlattenParts ==
    ASSUME NEW S, NEW seqs \in Seq(Seq(S))
    PROVE  /\ FlattenSeq(seqs) \in Seq(S)
           /\ \E end : Lie(seqs, Len(seqs), FlattenSeq(seqs), end)
<1>1. CASE seqs = << >>
  <2>1. FlattenSeq(seqs) = << >> /\ Len(seqs) = 0
    BY <1>1 DEF FlattenSeq
  <2> DEFINE end == [i \in 0 .. 0 |-> 0]
  <2>2. /\ end \in [0 .. Len(seqs) -> Nat] /\ end[0] = 0 /\ end[Len(seqs)] = 0
        /\ 1 .. Len(seqs) = {}
    BY <2>1
  <2> HIDE DEF end
  <2>3. FlattenSeq(seqs) \in Seq(S) /\ Len(FlattenSeq(seqs)) = 0
    BY <2>1
  <2>4. Lie(seqs, Len(seqs), FlattenSeq(seqs), end)
    BY <2>2, <2>3 DEF Lie
  <2> QED BY <2>3, <2>4
<1>2. CASE seqs # << >>
  <2>1. PICK n \in Nat : n = Len(seqs) /\ n > 0
    BY <1>2
  <2>2. PICK f \in [1 .. n -> Seq(S)] : IsFlat(f, seqs) /\ FlattenSeq(seqs) = f[n]
    BY <1>2, <2>1, FlattenIs
  <2>3. \A i \in 1 .. n : seqs[i] \in Seq(S) /\ f[i] \in Seq(S)
    BY <2>1
  <2>4. f[1] = seqs[1] /\ \A i \in 1 .. n : i # 1 => f[i] = f[i - 1] \o seqs[i]
    <3>1. \A i \in 1 .. n : f[i] = IF i = 1 THEN seqs[i] ELSE f[i - 1] \o seqs[i]
      BY <2>1, <2>2 DEF IsFlat
    <3>2. 1 \in 1 .. n
      BY <2>1
    <3>3. f[1] = seqs[1]
      BY <3>1, <3>2
    <3> QED BY <3>1, <3>3
  <2> DEFINE end == [i \in 0 .. n |-> IF i = 0 THEN 0 ELSE Len(f[i])]
  <2>5. end \in [0 .. n -> Nat] /\ end[0] = 0 /\ \A i \in 1 .. n : end[i] = Len(f[i])
    BY <2>3
  <2> HIDE DEF end
  <2>6. ASSUME NEW i \in 1 .. n
        PROVE  /\ i - 1 \in 0 .. n /\ Len(seqs[i]) \in Nat
               /\ end[i] = end[i - 1] + Len(seqs[i])
               /\ \A j \in 1 .. end[i - 1] : i # 1 /\ f[i][j] = f[i - 1][j]
               /\ \A j \in 1 .. Len(seqs[i]) : f[i][end[i - 1] + j] = seqs[i][j]
    <3>1. CASE i = 1
      <4>1. end[i - 1] = 0 /\ f[i] = seqs[i] /\ end[i] = Len(seqs[i]) /\ i - 1 \in 0 .. n
        BY <2>4, <2>5, <3>1
      <4>2. seqs[i] \in Seq(S)
        BY <2>3
      <4> QED BY <4>1, <4>2
    <3>2. CASE i # 1
      <4>1. i - 1 \in 1 .. n
        BY <3>2
      <4>2. PICK x \in Seq(S) : x = f[i - 1]
        BY <2>3, <4>1
      <4>3. PICK y \in Seq(S) : y = seqs[i]
        BY <2>3
      <4>4. f[i] = x \o y /\ end[i - 1] = Len(x) /\ end[i] = Len(f[i])
        BY <2>4, <2>5, <3>2, <4>1, <4>2, <4>3
      <4>5. /\ Len(x \o y) = Len(x) + Len(y) /\ Len(x) \in Nat /\ Len(y) \in Nat
            /\ \A j \in 1 .. Len(x) : (x \o y)[j] = x[j]
            /\ \A j \in 1 .. Len(y) : (x \o y)[Len(x) + j] = y[j]
        BY ConcatIs
      <4> QED BY <3>2, <4>1, <4>2, <4>3, <4>4, <4>5
    <3> QED BY <3>1, <3>2
  <2> DEFINE Kept(m) == \A i \in 1 .. m : /\ end[i] <= end[m]
                                          /\ \A j \in 1 .. end[i] : f[m][j] = f[i][j]
             G == {m \in Nat : m <= n => Kept(m)}
  <2> HIDE DEF Kept
  <2>7. 0 \in G
    BY DEF Kept
  <2>8. ASSUME NEW m \in Nat, m \in G PROVE m + 1 \in G
    <3> SUFFICES ASSUME m + 1 <= n PROVE Kept(m + 1)
      OBVIOUS
    <3>1. Kept(m) /\ m + 1 \in 1 .. n /\ (m + 1) - 1 = m
      BY <2>8
    <3>2. /\ end[m + 1] = end[m] + Len(seqs[m + 1]) /\ Len(seqs[m + 1]) \in Nat
          /\ \A j \in 1 .. end[m] : f[m + 1][j] = f[m][j]
      <4>1. PICK i \in 1 .. n : i = m + 1 /\ i - 1 = m
        BY <3>1
      <4>2. /\ end[i] = end[i - 1] + Len(seqs[i]) /\ Len(seqs[i]) \in Nat
            /\ \A j \in 1 .. end[i - 1] : f[i][j] = f[i - 1][j]
        BY <2>6
      <4> QED BY <4>1, <4>2
    <3>3. m \in 0 .. n /\ end[m] \in Nat /\ end[m + 1] \in Nat
      BY <2>5, <3>1
    <3>4. ASSUME NEW i \in 1 .. m + 1
          PROVE  end[i] <= end[m + 1] /\ \A j \in 1 .. end[i] : f[m + 1][j] = f[i][j]
      <4>1. CASE i = m + 1
        BY <3>3, <4>1
      <4>2. CASE i \in 1 .. m
        <5>1. end[i] <= end[m] /\ \A j \in 1 .. end[i] : f[m][j] = f[i][j]
          BY <3>1, <4>2 DEF Kept
        <5>2. end[i] \in Nat
          BY <2>5, <3>3, <4>2
        <5>3. end[i] <= end[m + 1]
          BY <3>2, <3>3, <5>1, <5>2
        <5>4. \A j \in 1 .. end[i] : j \in 1 .. end[m]
          BY <3>3, <5>1, <5>2
        <5> QED BY <3>2, <5>1, <5>3, <5>4
      <4> QED BY <4>1, <4>2
    <3> QED BY <3>4 DEF Kept
  <2>9. n \in G
    <3> HIDE DEF G
    <3> QED BY <2>7, <2>8, SetInduction
  <2>10. Kept(n)
    BY <2>9
  <2>11. ASSUME NEW i \in 1 .. n
         PROVE  /\ end[i] = end[i - 1] + Len(seqs[i])
                /\ end[i] <= end[n]
                /\ \A j \in 1 .. Len(seqs[i]) : f[n][end[i - 1] + j] = seqs[i][j]
    <3>1. end[i] <= end[n] /\ \A j \in 1 .. end[i] : f[n][j] = f[i][j]
      BY <2>10 DEF Kept
    <3>2. end[i - 1] \in Nat /\ Len(seqs[i]) \in Nat /\ end[i] = end[i - 1] + Len(seqs[i])
      BY <2>5, <2>6
    <3>3. \A j \in 1 .. Len(seqs[i]) : end[i - 1] + j \in 1 .. end[i]
      BY <3>2
    <3> QED BY <2>6, <3>1, <3>2, <3>3
  <2>12. f[n] \in Seq(S) /\ Len(f[n]) = end[n]
    BY <2>1, <2>3, <2>5
  <2>13. Lie(seqs, n, f[n], end)
    BY <2>5, <2>11, <2>12 DEF Lie
  <2> QED BY <2>1, <2>2, <2>12, <2>13
<1> QED BY <1>1, <1>2

\* One unit behind its start code.
Coded(u, zero) == (IF zero = 1 THEN <<0>> ELSE << >>) \o StartCode \o u

\* p is unit u behind a start code.
IsCoded(p, zero, u) ==
    /\ p \in Seq(Bytes) /\ Len(p) = zero + 3 + Len(u)
    /\ zero = 1 => p[1] = 0
    /\ p[zero + 1] = 0 /\ p[zero + 2] = 0 /\ p[zero + 3] = 1
    /\ \A j \in 1 .. Len(u) : p[zero + 3 + j] = u[j]

LEMMA CodedIs ==
    ASSUME NEW u \in Seq(Bytes), NEW zero \in {0, 1}, NEW p, p = Coded(u, zero)
    PROVE  IsCoded(p, zero, u)
<1> SUFFICES /\ p \in Seq(Bytes) /\ Len(p) = zero + 3 + Len(u)
             /\ zero = 1 => p[1] = 0
             /\ p[zero + 1] = 0 /\ p[zero + 2] = 0 /\ p[zero + 3] = 1
             /\ \A j \in 1 .. Len(u) : p[zero + 3 + j] = u[j]
  BY DEF IsCoded
<1>1. CASE zero = 1
  <2>1. p = <<0, 0, 0, 1>> \o u
    BY <1>1 DEF StartCode, Coded
  <2>2. PICK c : c = <<0, 0, 0, 1>> /\ c \in Seq(Bytes)
    <3>1. <<0, 0, 0, 1>> \in Seq(Bytes)
      BY DEF Bytes
    <3> QED BY <3>1
  <2>3. Len(c) = 4 /\ c[1] = 0 /\ c[2] = 0 /\ c[3] = 0 /\ c[4] = 1
    BY <2>2
  <2>4. p = c \o u
    BY <2>1, <2>2
  <2>5. /\ p \in Seq(Bytes) /\ Len(p) = Len(c) + Len(u)
        /\ \A j \in 1 .. Len(c) : p[j] = c[j]
        /\ \A j \in 1 .. Len(u) : p[Len(c) + j] = u[j]
    <3>1. c \in Seq(Bytes)
      BY <2>2
    <3>2. /\ c \o u \in Seq(Bytes) /\ Len(c \o u) = Len(c) + Len(u)
          /\ \A j \in 1 .. Len(c) : (c \o u)[j] = c[j]
          /\ \A j \in 1 .. Len(u) : (c \o u)[Len(c) + j] = u[j]
      BY <3>1, ConcatIs
    <3> QED BY <2>4, <3>2
  <2>6. Len(p) = 4 + Len(u) /\ \A j \in 1 .. Len(u) : p[4 + j] = u[j]
    BY <2>3, <2>5
  <2>7. p[1] = 0 /\ p[2] = 0 /\ p[3] = 0 /\ p[4] = 1
    BY <2>3, <2>5
  <2>8. /\ zero + 3 = 4 /\ zero + 1 = 2 /\ zero + 2 = 3 /\ zero = 1
    BY <1>1
  <2> QED BY <2>5, <2>6, <2>7, <2>8
<1>2. CASE zero = 0
  <2>1. p = <<0, 0, 1>> \o u
    BY <1>2 DEF StartCode, Coded
  <2>2. PICK c : c = <<0, 0, 1>> /\ c \in Seq(Bytes)
    <3>1. <<0, 0, 1>> \in Seq(Bytes)
      BY DEF Bytes
    <3> QED BY <3>1
  <2>3. Len(c) = 3 /\ c[1] = 0 /\ c[2] = 0 /\ c[3] = 1
    BY <2>2
  <2>4. p = c \o u
    BY <2>1, <2>2
  <2>5. /\ p \in Seq(Bytes) /\ Len(p) = Len(c) + Len(u)
        /\ \A j \in 1 .. Len(c) : p[j] = c[j]
        /\ \A j \in 1 .. Len(u) : p[Len(c) + j] = u[j]
    <3>1. c \in Seq(Bytes)
      BY <2>2
    <3>2. /\ c \o u \in Seq(Bytes) /\ Len(c \o u) = Len(c) + Len(u)
          /\ \A j \in 1 .. Len(c) : (c \o u)[j] = c[j]
          /\ \A j \in 1 .. Len(u) : (c \o u)[Len(c) + j] = u[j]
      BY <3>1, ConcatIs
    <3> QED BY <2>4, <3>2
  <2>6. Len(p) = 3 + Len(u) /\ \A j \in 1 .. Len(u) : p[3 + j] = u[j]
    BY <2>3, <2>5
  <2>7. p[1] = 0 /\ p[2] = 0 /\ p[3] = 1
    BY <2>3, <2>5
  <2>8. /\ zero + 3 = 3 /\ zero + 1 = 1 /\ zero + 2 = 2 /\ zero = 0
    BY <1>2
  <2> QED BY <2>5, <2>6, <2>7, <2>8
<1> QED BY <1>1, <1>2

(***************************************************************************)
(* A stream as an encoder writes it.                                       *)
(***************************************************************************)
\* A unit holds no start code and does not end in the zero of the next one.
WellFormed(u) ==
    /\ u \in Seq(Bytes)
    /\ u # << >> => u[Len(u)] # 0
    /\ \A i \in 1 .. Len(u) - 2 : ~(u[i] = 0 /\ u[i + 1] = 0 /\ u[i + 2] = 1)

\* Where unit i's start code begins, when the units before it end at end[i - 1].
Code(i, four, end) == end[i - 1] + IF i \in four THEN 1 ELSE 0

\* Stream b holds the units behind start codes, unit i up to position end[i].
Layout(b, units, four, n, end) ==
    /\ n \in Nat /\ b \in Seq(Bytes) /\ end \in [0 .. n -> Nat]
    /\ end[0] = 0 /\ Len(b) = end[n]
    /\ \A i \in 1 .. n :
          /\ units[i] \in Seq(Bytes)
          /\ end[i] = Code(i, four, end) + 3 + Len(units[i])
          /\ end[i] <= end[n]
          /\ i \in four => b[Code(i, four, end)] = 0
          /\ b[Code(i, four, end) + 1] = 0
          /\ b[Code(i, four, end) + 2] = 0
          /\ b[Code(i, four, end) + 3] = 1
          /\ \A j \in 1 .. Len(units[i]) : b[Code(i, four, end) + 3 + j] = units[i][j]

LEMMA ComposeIs ==
    ASSUME NEW n \in Nat, NEW units \in [1 .. n -> Seq(Bytes)], NEW four
    PROVE  \E end : Layout(Compose(units, four), units, four, n, end)
<1> DEFINE seqs == [i \in 1 .. n |-> (IF i \in four THEN <<0>> ELSE << >>) \o StartCode \o units[i]]
<1>1. ASSUME NEW i \in 1 .. n
      PROVE  LET z == IF i \in four THEN 1 ELSE 0
             IN /\ seqs[i] \in Seq(Bytes) /\ Len(seqs[i]) = z + 3 + Len(units[i])
                /\ z = 1 => seqs[i][1] = 0
                /\ seqs[i][z + 1] = 0 /\ seqs[i][z + 2] = 0 /\ seqs[i][z + 3] = 1
                /\ \A j \in 1 .. Len(units[i]) : seqs[i][z + 3 + j] = units[i][j]
  <2>1. PICK zero \in {0, 1} : zero = IF i \in four THEN 1 ELSE 0
    OBVIOUS
  <2>2. PICK p : p = seqs[i]
    OBVIOUS
  <2>3. p = Coded(units[i], zero)
    <3>1. seqs[i] = (IF i \in four THEN <<0>> ELSE << >>) \o StartCode \o units[i]
      OBVIOUS
    <3> HIDE DEF seqs
    <3>2. CASE i \in four
      BY <2>1, <2>2, <3>1, <3>2 DEF Coded
    <3>3. CASE i \notin four
      BY <2>1, <2>2, <3>1, <3>3 DEF Coded
    <3> QED BY <3>2, <3>3
  <2>4. units[i] \in Seq(Bytes)
    OBVIOUS
  <2> HIDE DEF seqs
  <2>5. /\ p \in Seq(Bytes) /\ Len(p) = zero + 3 + Len(units[i])
        /\ zero = 1 => p[1] = 0
        /\ p[zero + 1] = 0 /\ p[zero + 2] = 0 /\ p[zero + 3] = 1
        /\ \A j \in 1 .. Len(units[i]) : p[zero + 3 + j] = units[i][j]
    <3>1. PICK u \in Seq(Bytes) : u = units[i]
      BY <2>4
    <3>2. p = Coded(u, zero)
      BY <2>3, <3>1
    <3>3. IsCoded(p, zero, u)
      BY <3>2, CodedIs
    <3> QED BY <3>1, <3>3 DEF IsCoded
  <2> QED BY <2>1, <2>2, <2>5
<1>2. Compose(units, four) = FlattenSeq(seqs)
  BY DEF Compose
<1>3. DOMAIN seqs = 1 .. n /\ seqs = [i \in 1 .. n |-> seqs[i]]
  OBVIOUS
<1> HIDE DEF seqs
<1>4. seqs \in Seq(Seq(Bytes)) /\ Len(seqs) = n
  <2>1. \A i \in 1 .. n : seqs[i] \in Seq(Bytes)
    BY <1>1
  <2> QED BY <1>3, <2>1
<1>5. PICK b \in Seq(Bytes) : b = FlattenSeq(seqs)
  BY <1>4, FlattenParts
<1>6. PICK end \in [0 .. n -> Nat] :
         /\ end[0] = 0
         /\ Len(b) = end[n]
         /\ \A i \in 1 .. n :
               /\ end[i] = end[i - 1] + Len(seqs[i])
               /\ end[i] <= end[n]
               /\ \A j \in 1 .. Len(seqs[i]) : b[end[i - 1] + j] = seqs[i][j]
  <2>1. PICK end : Lie(seqs, Len(seqs), FlattenSeq(seqs), end)
    BY <1>4, FlattenParts
  <2>2. Lie(seqs, n, b, end)
    BY <1>4, <1>5, <2>1
  <2> QED BY <2>2 DEF Lie
<1>7. ASSUME NEW i \in 1 .. n
      PROVE  /\ units[i] \in Seq(Bytes)
             /\ end[i] = Code(i, four, end) + 3 + Len(units[i])
             /\ end[i] <= end[n]
             /\ i \in four => b[Code(i, four, end)] = 0
             /\ b[Code(i, four, end) + 1] = 0
             /\ b[Code(i, four, end) + 2] = 0
             /\ b[Code(i, four, end) + 3] = 1
             /\ \A j \in 1 .. Len(units[i]) : b[Code(i, four, end) + 3 + j] = units[i][j]
  <2>1. PICK z \in {0, 1} : z = IF i \in four THEN 1 ELSE 0
    OBVIOUS
  <2>2. PICK k \in Nat : k = Len(units[i])
    OBVIOUS
  <2>3. PICK e \in Nat : e = end[i - 1]
    OBVIOUS
  <2>4. PICK p : p = seqs[i]
    OBVIOUS
  <2>5. /\ Len(p) = z + 3 + k
        /\ z = 1 => p[1] = 0
        /\ p[z + 1] = 0 /\ p[z + 2] = 0 /\ p[z + 3] = 1
        /\ \A j \in 1 .. k : p[z + 3 + j] = units[i][j]
    BY <1>1, <2>1, <2>2, <2>4
  <2>6. end[i] = e + Len(p) /\ end[i] <= end[n] /\ \A j \in 1 .. z + 3 + k : b[e + j] = p[j]
    BY <1>6, <2>3, <2>4, <2>5
  <2>7. Code(i, four, end) = e + z
    BY <2>1, <2>3 DEF Code
  <2>8. /\ e + z + 1 = e + (z + 1) /\ e + z + 2 = e + (z + 2) /\ e + z + 3 = e + (z + 3)
        /\ z + 1 \in 1 .. z + 3 + k /\ z + 2 \in 1 .. z + 3 + k /\ z + 3 \in 1 .. z + 3 + k
        /\ z = 1 => z \in 1 .. z + 3 + k
    OBVIOUS
  <2>9. \A j \in 1 .. k : z + 3 + j \in 1 .. z + 3 + k /\ e + z + 3 + j = e + (z + 3 + j)
    OBVIOUS
  <2>10. z = 1 => b[e + z] = 0
    BY <2>5, <2>6, <2>8
  <2>11. b[e + z + 1] = 0 /\ b[e + z + 2] = 0 /\ b[e + z + 3] = 1
    BY <2>5, <2>6, <2>8
  <2>12. \A j \in 1 .. k : b[e + z + 3 + j] = units[i][j]
    BY <2>5, <2>6, <2>9
  <2>13. end[i] = e + z + 3 + k
    BY <2>5, <2>6
  <2> QED BY <2>1, <2>2, <2>6, <2>7, <2>10, <2>11, <2>12, <2>13
<1>8. Layout(b, units, four, n, end)
  BY <1>6, <1>7 DEF Layout
<1> QED BY <1>2, <1>5, <1>8

\* Unit i as it lies in the stream.
LEMMA LayoutFacts ==
    ASSUME NEW b, NEW units, NEW four, NEW n, NEW end, Layout(b, units, four, n, end),
           NEW i \in 1 .. n
    PROVE  /\ n \in Nat /\ b \in Seq(Bytes) /\ Len(b) \in Nat
           /\ i - 1 \in 0 .. n /\ end[i - 1] \in Nat /\ end[i] \in Nat
           /\ Code(i, four, end) \in Nat /\ Len(units[i]) \in Nat
           /\ Code(i, four, end) = end[i - 1] + (IF i \in four THEN 1 ELSE 0)
           /\ end[i] = Code(i, four, end) + 3 + Len(units[i])
           /\ end[i] <= Len(b)
           /\ i < n => i + 1 \in 1 .. n /\ (i + 1) - 1 = i
           /\ i = n => end[i] = Len(b)
<1>1. n \in Nat /\ b \in Seq(Bytes) /\ end \in [0 .. n -> Nat] /\ Len(b) = end[n]
  BY DEF Layout
<1>2. i - 1 \in 0 .. n /\ i \in 0 .. n
  BY <1>1
<1>3. end[i - 1] \in Nat /\ end[i] \in Nat /\ end[n] \in Nat
  BY <1>1, <1>2
<1>4. Code(i, four, end) = end[i - 1] + IF i \in four THEN 1 ELSE 0
  BY DEF Code
<1>5. Code(i, four, end) \in Nat
  BY <1>3, <1>4
<1>6. /\ units[i] \in Seq(Bytes)
      /\ end[i] = Code(i, four, end) + 3 + Len(units[i])
      /\ end[i] <= end[n]
  BY DEF Layout
<1>7. i < n => i + 1 \in 1 .. n /\ (i + 1) - 1 = i
  BY <1>1
<1> QED BY <1>1, <1>2, <1>3, <1>4, <1>5, <1>6, <1>7

\* No start code begins inside a unit or behind the last one.
LEMMA NoCodeInside ==
    ASSUME NEW b, NEW units, NEW four, NEW n, NEW end, Layout(b, units, four, n, end),
           NEW i \in 1 .. n, WellFormed(units[i]), i = n => units[i] # << >>,
           NEW e \in Nat, e >= Code(i, four, end) + 3,
           i < n => e < Code(i + 1, four, end)
    PROVE  ~StartAt(b, e)
<1>1. PICK c \in Nat : c = Code(i, four, end)
  BY LayoutFacts
<1>2. PICK u : u = units[i]
  OBVIOUS
<1>3. PICK k \in Nat : k = Len(u)
  BY <1>2, LayoutFacts
<1>4. /\ n \in Nat /\ b \in Seq(Bytes) /\ end[i] = c + 3 + k
      /\ i = n => Len(b) = c + 3 + k
  BY <1>1, <1>2, <1>3, LayoutFacts
<1>5. \A j \in 1 .. k : b[c + 3 + j] = u[j]
  BY <1>1, <1>2, <1>3 DEF Layout
<1>6. /\ u \in Seq(Bytes) /\ (k > 0 => u[k] # 0)
      /\ \A j \in 1 .. k - 2 : ~(u[j] = 0 /\ u[j + 1] = 0 /\ u[j + 2] = 1)
  <2>1. WellFormed(u)
    BY <1>2
  <2>2. k > 0 => u # << >>
    BY <1>3
  <2> QED BY <1>3, <2>1, <2>2 DEF WellFormed
<1> SUFFICES ASSUME e + 3 <= Len(b), b[e + 1] = 0, b[e + 2] = 0, b[e + 3] = 1
             PROVE  FALSE
  BY <1>4, StartAtIs
<1>7. PICK j \in Nat : j = e - (c + 3)
  BY <1>1
<1>8. e + 1 = c + 3 + (j + 1) /\ e + 2 = c + 3 + (j + 2) /\ e + 3 = c + 3 + (j + 3)
  BY <1>7
<1>9. CASE j + 3 <= k
  <2>1. j + 1 \in 1 .. k - 2 /\ (j + 1) + 1 = j + 2 /\ (j + 1) + 2 = j + 3
    BY <1>9
  <2>2. j + 1 \in 1 .. k /\ j + 2 \in 1 .. k /\ j + 3 \in 1 .. k
    BY <1>9
  <2>3. u[j + 1] = 0 /\ u[j + 2] = 0 /\ u[j + 3] = 1
    BY <1>5, <1>8, <2>2
  <2> QED BY <1>6, <2>1, <2>3
<1>10. CASE j < k /\ k < j + 3
  <2>1. k = j + 1 \/ k = j + 2
    BY <1>10
  <2>2. k \in 1 .. k /\ k > 0
    BY <1>10
  <2>3. b[c + 3 + k] = u[k]
    BY <1>5, <2>2
  <2>4. b[c + 3 + k] = 0
    BY <1>8, <2>1
  <2> QED BY <1>6, <2>2, <2>3, <2>4
<1>11. CASE j >= k
  <2>1. e >= c + 3 + k
    BY <1>7, <1>11
  <2>2. i < n
    BY <1>4, <2>1
  <2>3. i + 1 \in 1 .. n /\ (i + 1) - 1 = i
    BY <2>2, LayoutFacts
  <2>4. Code(i + 1, four, end) = c + 3 + k + IF i + 1 \in four THEN 1 ELSE 0
    <3>1. PICK m \in 1 .. n : m = i + 1 /\ m - 1 = i
      BY <2>3
    <3>2. Code(m, four, end) = end[m - 1] + IF m \in four THEN 1 ELSE 0
      BY DEF Code
    <3> QED BY <1>4, <3>1, <3>2
  <2>5. e = c + 3 + k /\ Code(i + 1, four, end) = e + 1
    BY <2>1, <2>2, <2>4
  <2>6. b[Code(i + 1, four, end) + 2] = 0
    BY <2>3 DEF Layout
  <2>7. Code(i + 1, four, end) + 2 = e + 3
    BY <2>5
  <2> QED BY <2>6, <2>7
<1> QED BY <1>9, <1>10, <1>11

\* The first start code has none before it.
LEMMA NoCodeBefore ==
    ASSUME NEW b, NEW units, NEW four, NEW n, NEW end, Layout(b, units, four, n, end),
           1 \in 1 .. n, NEW e \in Nat, e < Code(1, four, end)
    PROVE  ~StartAt(b, e)
<1>1. b \in Seq(Bytes) /\ end[0] = 0 /\ b[Code(1, four, end) + 2] = 0
  BY DEF Layout
<1>2. Code(1, four, end) = 0 + IF 1 \in four THEN 1 ELSE 0
  BY <1>1 DEF Code
<1>3. e = 0 /\ Code(1, four, end) = 1
  BY <1>2
<1>4. Code(1, four, end) + 2 = e + 3
  BY <1>3
<1> QED BY <1>1, <1>4, StartAtIs

LEMMA CodeFound ==
    ASSUME NEW b, NEW units, NEW four, NEW n, NEW end, Layout(b, units, four, n, end),
           NEW i \in 1 .. n
    PROVE  StartAt(b, Code(i, four, end)) /\ Code(i, four, end) + 3 <= Len(b)
<1>1. PICK c \in Nat : c = Code(i, four, end)
  BY LayoutFacts
<1>2. PICK k \in Nat : k = Len(units[i])
  BY LayoutFacts
<1>3. c + 3 + k <= Len(b) /\ b \in Seq(Bytes) /\ Len(b) \in Nat
  <2>1. /\ end[i] = Code(i, four, end) + 3 + Len(units[i]) /\ end[i] <= Len(b)
        /\ b \in Seq(Bytes) /\ Len(b) \in Nat
    BY LayoutFacts
  <2> QED BY <1>1, <1>2, <2>1
<1>4. c + 3 <= Len(b)
  BY <1>3
<1>5. b[c + 1] = 0 /\ b[c + 2] = 0 /\ b[c + 3] = 1
  BY <1>1 DEF Layout
<1> QED BY <1>1, <1>3, <1>4, <1>5, StartAtIs

\* From the beginning of unit i the loop finds that unit, and then the next.
LEMMA UnitFound ==
    ASSUME NEW b, NEW units, NEW four, NEW n, NEW end, Layout(b, units, four, n, end),
           NEW i \in 1 .. n, WellFormed(units[i]), i = n => units[i] # << >>
    PROVE  LET pos == Code(i, four, end) + 3
           IN /\ pos \in Nat
              /\ pos < Len(b)
              /\ SubSeq(b, pos + 1, NalEnd(b, pos)) = units[i]
              /\ i < n => StartFrom(b, pos) = Code(i + 1, four, end)
              /\ i = n => StartFrom(b, pos) + 3 > Len(b)
<1>1. PICK pos \in Nat : pos = Code(i, four, end) + 3
  BY LayoutFacts
<1>2. PICK u \in Seq(Bytes) : u = units[i]
  BY DEF Layout
<1>3. PICK k \in Nat : k = Len(u)
  OBVIOUS
<1>4. PICK m \in Nat : m = Len(b)
  BY LayoutFacts
<1>5. /\ n \in Nat /\ b \in Seq(Bytes) /\ i \in Nat
      /\ end[i] = pos + k /\ pos + k <= m
      /\ i = n => m = pos + k
  <2>1. /\ n \in Nat /\ b \in Seq(Bytes)
        /\ end[i] = Code(i, four, end) + 3 + Len(units[i]) /\ end[i] <= Len(b)
        /\ i = n => end[i] = Len(b)
    BY LayoutFacts
  <2> QED BY <1>1, <1>2, <1>3, <1>4, <2>1
<1>6. \A j \in 1 .. k : b[pos + j] = u[j]
  <2>1. \A j \in 1 .. Len(units[i]) : b[Code(i, four, end) + 3 + j] = units[i][j]
    BY DEF Layout
  <2> QED BY <1>1, <1>2, <1>3, <2>1
<1>7. k > 0 => u[k] # 0 /\ b[pos + k] = u[k] /\ k \in 1 .. k
  <2>1. WellFormed(u)
    BY <1>2
  <2>2. k > 0 => u # << >> /\ k \in 1 .. k
    BY <1>3
  <2> QED BY <1>3, <1>6, <2>1, <2>2 DEF WellFormed
<1>8. ASSUME NalEnd(b, pos) = pos + k
      PROVE  SubSeq(b, pos + 1, NalEnd(b, pos)) = units[i]
  <2>1. SubSeq(b, pos + 1, pos + k) = [j \in 1 .. k |-> u[j]]
    <3>1. PICK s : s = SubSeq(b, pos + 1, pos + k)
      OBVIOUS
    <3>2. s \in Seq(Bytes) /\ Len(s) = k /\ \A j \in 1 .. k : s[j] = b[pos + j]
      <4>1. /\ pos + 1 \in 1 .. m + 1 /\ pos + k \in pos .. m
            /\ (pos + k) - (pos + 1) + 1 = k
            /\ \A j \in 1 .. k : (pos + 1) + j - 1 = pos + j
        BY <1>5
      <4>2. s = [j \in 1 .. k |-> b[pos + j]]
        BY <1>4, <1>5, <3>1, <4>1
      <4>3. \A j \in 1 .. k : pos + j \in 1 .. m
        BY <1>5
      <4>4. \A j \in 1 .. k : b[pos + j] \in Bytes
        BY <1>4, <1>5, <4>3
      <4> QED BY <4>2, <4>4
    <3>3. s = [j \in 1 .. k |-> s[j]]
      BY <3>2
    <3> QED BY <1>6, <3>1, <3>2, <3>3
  <2>2. u = [j \in 1 .. k |-> u[j]]
    BY <1>3
  <2> QED BY <1>2, <1>8, <2>1, <2>2
<1>9. \A e \in Nat : e >= pos /\ (i < n => e < Code(i + 1, four, end)) => ~StartAt(b, e)
  BY <1>1, NoCodeInside
<1>10. CASE i < n
  <2>1. PICK q \in 1 .. n : q = i + 1 /\ q - 1 = i
    BY <1>5, <1>10
  <2>2. PICK c \in Nat : c = Code(q, four, end)
    BY LayoutFacts
  <2>3. c = pos + k + IF q \in four THEN 1 ELSE 0
    BY <1>5, <2>1, <2>2 DEF Code
  <2>4. StartAt(b, c) /\ c + 3 <= m
    BY <1>4, <2>2, CodeFound
  <2>5. c >= pos /\ \A e \in Nat : e >= pos /\ e < c => ~StartAt(b, e)
    BY <1>9, <2>1, <2>2, <2>3
  <2>6. StartFrom(b, pos) = c
    BY <1>5, <2>4, <2>5, StartFromIs
  <2>7. NalEnd(b, pos) = IF c > pos /\ b[c] = 0 THEN c - 1 ELSE c
    BY <2>4, <2>6 DEF NalEnd, Trimmed
  <2>8. NalEnd(b, pos) = pos + k
    <3>1. CASE q \in four
      <4>1. b[c] = 0
        BY <2>2, <3>1 DEF Layout
      <4>2. c = pos + k + 1
        BY <2>3, <3>1
      <4> QED BY <2>7, <4>1, <4>2
    <3>2. CASE q \notin four
      <4>1. c = pos + k
        BY <2>3, <3>2
      <4> QED BY <1>7, <2>7, <4>1
    <3> QED BY <3>1, <3>2
  <2>9. pos < Len(b)
    BY <1>4, <2>3, <2>4
  <2>10. /\ SubSeq(b, pos + 1, NalEnd(b, pos)) = units[i]
         /\ StartFrom(b, pos) = Code(i + 1, four, end)
         /\ i # n
    BY <1>8, <1>10, <2>1, <2>2, <2>6, <2>8
  <2> QED BY <1>1, <2>9, <2>10
<1>11. CASE i = n
  <2>1. k > 0 /\ m = pos + k
    BY <1>2, <1>3, <1>5, <1>11
  <2>2. \A e \in Nat : e >= pos => ~StartAt(b, e)
    BY <1>5, <1>9, <1>11
  <2>3. StartFrom(b, pos) = IF pos <= m - 2 THEN m - 2 ELSE pos
    BY <1>4, <1>5, <2>2, StartFromIs
  <2>4. StartFrom(b, pos) \in Nat /\ StartFrom(b, pos) >= pos
    BY <1>5, StartFromIs
  <2>5. ~StartAt(b, StartFrom(b, pos))
    BY <2>2, <2>4
  <2>6. NalEnd(b, pos) = IF m > pos /\ b[m] = 0 THEN m - 1 ELSE m
    BY <1>4, <2>5 DEF NalEnd, Trimmed
  <2>7. NalEnd(b, pos) = pos + k
    BY <1>7, <2>1, <2>6
  <2>8. pos < Len(b) /\ StartFrom(b, pos) + 3 > Len(b)
    BY <1>4, <2>1, <2>3
  <2> QED BY <1>1, <1>8, <1>11, <2>7, <2>8
<1> QED BY <1>5, <1>10, <1>11

(***************************************************************************)
(* Theorems.                                                               *)
(***************************************************************************)
\* split_nals of rtp.cpp returns the NAL units an encoder wrote, each behind a
\* start code of three or four bytes, for every number and length of units and
\* every choice of start codes: the first MaxNals of them if there are more.
\* Units may be empty but the last.
THEOREM SplitCorrect ==
    ASSUME NEW n \in Nat, NEW units \in [1 .. n -> Seq(Bytes)], NEW four,
           \A i \in 1 .. n : WellFormed(units[i]), n > 0 => units[n] # << >>
    PROVE  split_nals(Compose(units, four)) = SubSeq(units, 1, Min({n, MaxNals}))
<1>1. PICK b : b = Compose(units, four)
  OBVIOUS
<1>2. PICK end : Layout(b, units, four, n, end)
  BY <1>1, ComposeIs
<1>3. PICK m \in Nat : m = Len(b) /\ b \in Seq(Bytes)
  BY <1>2 DEF Layout
<1>4. /\ \A pos \in 0 .. m + 3 : pos >= m => Nals(b)[pos] = << >>
      /\ \A pos \in 0 .. m + 3 : pos < m =>
            Nals(b)[pos] = <<SubSeq(b, pos + 1, NalEnd(b, pos))>> \o Nals(b)[StartFrom(b, pos) + 3]
      /\ \A pos \in 0 .. m + 3 : pos < m => StartFrom(b, pos) + 3 \in 0 .. m + 3
  BY <1>3, NalsIs
<1> DEFINE pos(i) == Code(i, four, end) + 3
           Rest(i) == [j \in 1 .. n + 1 - i |-> units[j + i - 1]]
           G == {k \in Nat : \A i \in 1 .. n : i + k >= n => Nals(b)[pos(i)] = Rest(i)}
<1>5. ASSUME NEW i \in 1 .. n
      PROVE  /\ pos(i) \in 0 .. m + 3
             /\ Nals(b)[pos(i)] = <<units[i]>> \o Nals(b)[StartFrom(b, pos(i)) + 3]
             /\ i < n => StartFrom(b, pos(i)) + 3 = pos(i + 1)
             /\ i = n => Nals(b)[StartFrom(b, pos(i)) + 3] = << >>
  <2>1. i = n => units[i] # << >>
    OBVIOUS
  <2>2. /\ pos(i) \in Nat
        /\ pos(i) < Len(b)
        /\ SubSeq(b, pos(i) + 1, NalEnd(b, pos(i))) = units[i]
        /\ i < n => StartFrom(b, pos(i)) = Code(i + 1, four, end)
        /\ i = n => StartFrom(b, pos(i)) + 3 > Len(b)
    BY <1>2, <2>1, UnitFound
  <2>3. pos(i) \in 0 .. m + 3 /\ pos(i) < m
    BY <1>3, <2>2
  <2>4. StartFrom(b, pos(i)) + 3 \in 0 .. m + 3
    BY <1>4, <2>3
  <2>5. i < n => StartFrom(b, pos(i)) + 3 = pos(i + 1)
    BY <2>2
  <2> HIDE DEF pos
  <2>6. Nals(b)[pos(i)] = <<units[i]>> \o Nals(b)[StartFrom(b, pos(i)) + 3]
    BY <1>4, <2>2, <2>3
  <2>7. i = n => Nals(b)[StartFrom(b, pos(i)) + 3] = << >>
    <3>1. i = n => StartFrom(b, pos(i)) + 3 >= m
      BY <1>3, <2>2, <2>4
    <3> QED BY <1>4, <2>4, <3>1
  <2> QED BY <2>3, <2>5, <2>6, <2>7
<1> HIDE DEF pos
<1>6. 0 \in G
  <2> SUFFICES ASSUME NEW i \in 1 .. n, i + 0 >= n
               PROVE  Nals(b)[pos(i)] = Rest(i)
    OBVIOUS
  <2>1. i = n
    OBVIOUS
  <2>2. Nals(b)[pos(i)] = <<units[i]>> \o << >>
    BY <1>5, <2>1
  <2>3. PICK u \in Seq(Bytes) : u = units[i]
    OBVIOUS
  <2>4. <<u>> \o << >> = <<u>>
    OBVIOUS
  <2>5. Rest(i) = <<u>>
    BY <2>1, <2>3
  <2> QED BY <2>2, <2>3, <2>4, <2>5
<1>7. ASSUME NEW k \in Nat, k \in G PROVE k + 1 \in G
  <2> SUFFICES ASSUME NEW i \in 1 .. n, i + (k + 1) >= n
               PROVE  Nals(b)[pos(i)] = Rest(i)
    OBVIOUS
  <2>1. CASE i = n
    <3>1. i + 0 >= n
      BY <2>1
    <3> QED BY <1>6, <3>1
  <2>2. CASE i < n
    <3>1. i + 1 \in 1 .. n /\ (i + 1) + k >= n
      BY <2>2
    <3>2. Nals(b)[pos(i + 1)] = Rest(i + 1)
      BY <1>7, <3>1
    <3>3. Nals(b)[pos(i)] = <<units[i]>> \o Rest(i + 1)
      <4> HIDE DEF Rest
      <4> QED BY <1>5, <2>2, <3>2
    <3>4. PICK r \in Seq(Seq(Bytes)) : r = Rest(i + 1) /\ Len(r) = n - i
      <4>1. \A j \in 1 .. n + 1 - (i + 1) : units[j + (i + 1) - 1] \in Seq(Bytes)
        BY <3>1
      <4>2. PICK h \in Nat : h = n - i /\ n + 1 - (i + 1) = h
        BY <3>1
      <4>3. PICK r : r = Rest(i + 1)
        OBVIOUS
      <4>4. r = [j \in 1 .. h |-> units[j + (i + 1) - 1]]
        BY <4>2, <4>3
      <4>5. r \in [1 .. h -> Seq(Bytes)]
        <5> HIDE DEF Rest
        <5> QED BY <4>1, <4>2, <4>4
      <4>6. r \in Seq(Seq(Bytes)) /\ Len(r) = h
        BY <4>5
      <4> QED BY <4>2, <4>3, <4>6
    <3>5. \A j \in 1 .. n - i : r[j] = units[j + i]
      BY <3>4
    <3>6. PICK u \in Seq(Bytes) : u = units[i]
      OBVIOUS
    <3>7. <<u>> \o r = [j \in 1 .. n + 1 - i |-> IF j = 1 THEN u ELSE r[j - 1]]
      BY <3>4
    <3>8. \A j \in 1 .. n + 1 - i : (IF j = 1 THEN u ELSE r[j - 1]) = units[j + i - 1]
      <4> SUFFICES ASSUME NEW j \in 1 .. n + 1 - i
                   PROVE  (IF j = 1 THEN u ELSE r[j - 1]) = units[j + i - 1]
        OBVIOUS
      <4>1. CASE j = 1
        <5>1. j + i - 1 = i
          BY <4>1
        <5> QED BY <3>6, <4>1, <5>1
      <4>2. CASE j # 1
        <5>1. PICK g \in 1 .. n - i : g = j - 1 /\ g + i = j + i - 1
          BY <4>2
        <5> QED BY <3>5, <4>2, <5>1
      <4> QED BY <4>1, <4>2
    <3> QED BY <3>3, <3>4, <3>6, <3>7, <3>8
  <2> QED BY <2>1, <2>2
<1>8. n \in G
  <2> HIDE DEF G
  <2> QED BY <1>6, <1>7, SetInduction
<1>9. Nals(b)[StartFrom(b, 0) + 3] = units
  <2>1. CASE n = 0
    <3>1. m = 0 /\ units = << >>
      BY <1>2, <1>3, <2>1 DEF Layout
    <3>2. StartFrom(b, 0) \in Nat /\ StartFrom(b, 0) <= m
      BY <1>3, StartFromIs
    <3>3. StartFrom(b, 0) + 3 \in 0 .. m + 3 /\ StartFrom(b, 0) + 3 >= m
      BY <3>1, <3>2
    <3> QED BY <1>4, <3>1, <3>3
  <2>2. CASE n > 0
    <3>1. 1 \in 1 .. n
      BY <2>2
    <3>2. Code(1, four, end) \in Nat /\ StartAt(b, Code(1, four, end))
      BY <1>2, <3>1, CodeFound, LayoutFacts
    <3>3. \A e \in Nat : e < Code(1, four, end) => ~StartAt(b, e)
      BY <1>2, <3>1, NoCodeBefore
    <3>4. StartFrom(b, 0) = Code(1, four, end)
      BY <1>3, <3>2, <3>3, StartFromIs
    <3>5. Nals(b)[pos(1)] = Rest(1)
      BY <1>8, <3>1
    <3>6. Rest(1) = units
      OBVIOUS
    <3> QED BY <3>4, <3>5, <3>6 DEF pos
  <2> QED BY <2>1, <2>2
<1>10. Len(units) = n
  OBVIOUS
<1> QED BY <1>1, <1>9, <1>10 DEF split_nals

\* The property the runs check on streams of a few short units, for every bound
\* on both.
THEOREM StreamsAreSplit == StreamsSplit
<1> SUFFICES ASSUME NEW n \in 0 .. CheckedNals, NEW units \in [1 .. n -> Units],
                    NEW four \in SUBSET (1 .. n)
             PROVE  split_nals(Compose(units, four)) = SubSeq(units, 1, Min({n, MaxNals}))
  BY DEF StreamsSplit
<1>1. ASSUME NEW u \in Units PROVE WellFormed(u) /\ u # << >>
  <2>1. PICK k \in 1 .. CheckedLen : u \in [1 .. k -> Bytes]
    BY DEF Units
  <2>2. u \in Seq(Bytes) /\ Len(u) = k /\ k > 0
    BY <2>1
  <2>3. u[Len(u)] # 0
    BY DEF Units
  <2>4. \A i \in 1 .. Len(u) - 2 : ~(u[i] = 0 /\ u[i + 1] = 0 /\ u[i + 2] = 1)
    <3>1. \A i \in 1 .. Len(u) - 2 : ~(u[i] = 0 /\ u[i + 1] = 0 /\ u[i + 2] < 2)
      BY DEF Units
    <3> QED BY <3>1
  <2>5. u # << >>
    BY <2>2
  <2> QED BY <2>2, <2>3, <2>4, <2>5 DEF WellFormed
<1>2. \A i \in 1 .. n : WellFormed(units[i]) /\ units[i] # << >>
  BY <1>1
<1>3. n \in Nat /\ (n > 0 => n \in 1 .. n)
  OBVIOUS
<1>4. units \in [1 .. n -> Seq(Bytes)]
  BY <1>2 DEF WellFormed
<1> QED BY <1>2, <1>3, <1>4, SplitCorrect
=============================================================================
