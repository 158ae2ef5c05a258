--------------------------- MODULE RtpH264Proofs ---------------------------
(***************************************************************************)
(* Proofs about RtpH264 for access units of any shape, any packet and      *)
(* buffer size and any number of faults: types, the packets' sizes, that   *)
(* the NAL units sent are the encoder's, and what is delivered: damage is  *)
(* local, and one undisturbed access unit resynchronises.                  *)
(*                                                                         *)
(* Inv is about single packets.  Flow is about access units: each          *)
(* undisturbed one is still to come, arriving, or past, and what the       *)
(* buffer holds besides is of disturbed or oversized ones.  It rests on    *)
(* where a packet's bytes lie in the image of its access unit.             *)
(***************************************************************************)
EXTENDS RtpH264, AnnexBProofs, FiniteSetTheorems

(***************************************************************************)
(* What StartUnit hands to the sender.                                     *)
(***************************************************************************)
\* split_nals finds the lengths of the NAL units the encoder wrote, the first
\* MaxNals of them.
LEMMA UnitIs ==
    ASSUME NEW kind \in UnitKinds, NEW four
    PROVE  Lengths(split_nals(Encoded(kind, four))) = SubSeq(kind, 1, Min({Len(kind), MaxNals}))
<1> DEFINE units == [k \in 1 .. Len(kind) |-> [i \in 1 .. kind[k] |-> 1]]
<1>1. /\ kind \in Seq(Nat) /\ kind \in [1 .. Len(kind) -> Nat] /\ Len(kind) \in Nat
      /\ Len(kind) > 0 => kind[Len(kind)] > 0
  <2>1. kind \in Seq(Nat)
    BY RtpH264Assumption
  <2>2. kind # << >> => kind[Len(kind)] > 0
    BY UnitKindsAssumption
  <2> QED BY <2>1, <2>2
<1>2. ASSUME NEW k \in 1 .. Len(kind)
      PROVE  /\ units[k] \in Seq(Bytes) /\ Len(units[k]) = kind[k]
             /\ \A i \in 1 .. kind[k] : units[k][i] = 1
  <2>1. PICK m \in Nat : m = kind[k]
    BY <1>1
  <2>2. PICK u : u = [i \in 1 .. m |-> 1]
    OBVIOUS
  <2>3. u \in [1 .. m -> Bytes]
    BY <2>2 DEF Bytes
  <2>4. u \in Seq(Bytes) /\ Len(u) = m
    BY <2>1, <2>3
  <2>5. units[k] = u
    BY <2>1, <2>2
  <2> QED BY <2>1, <2>2, <2>4, <2>5
<1>3. Encoded(kind, four) = Compose(units, four)
  BY <1>1 DEF Encoded
<1>4. units = [k \in 1 .. Len(kind) |-> units[k]]
  OBVIOUS
<1> HIDE DEF units
<1>5. units \in [1 .. Len(kind) -> Seq(Bytes)]
  BY <1>2, <1>4
<1>6. ASSUME NEW k \in 1 .. Len(kind) PROVE WellFormed(units[k])
  <2>1. PICK u \in Seq(Bytes) : u = units[k] /\ \A i \in 1 .. Len(u) : u[i] = 1
    BY <1>2
  <2>2. u # << >> => u[Len(u)] # 0
    BY <2>1
  <2>3. \A i \in 1 .. Len(u) - 2 : ~(u[i] = 0 /\ u[i + 1] = 0 /\ u[i + 2] = 1)
    BY <2>1
  <2> QED BY <2>1, <2>2, <2>3 DEF WellFormed
<1>7. Len(kind) > 0 => units[Len(kind)] # << >>
  <2>1. ASSUME Len(kind) > 0 PROVE Len(units[Len(kind)]) > 0
    BY <1>1, <1>2, <2>1
  <2> QED BY <2>1
<1>8. split_nals(Encoded(kind, four)) = SubSeq(units, 1, Min({Len(kind), MaxNals}))
  BY <1>1, <1>3, <1>5, <1>6, <1>7, SplitCorrect
<1>9. PICK c \in Nat : c = Min({Len(kind), MaxNals}) /\ c <= Len(kind)
  BY <1>1, MinMaxOfTwo, AnnexBAssumption
<1>10. SubSeq(units, 1, c) = [k \in 1 .. c |-> units[k]]
  BY <1>1, <1>5, <1>9
<1>11. SubSeq(kind, 1, c) = [k \in 1 .. c |-> kind[k]]
  BY <1>1, <1>9
<1>12. Lengths(SubSeq(units, 1, c)) = [k \in 1 .. c |-> kind[k]]
  <2>1. PICK s : s = SubSeq(units, 1, c)
    OBVIOUS
  <2>2. DOMAIN s = 1 .. c /\ \A k \in 1 .. c : s[k] = units[k] /\ k \in 1 .. Len(kind)
    <3>1. s = [k \in 1 .. c |-> units[k]]
      BY <1>10, <2>1
    <3>2. DOMAIN s = 1 .. c /\ \A k \in 1 .. c : s[k] = units[k]
      BY <3>1
    <3>3. ASSUME NEW k \in 1 .. c PROVE k \in 1 .. Len(kind)
      BY <1>1, <1>9
    <3> QED BY <3>2, <3>3
  <2>3. [k \in DOMAIN s |-> Len(s[k])] = [k \in 1 .. c |-> kind[k]]
    BY <1>2, <2>2
  <2> QED BY <2>1, <2>3 DEF Lengths
<1> QED BY <1>8, <1>9, <1>11, <1>12

\* NextNal finds the next NAL unit with bytes in it, and passes over none.
LEMMA NextNalIs ==
    ASSUME NEW unit \in Seq(Nat), NEW k \in Nat
    PROVE  LET n == NextNal(unit, k)
           IN /\ n \in Nat
              /\ n # 0 => n > k /\ n \in 1 .. Len(unit) /\ unit[n] > 0
              /\ \A j \in k + 1 .. Len(unit) : n = 0 \/ j < n => unit[j] = 0
<1> DEFINE rest == {j \in k + 1 .. Len(unit) : unit[j] > 0}
<1>1. rest \in SUBSET Nat
  OBVIOUS
<1>2. \A j \in k + 1 .. Len(unit) : j \notin rest => unit[j] = 0
  OBVIOUS
<1>3. CASE rest = {}
  BY <1>2, <1>3 DEF NextNal
<1>4. CASE rest # {}
  <2>1. Min(rest) \in rest /\ \A y \in rest : Min(rest) <= y
    BY <1>1, <1>4, MinIs
  <2>2. NextNal(unit, k) = Min(rest)
    BY <1>4 DEF NextNal
  <2>3. PICK n \in rest : n = Min(rest)
    BY <2>1
  <2>4. \A j \in k + 1 .. Len(unit) : j < n => unit[j] = 0
    <3>1. ASSUME NEW j \in k + 1 .. Len(unit), j < n PROVE j \notin rest
      <4>1. j \in Nat /\ n \in Nat /\ ~(n <= j)
        BY <1>1, <2>3, <3>1
      <4> QED BY <2>1, <2>3, <4>1
    <3> QED BY <1>2, <3>1
  <2>5. n \in Nat /\ n > k /\ n \in 1 .. Len(unit) /\ unit[n] > 0 /\ n # 0
    BY <2>3
  <2> QED BY <2>2, <2>3, <2>4, <2>5
<1> QED BY <1>3, <1>4

\* Nothing is left behind the last NAL unit, which is not empty.
LEMMA NextNalEnds ==
    ASSUME NEW unit \in Seq(Nat), unit # << >>, unit[Len(unit)] > 0,
           NEW k \in 0 .. Len(unit)
    PROVE  NextNal(unit, k) = 0 <=> k = Len(unit)
<1>1. PICK m \in Nat \ {0} : m = Len(unit)
  OBVIOUS
<1>2. PICK n : n = NextNal(unit, k)
  OBVIOUS
<1>3. /\ n \in Nat
      /\ n # 0 => n > k /\ n \in 1 .. m
      /\ n = 0 => \A j \in k + 1 .. m : unit[j] = 0
  <2>1. k \in Nat
    OBVIOUS
  <2>2. /\ n \in Nat
        /\ n # 0 => n > k /\ n \in 1 .. Len(unit) /\ unit[n] > 0
        /\ \A j \in k + 1 .. Len(unit) : n = 0 \/ j < n => unit[j] = 0
    BY <1>2, <2>1, NextNalIs
  <2> QED BY <1>1, <2>2
<1>4. n = 0 => ~(m \in k + 1 .. m)
  <2>1. unit[m] # 0
    BY <1>1
  <2> QED BY <1>3, <2>1
<1>5. k \in 0 .. m
  BY <1>1
<1> QED BY <1>1, <1>2, <1>3, <1>4, <1>5

(***************************************************************************)
(* The buffer's image of an access unit: where each NAL unit begins.       *)
(***************************************************************************)
ByteNames == Nat \X Nat \X Nat
Byte(ts, k, i) == <<ts, k, i>>

PartOf(ts, unit, k) == IF unit[k] = 0 THEN << >> ELSE kStartCode \o Piece(ts, k, 0, unit[k])
WholeOf(ts, unit) == FlattenSeq([k \in DOMAIN unit |-> PartOf(ts, unit, k)])

\* NAL unit k and its start code lie between end[k - 1] and end[k].
Spread(ts, unit, end) ==
    /\ end \in [0 .. Len(unit) -> Nat] /\ end[0] = 0
    /\ Len(WholeOf(ts, unit)) = end[Len(unit)]
    /\ \A k \in 1 .. Len(unit) :
          /\ end[k] = end[k - 1] + (IF unit[k] = 0 THEN 0 ELSE StartLen + unit[k])
          /\ end[k] <= end[Len(unit)]
          /\ unit[k] > 0 =>
                /\ \A j \in 1 .. StartLen : WholeOf(ts, unit)[end[k - 1] + j] = Byte(0, 0, j - 1)
                /\ \A j \in 1 .. unit[k] :
                      WholeOf(ts, unit)[end[k - 1] + StartLen + j] = Byte(ts, k, j - 1)

Ends(ts, unit) == CHOOSE end : Spread(ts, unit, end)

LEMMA PieceIs ==
    ASSUME NEW ts \in Nat, NEW k \in Nat, NEW from \in Nat, NEW n \in Nat
    PROVE  Piece(ts, k, from, n) \in Seq(ByteNames) /\ Len(Piece(ts, k, from, n)) = n
<1>1. Piece(ts, k, from, n) = [i \in 1 .. n |-> <<ts, k, from + i - 1>>]
  BY DEF Piece
<1>2. \A i \in 1 .. n : <<ts, k, from + i - 1>> \in ByteNames
  BY DEF ByteNames
<1>3. Piece(ts, k, from, n) \in [1 .. n -> ByteNames]
  BY <1>1, <1>2
<1> QED BY <1>3

LEMMA PieceAt ==
    ASSUME NEW ts \in Nat, NEW k \in Nat, NEW from \in Nat, NEW n \in Nat, NEW j \in 1 .. n
    PROVE  Piece(ts, k, from, n)[j] = Byte(ts, k, from + (j - 1))
BY DEF Piece, Byte

LEMMA PieceFromStart ==
    ASSUME NEW ts \in Nat, NEW k \in Nat, NEW n \in Nat
    PROVE  /\ Piece(ts, k, 0, n) \in Seq(ByteNames) /\ Len(Piece(ts, k, 0, n)) = n
           /\ \A j \in 1 .. n : Piece(ts, k, 0, n)[j] = Byte(ts, k, j - 1)
<1>1. PICK z \in Nat : z = 0
  OBVIOUS
<1>2. Piece(ts, k, z, n) \in Seq(ByteNames) /\ Len(Piece(ts, k, z, n)) = n
  BY PieceIs
<1>3. \A j \in 1 .. n : Piece(ts, k, z, n)[j] = Byte(ts, k, z + (j - 1))
  BY PieceAt
<1>4. \A j \in 1 .. n : z + (j - 1) = j - 1
  BY <1>1
<1>5. \A j \in 1 .. n : Piece(ts, k, z, n)[j] = Byte(ts, k, j - 1)
  BY <1>3, <1>4
<1> QED BY <1>1, <1>2, <1>5

LEMMA StartCodeIs ==
    /\ kStartCode \in Seq(ByteNames) /\ Len(kStartCode) = StartLen
    /\ \A j \in 1 .. StartLen : kStartCode[j] = Byte(0, 0, j - 1)
<1>1. StartLen \in Nat
  BY RtpH264Assumption
<1>2. PICK z \in Nat : z = 0
  OBVIOUS
<1>3. /\ Piece(z, z, 0, StartLen) \in Seq(ByteNames) /\ Len(Piece(z, z, 0, StartLen)) = StartLen
      /\ \A j \in 1 .. StartLen : Piece(z, z, 0, StartLen)[j] = Byte(z, z, j - 1)
  BY <1>1, PieceFromStart
<1>4. kStartCode = Piece(z, z, 0, StartLen)
  BY <1>2 DEF kStartCode
<1> QED BY <1>2, <1>3, <1>4

LEMMA PartIs ==
    ASSUME NEW ts \in Nat, NEW unit \in Seq(Nat), NEW k \in 1 .. Len(unit)
    PROVE  /\ PartOf(ts, unit, k) \in Seq(ByteNames)
           /\ Len(PartOf(ts, unit, k)) = IF unit[k] = 0 THEN 0 ELSE StartLen + unit[k]
           /\ unit[k] > 0 =>
                 /\ \A j \in 1 .. StartLen : PartOf(ts, unit, k)[j] = Byte(0, 0, j - 1)
                 /\ \A j \in 1 .. unit[k] : PartOf(ts, unit, k)[StartLen + j] = Byte(ts, k, j - 1)
<1>1. PICK n \in Nat : n = unit[k]
  OBVIOUS
<1>2. CASE n = 0
  BY <1>1, <1>2 DEF PartOf
<1>3. CASE n > 0
  <2>1. PICK c \in Seq(ByteNames) :
           c = kStartCode /\ Len(c) = StartLen /\ \A j \in 1 .. StartLen : c[j] = Byte(0, 0, j - 1)
    BY StartCodeIs
  <2>2. PICK d \in Seq(ByteNames) :
           d = Piece(ts, k, 0, n) /\ Len(d) = n /\ \A j \in 1 .. n : d[j] = Byte(ts, k, j - 1)
    <3>1. k \in Nat
      OBVIOUS
    <3> QED BY <3>1, PieceFromStart
  <2>3. PartOf(ts, unit, k) = c \o d
    BY <1>1, <1>3, <2>1, <2>2 DEF PartOf
  <2>4. /\ c \o d \in Seq(ByteNames) /\ Len(c \o d) = Len(c) + Len(d)
        /\ \A j \in 1 .. Len(c) : (c \o d)[j] = c[j]
        /\ \A j \in 1 .. Len(d) : (c \o d)[Len(c) + j] = d[j]
    BY ConcatIs
  <2>5. PICK p : p = PartOf(ts, unit, k)
    OBVIOUS
  <2>6. /\ p \in Seq(ByteNames) /\ Len(p) = StartLen + n
        /\ \A j \in 1 .. StartLen : p[j] = Byte(0, 0, j - 1)
        /\ \A j \in 1 .. n : p[StartLen + j] = Byte(ts, k, j - 1)
    BY <2>1, <2>2, <2>3, <2>4, <2>5
  <2>7. Len(p) = IF unit[k] = 0 THEN 0 ELSE StartLen + unit[k]
    BY <1>1, <1>3, <2>6
  <2> QED BY <1>1, <2>5, <2>6, <2>7
<1> QED BY <1>1, <1>2, <1>3

LEMMA EndsIs ==
    ASSUME NEW ts \in Nat, NEW unit \in Seq(Nat)
    PROVE  WholeOf(ts, unit) \in Seq(ByteNames) /\ Spread(ts, unit, Ends(ts, unit))
<1> DEFINE parts == [k \in DOMAIN unit |-> PartOf(ts, unit, k)]
<1>1. PICK m \in Nat : m = Len(unit) /\ DOMAIN unit = 1 .. m
  OBVIOUS
<1>2. parts = [k \in 1 .. m |-> PartOf(ts, unit, k)]
  BY <1>1
<1>3. WholeOf(ts, unit) = FlattenSeq(parts)
  BY DEF WholeOf
<1> HIDE DEF parts
<1>4. \A k \in 1 .. m : parts[k] = PartOf(ts, unit, k) /\ PartOf(ts, unit, k) \in Seq(ByteNames)
  BY <1>1, <1>2, PartIs
<1>5. parts \in Seq(Seq(ByteNames)) /\ Len(parts) = m
  BY <1>2, <1>4
<1>6. PICK w \in Seq(ByteNames) : w = WholeOf(ts, unit)
  BY <1>3, <1>5, FlattenParts
<1>7. PICK end \in [0 .. m -> Nat] :
         /\ end[0] = 0
         /\ Len(w) = end[m]
         /\ \A k \in 1 .. m :
               /\ end[k] = end[k - 1] + Len(parts[k])
               /\ end[k] <= end[m]
               /\ \A j \in 1 .. Len(parts[k]) : w[end[k - 1] + j] = parts[k][j]
  <2>1. PICK end : Lie(parts, Len(parts), FlattenSeq(parts), end)
    BY <1>5, FlattenParts
  <2>2. Lie(parts, m, w, end)
    BY <1>3, <1>5, <1>6, <2>1
  <2> QED BY <2>2 DEF Lie
<1>8. ASSUME NEW k \in 1 .. m
      PROVE  /\ end[k] = end[k - 1] + (IF unit[k] = 0 THEN 0 ELSE StartLen + unit[k])
             /\ unit[k] > 0 =>
                   /\ \A j \in 1 .. StartLen : w[end[k - 1] + j] = Byte(0, 0, j - 1)
                   /\ \A j \in 1 .. unit[k] : w[end[k - 1] + StartLen + j] = Byte(ts, k, j - 1)
  <2>1. PICK d : d = parts[k]
    OBVIOUS
  <2>2. PICK n \in Nat : n = unit[k]
    BY <1>1
  <2>3. PICK e \in Nat : e = end[k - 1]
    BY <1>7
  <2>4. /\ Len(d) = IF n = 0 THEN 0 ELSE StartLen + n
        /\ n > 0 => /\ \A j \in 1 .. StartLen : d[j] = Byte(0, 0, j - 1)
                    /\ \A j \in 1 .. n : d[StartLen + j] = Byte(ts, k, j - 1)
    <3>1. d = PartOf(ts, unit, k) /\ k \in 1 .. Len(unit)
      BY <1>1, <1>4, <2>1
    <3>2. /\ Len(PartOf(ts, unit, k)) = IF unit[k] = 0 THEN 0 ELSE StartLen + unit[k]
          /\ unit[k] > 0 =>
                /\ \A j \in 1 .. StartLen : PartOf(ts, unit, k)[j] = Byte(0, 0, j - 1)
                /\ \A j \in 1 .. unit[k] : PartOf(ts, unit, k)[StartLen + j] = Byte(ts, k, j - 1)
      BY <3>1, PartIs
    <3> QED BY <2>2, <3>1, <3>2
  <2>5. end[k] = e + Len(d) /\ \A j \in 1 .. Len(d) : w[e + j] = d[j]
    BY <1>7, <2>1, <2>3
  <2>6. ASSUME n > 0
        PROVE  /\ \A j \in 1 .. StartLen : w[e + j] = Byte(0, 0, j - 1)
               /\ \A j \in 1 .. n : w[e + StartLen + j] = Byte(ts, k, j - 1)
    <3>1. StartLen \in Nat /\ Len(d) = StartLen + n
      BY <2>4, <2>6, RtpH264Assumption
    <3>2. \A j \in 1 .. StartLen : j \in 1 .. Len(d)
      BY <3>1
    <3>3. \A j \in 1 .. n : StartLen + j \in 1 .. Len(d) /\ e + StartLen + j = e + (StartLen + j)
      BY <3>1
    <3> QED BY <2>4, <2>5, <2>6, <3>2, <3>3
  <2> QED BY <2>2, <2>3, <2>4, <2>5, <2>6
<1>9. Spread(ts, unit, end)
  BY <1>1, <1>6, <1>7, <1>8 DEF Spread
<1>10. Spread(ts, unit, Ends(ts, unit))
  BY <1>9 DEF Ends
<1> QED BY <1>6, <1>10

\* Empty NAL units take no room in it.
LEMMA EndsAcross ==
    ASSUME NEW ts \in Nat, NEW unit \in Seq(Nat), NEW k \in 0 .. Len(unit),
           NextNal(unit, k) # 0
    PROVE  Ends(ts, unit)[NextNal(unit, k) - 1] = Ends(ts, unit)[k]
<1>1. PICK m \in Nat : m = Len(unit)
  OBVIOUS
<1>2. PICK n : n = NextNal(unit, k)
  OBVIOUS
<1>3. k \in Nat /\ n \in Nat /\ n > k /\ n <= m /\ \A j \in k + 1 .. m : j < n => unit[j] = 0
  <2>1. k \in Nat
    OBVIOUS
  <2>2. /\ n \in Nat
        /\ n # 0 => n > k /\ n \in 1 .. Len(unit) /\ unit[n] > 0
        /\ \A j \in k + 1 .. Len(unit) : n = 0 \/ j < n => unit[j] = 0
    BY <1>2, <2>1, NextNalIs
  <2> QED BY <1>1, <1>2, <2>1, <2>2
<1>4. PICK end \in [0 .. m -> Nat] :
         /\ end = Ends(ts, unit)
         /\ \A j \in 1 .. m : unit[j] = 0 => end[j] = end[j - 1] + 0
  BY <1>1, EndsIs DEF Spread
<1> DEFINE G == {c \in Nat : k + c < n => end[k + c] = end[k]}
<1>5. 0 \in G
  BY <1>3
<1>6. ASSUME NEW c \in Nat, c \in G PROVE c + 1 \in G
  <2> SUFFICES ASSUME k + (c + 1) < n PROVE end[k + (c + 1)] = end[k]
    OBVIOUS
  <2>1. PICK j \in Nat : j = k + (c + 1) /\ j - 1 = k + c
    BY <1>3
  <2>2. j \in 1 .. m /\ j \in k + 1 .. m /\ j < n /\ k + c < n /\ j - 1 \in 0 .. m
    BY <1>3, <2>1
  <2>3. end[j] = end[j - 1] + 0
    BY <1>3, <1>4, <2>2
  <2>4. end[j - 1] \in Nat
    BY <2>2
  <2>5. end[j - 1] = end[k]
    BY <1>6, <2>1, <2>2
  <2> QED BY <2>1, <2>3, <2>4, <2>5
<1>7. \A c \in Nat : c \in G
  <2> HIDE DEF G
  <2> QED BY <1>5, <1>6, SetInduction
<1>8. PICK c \in Nat : c = n - 1 - k
  BY <1>3
<1>9. k + c < n /\ k + c = n - 1
  BY <1>3, <1>8
<1>10. end[n - 1] = end[k]
  <2>1. k + c < n => end[k + c] = end[k]
    <3>1. c \in G
      <4> HIDE DEF G
      <4> QED BY <1>7
    <3> QED BY <3>1
  <2> QED BY <1>9, <2>1
<1> QED BY <1>2, <1>4, <1>10

\* The place in that image of byte o of NAL unit k, or of its start code.
Place(ts, unit, k, o) == Ends(ts, unit)[k - 1] + (IF o = 0 THEN 0 ELSE StartLen + o)

LEMMA PlaceIs ==
    ASSUME NEW ts \in Nat, NEW unit \in Seq(Nat), NEW k \in 1 .. Len(unit), unit[k] > 0
    PROVE  /\ Ends(ts, unit)[k - 1] \in Nat
           /\ \A o \in 0 .. unit[k] : /\ Place(ts, unit, k, o) \in Nat
                                      /\ Place(ts, unit, k, o) <= Len(WholeOf(ts, unit))
           /\ Place(ts, unit, k, unit[k]) = Ends(ts, unit)[k]
           /\ k = Len(unit) => Place(ts, unit, k, unit[k]) = Len(WholeOf(ts, unit))
<1>1. PICK m \in Nat : m = Len(unit) /\ k \in 1 .. m /\ k - 1 \in 0 .. m
  OBVIOUS
<1>2. PICK n \in Nat : n = unit[k] /\ n > 0
  OBVIOUS
<1>3. PICK end \in [0 .. m -> Nat] :
         /\ end = Ends(ts, unit)
         /\ Len(WholeOf(ts, unit)) = end[m]
         /\ \A j \in 1 .. m : /\ end[j] = end[j - 1] + (IF unit[j] = 0 THEN 0 ELSE StartLen + unit[j])
                              /\ end[j] <= end[m]
  BY <1>1, EndsIs DEF Spread
<1>4. PICK e \in Nat : e = end[k - 1]
  BY <1>1, <1>3
<1>5. end[k] = e + (StartLen + n) /\ end[k] <= end[m] /\ end[m] \in Nat
  BY <1>1, <1>2, <1>3, <1>4
<1>6. \A o \in 0 .. n : Place(ts, unit, k, o) = e + (IF o = 0 THEN 0 ELSE StartLen + o)
  BY <1>3, <1>4 DEF Place
<1>7. StartLen \in Nat
  BY RtpH264Assumption
<1>8. ASSUME NEW o \in 0 .. n
      PROVE  /\ Place(ts, unit, k, o) \in Nat
             /\ Place(ts, unit, k, o) <= end[m]
  <2>1. CASE o = 0
    <3>1. Place(ts, unit, k, o) = e + 0
      BY <1>6, <2>1
    <3> QED BY <1>5, <1>7, <3>1
  <2>2. CASE o # 0
    <3>1. Place(ts, unit, k, o) = e + (StartLen + o)
      BY <1>6, <2>2
    <3>2. StartLen + o \in Nat /\ StartLen + o <= StartLen + n
      BY <1>7
    <3> QED BY <1>5, <1>7, <3>1, <3>2
  <2> QED BY <2>1, <2>2
<1>9. Place(ts, unit, k, n) = end[k]
  BY <1>2, <1>5, <1>6
<1> QED BY <1>1, <1>2, <1>3, <1>4, <1>8, <1>9

(***************************************************************************)
(* What feed appends.                                                      *)
(***************************************************************************)
LEMMA OwnersIs ==
    ASSUME NEW d \in Seq(ByteNames), NEW b
    PROVE  b \in Owners(d) <=> b # 0 /\ \E i \in 1 .. Len(d) : d[i][1] = b
<1>1. DOMAIN d = 1 .. Len(d)
  OBVIOUS
<1> QED BY <1>1 DEF Owners

LEMMA OwnersOfConcat ==
    ASSUME NEW x \in Seq(ByteNames), NEW y \in Seq(ByteNames)
    PROVE  Owners(x \o y) = Owners(x) \cup Owners(y)
<1>1. PICK z \in Seq(ByteNames) :
         /\ z = x \o y /\ Len(z) = Len(x) + Len(y)
         /\ Len(x) \in Nat /\ Len(y) \in Nat
         /\ \A j \in 1 .. Len(x) : z[j] = x[j]
         /\ \A j \in 1 .. Len(y) : z[Len(x) + j] = y[j]
  <2>1. /\ x \o y \in Seq(ByteNames) /\ Len(x \o y) = Len(x) + Len(y)
        /\ Len(x) \in Nat /\ Len(y) \in Nat
        /\ \A j \in 1 .. Len(x) : (x \o y)[j] = x[j]
        /\ \A j \in 1 .. Len(y) : (x \o y)[Len(x) + j] = y[j]
    BY ConcatIs
  <2> QED BY <2>1
<1>2. ASSUME NEW b, b \in Owners(z) PROVE b \in Owners(x) \cup Owners(y)
  <2>1. PICK i \in 1 .. Len(z) : b # 0 /\ z[i][1] = b
    BY <1>2, OwnersIs
  <2>2. CASE i <= Len(x)
    <3>1. i \in 1 .. Len(x) /\ x[i][1] = b
      BY <1>1, <2>1, <2>2
    <3> QED BY <2>1, <3>1, OwnersIs
  <2>3. CASE i > Len(x)
    <3>1. PICK j \in 1 .. Len(y) : i = Len(x) + j
      <4>1. i - Len(x) \in 1 .. Len(y) /\ i = Len(x) + (i - Len(x))
        BY <1>1, <2>3
      <4> QED BY <4>1
    <3>2. y[j][1] = b
      BY <1>1, <2>1, <3>1
    <3> QED BY <2>1, <3>2, OwnersIs
  <2> QED BY <1>1, <2>2, <2>3
<1>3. ASSUME NEW b, b \in Owners(x) PROVE b \in Owners(z)
  <2>1. PICK i \in 1 .. Len(x) : b # 0 /\ x[i][1] = b
    BY <1>3, OwnersIs
  <2>2. i \in 1 .. Len(z) /\ z[i][1] = b
    BY <1>1, <2>1
  <2> QED BY <2>1, <2>2, OwnersIs
<1>4. ASSUME NEW b, b \in Owners(y) PROVE b \in Owners(z)
  <2>1. PICK i \in 1 .. Len(y) : b # 0 /\ y[i][1] = b
    BY <1>4, OwnersIs
  <2>2. PICK j \in 1 .. Len(z) : j = Len(x) + i
    BY <1>1
  <2>3. z[j][1] = b
    BY <1>1, <2>1, <2>2
  <2> QED BY <2>1, <2>3, OwnersIs
<1>5. Owners(z) = Owners(x) \cup Owners(y)
  BY <1>2, <1>3, <1>4
<1> QED BY <1>1, <1>5

LEMMA OwnersOfPieces ==
    /\ Owners(<< >>) = {} /\ Owners(kStartCode) = {}
    /\ \A ts \in Nat \ {0}, k \in Nat, from \in Nat, n \in Nat \ {0} :
          Owners(Piece(ts, k, from, n)) = {ts}
<1>1. Owners(<< >>) = {}
  BY DEF Owners
<1>2. Owners(kStartCode) = {}
  <2>1. PICK c \in Seq(ByteNames) :
           c = kStartCode /\ \A j \in 1 .. Len(c) : c[j] = Byte(0, 0, j - 1)
    BY StartCodeIs
  <2>2. \A j \in 1 .. Len(c) : c[j][1] = 0
    BY <2>1 DEF Byte
  <2>3. Owners(c) = {}
    BY <2>2, OwnersIs
  <2> QED BY <2>1, <2>3
<1>3. ASSUME NEW ts \in Nat \ {0}, NEW k \in Nat, NEW from \in Nat, NEW n \in Nat \ {0}
      PROVE  Owners(Piece(ts, k, from, n)) = {ts}
  <2>1. Piece(ts, k, from, n) \in Seq(ByteNames) /\ Len(Piece(ts, k, from, n)) = n
    BY PieceIs
  <2>2. \A j \in 1 .. n : Piece(ts, k, from, n)[j] = Byte(ts, k, from + (j - 1))
    BY PieceAt
  <2>3. \A j \in 1 .. n : Piece(ts, k, from, n)[j][1] = ts
    BY <2>2 DEF Byte
  <2>4. PICK d \in Seq(ByteNames) : d = Piece(ts, k, from, n)
    BY <2>1
  <2>5. Len(d) = n /\ \A j \in 1 .. n : d[j][1] = ts
    BY <2>1, <2>3, <2>4
  <2>6. 1 \in 1 .. n
    OBVIOUS
  <2>7. Owners(d) = {ts}
    BY <2>5, <2>6, OwnersIs
  <2> QED BY <2>4, <2>7
<1> QED BY <1>1, <1>2, <1>3

\* Buffer g continues buffer f by bytes of access unit ts at most.
Extends(g, f, ts) ==
    /\ g \in Seq(ByteNames) /\ Len(g) <= FrameCap /\ Len(f) <= Len(g)
    /\ Owners(f) \subseteq Owners(g) /\ Owners(g) \subseteq Owners(f) \cup {ts}

LEMMA AppendPieceIs ==
    ASSUME NEW f \in Seq(ByteNames), Len(f) <= FrameCap, NEW d \in Seq(ByteNames),
           NEW ts, Owners(d) \subseteq {ts}
    PROVE  \E g : /\ AppendPiece([frame |-> f, len |-> Len(f)], d) = [frame |-> g, len |-> Len(g)]
                  /\ Extends(g, f, ts)
                  /\ Len(f) + Len(d) <= FrameCap => g = f \o d
<1>1. /\ f \o d \in Seq(ByteNames) /\ Len(f \o d) = Len(f) + Len(d)
      /\ Len(f) \in Nat /\ Len(d) \in Nat
  BY ConcatIs
<1>2. Owners(f \o d) = Owners(f) \cup Owners(d)
  BY OwnersOfConcat
<1>3. CASE Len(f) + Len(d) <= FrameCap
  <2>1. Extends(f \o d, f, ts)
    BY <1>1, <1>2, <1>3 DEF Extends
  <2> QED BY <1>1, <1>3, <2>1 DEF AppendPiece
<1>4. CASE ~(Len(f) + Len(d) <= FrameCap)
  <2>1. Extends(f, f, ts)
    BY DEF Extends
  <2> QED BY <1>4, <2>1 DEF AppendPiece
<1> QED BY <1>3, <1>4

\* The three pieces of a packet.
Mark(p) == IF p.start THEN kStartCode ELSE << >>
Header(p) == IF p.start /\ p.fu THEN Piece(p.ts, p.nal, 0, 1) ELSE << >>
Payload(p) == Piece(p.ts, p.nal, p.from, p.n)

\* They are small enough for an empty buffer.
Modest(p) == p.n > 0 /\ RtpHdr + (IF p.fu THEN FuHdr ELSE 0) + p.n <= MaxPacket

LEMMA PiecesAre ==
    ASSUME NEW p \in Packets, Modest(p)
    PROVE  /\ Mark(p) \in Seq(ByteNames) /\ Owners(Mark(p)) = {}
           /\ Header(p) \in Seq(ByteNames) /\ Owners(Header(p)) \subseteq {p.ts}
           /\ Payload(p) \in Seq(ByteNames) /\ Owners(Payload(p)) = {p.ts}
           /\ Len(Mark(p)) = (IF p.start THEN StartLen ELSE 0)
           /\ Len(Header(p)) = (IF p.start /\ p.fu THEN 1 ELSE 0)
           /\ Len(Payload(p)) = p.n
           /\ Len(Mark(p)) + Len(Header(p)) + Len(Payload(p)) <= FrameCap
<1>1. /\ p.ts \in Nat \ {0} /\ p.nal \in Nat /\ p.from \in Nat /\ p.n \in Nat \ {0}
      /\ p.start \in BOOLEAN /\ p.fu \in BOOLEAN
  BY RtpH264Assumption DEF Packets, Modest
<1>2. /\ Mark(p) \in Seq(ByteNames) /\ Owners(Mark(p)) = {}
      /\ Len(Mark(p)) = (IF p.start THEN StartLen ELSE 0)
  <2>1. << >> \in Seq(ByteNames) /\ Len(<< >>) = 0
    OBVIOUS
  <2>2. CASE p.start
    BY <2>2, StartCodeIs, OwnersOfPieces DEF Mark
  <2>3. CASE ~p.start
    BY <2>1, <2>3, OwnersOfPieces DEF Mark
  <2> QED BY <2>2, <2>3
<1>3. /\ Header(p) \in Seq(ByteNames) /\ Owners(Header(p)) \subseteq {p.ts}
      /\ Len(Header(p)) = (IF p.start /\ p.fu THEN 1 ELSE 0)
  <2>1. << >> \in Seq(ByteNames) /\ Len(<< >>) = 0
    OBVIOUS
  <2>2. CASE p.start /\ p.fu
    <3>1. PICK ts \in Nat \ {0} : ts = p.ts
      BY <1>1
    <3>2. PICK k \in Nat : k = p.nal
      BY <1>1
    <3>3. PICK one \in Nat \ {0} : one = 1
      OBVIOUS
    <3>4. PICK z \in Nat : z = 0
      OBVIOUS
    <3>5. Piece(ts, k, z, one) \in Seq(ByteNames) /\ Len(Piece(ts, k, z, one)) = one
      BY PieceIs
    <3>6. Owners(Piece(ts, k, z, one)) = {ts}
      BY OwnersOfPieces
    <3>7. Header(p) = Piece(ts, k, z, one)
      BY <2>2, <3>1, <3>2, <3>3, <3>4 DEF Header
    <3> QED BY <2>2, <3>1, <3>3, <3>5, <3>6, <3>7
  <2>3. CASE ~(p.start /\ p.fu)
    BY <2>1, <2>3, OwnersOfPieces DEF Header
  <2> QED BY <2>2, <2>3
<1>4. Payload(p) \in Seq(ByteNames) /\ Owners(Payload(p)) = {p.ts} /\ Len(Payload(p)) = p.n
  <2>1. Payload(p) \in Seq(ByteNames) /\ Len(Payload(p)) = p.n
    <3>1. Piece(p.ts, p.nal, p.from, p.n) \in Seq(ByteNames)
      <4>1. p.ts \in Nat /\ p.nal \in Nat /\ p.from \in Nat /\ p.n \in Nat
        BY <1>1
      <4> QED BY <4>1, PieceIs
    <3>2. Len(Piece(p.ts, p.nal, p.from, p.n)) = p.n
      <4>1. p.ts \in Nat /\ p.nal \in Nat /\ p.from \in Nat /\ p.n \in Nat
        BY <1>1
      <4> QED BY <4>1, PieceIs
    <3> QED BY <3>1, <3>2 DEF Payload
  <2>2. Owners(Payload(p)) = {p.ts}
    BY <1>1, OwnersOfPieces DEF Payload
  <2> QED BY <2>1, <2>2
<1>5. Len(Mark(p)) + Len(Header(p)) + Len(Payload(p)) <= FrameCap
  <2>1. /\ StartLen \in Nat /\ MaxPacket \in Nat /\ FrameCap \in Nat /\ RtpHdr \in Nat /\ FuHdr \in Nat
        /\ FrameCap > StartLen + MaxPacket
    BY RtpH264Assumption
  <2>2. p.n <= MaxPacket
    BY <1>1, <2>1 DEF Modest
  <2>3. PICK a \in Nat : a = Len(Mark(p)) /\ a <= StartLen
    BY <1>1, <1>2, <2>1
  <2>4. PICK b \in Nat : b = Len(Header(p)) /\ b <= 1
    BY <1>1, <1>3
  <2> QED BY <1>1, <1>4, <2>1, <2>2, <2>3, <2>4
<1> QED BY <1>2, <1>3, <1>4, <1>5

LEMMA AppendedIs ==
    ASSUME NEW p \in Packets, Modest(p),
           frame \in Seq(ByteNames), len = Len(frame), len <= FrameCap
    PROVE  \E g : /\ Appended(p) = [frame |-> g, len |-> Len(g)]
                  /\ Extends(g, frame, p.ts)
                  /\ frame = << >> => p.ts \in Owners(g)
                  /\ Len(frame) + Len(Mark(p)) + Len(Header(p)) + Len(Payload(p)) <= FrameCap =>
                        g = ((frame \o Mark(p)) \o Header(p)) \o Payload(p)
<1>1. PICK ts : ts = p.ts
  OBVIOUS
<1>2. PICK d1 \in Seq(ByteNames) : d1 = Mark(p) /\ Owners(d1) \subseteq {ts}
  BY <1>1, PiecesAre
<1>3. PICK d2 \in Seq(ByteNames) : d2 = Header(p) /\ Owners(d2) \subseteq {ts}
  BY <1>1, PiecesAre
<1>4. PICK d3 \in Seq(ByteNames) : d3 = Payload(p) /\ Owners(d3) \subseteq {ts} /\ Owners(d3) = {ts}
  BY <1>1, PiecesAre
<1>5. PICK f \in Seq(ByteNames) : f = frame /\ len = Len(f) /\ Len(f) <= FrameCap
  OBVIOUS
<1>6. PICK g1 : /\ AppendPiece([frame |-> f, len |-> Len(f)], d1) = [frame |-> g1, len |-> Len(g1)]
                /\ Extends(g1, f, ts)
                /\ Len(f) + Len(d1) <= FrameCap => g1 = f \o d1
  BY <1>2, <1>5, AppendPieceIs
<1>7. g1 \in Seq(ByteNames) /\ Len(g1) <= FrameCap
  BY <1>6 DEF Extends
<1>8. PICK g2 : /\ AppendPiece([frame |-> g1, len |-> Len(g1)], d2) = [frame |-> g2, len |-> Len(g2)]
                /\ Extends(g2, g1, ts)
                /\ Len(g1) + Len(d2) <= FrameCap => g2 = g1 \o d2
  BY <1>3, <1>7, AppendPieceIs
<1>9. g2 \in Seq(ByteNames) /\ Len(g2) <= FrameCap
  BY <1>8 DEF Extends
<1>10. PICK g3 : /\ AppendPiece([frame |-> g2, len |-> Len(g2)], d3) = [frame |-> g3, len |-> Len(g3)]
                 /\ Extends(g3, g2, ts)
                 /\ Len(g2) + Len(d3) <= FrameCap => g3 = g2 \o d3
  BY <1>4, <1>9, AppendPieceIs
<1>11. Appended(p) = [frame |-> g3, len |-> Len(g3)]
  BY <1>2, <1>3, <1>4, <1>5, <1>6, <1>8, <1>10 DEF Appended, Mark, Header, Payload
<1>12. Extends(g3, f, ts)
  <2>1. Len(f) \in Nat /\ Len(g1) \in Nat /\ Len(g2) \in Nat /\ Len(g3) \in Nat
    BY <1>6, <1>8, <1>10 DEF Extends
  <2> QED BY <1>6, <1>8, <1>10, <2>1 DEF Extends
<1>13. Len(f) + Len(d1) + Len(d2) + Len(d3) <= FrameCap => g3 = ((f \o d1) \o d2) \o d3
  <2> SUFFICES ASSUME Len(f) + Len(d1) + Len(d2) + Len(d3) <= FrameCap
               PROVE  g3 = ((f \o d1) \o d2) \o d3
    OBVIOUS
  <2>1. /\ Len(f) \in Nat /\ Len(d1) \in Nat /\ Len(d2) \in Nat /\ Len(d3) \in Nat /\ FrameCap \in Nat
    BY RtpH264Assumption
  <2>2. g1 = f \o d1
    BY <1>6, <2>1
  <2>3. Len(g1) = Len(f) + Len(d1)
    BY <2>2
  <2>4. g2 = g1 \o d2
    BY <1>8, <2>1, <2>3
  <2>5. Len(g2) = Len(g1) + Len(d2)
    BY <1>7, <2>4
  <2>6. g3 = g2 \o d3
    BY <1>10, <2>1, <2>3, <2>5
  <2> QED BY <2>2, <2>4, <2>6
<1>14. f = << >> => ts \in Owners(g3)
  <2> SUFFICES ASSUME f = << >> PROVE ts \in Owners(g3)
    OBVIOUS
  <2>1. Len(d1) + Len(d2) + Len(d3) <= FrameCap
    BY <1>2, <1>3, <1>4, PiecesAre
  <2>2. Len(f) = 0 /\ Len(d1) \in Nat /\ Len(d2) \in Nat /\ Len(d3) \in Nat
    OBVIOUS
  <2>3. Len(f) + Len(d1) + Len(d2) + Len(d3) <= FrameCap
    BY <2>1, <2>2
  <2>4. PICK h \in Seq(ByteNames) : h = (f \o d1) \o d2
    <3>1. f \o d1 \in Seq(ByteNames)
      BY ConcatIs
    <3>2. (f \o d1) \o d2 \in Seq(ByteNames)
      BY <3>1, ConcatIs
    <3> QED BY <3>2
  <2>5. g3 = h \o d3
    BY <1>13, <2>3, <2>4
  <2> QED BY <1>4, <2>5, OwnersOfConcat
<1> QED BY <1>1, <1>2, <1>3, <1>4, <1>5, <1>11, <1>12, <1>13, <1>14

\* A packet of access unit p.ts, of these lengths.
WellBuilt(p, unit) ==
    /\ p.nal \in 1 .. Len(unit) /\ p.from + p.n <= unit[p.nal]
    /\ p.start => p.from = IF p.fu THEN 1 ELSE 0
    /\ ~p.start => p.from > 0
    /\ p.marker => p.nal = Len(unit) /\ p.from + p.n = unit[p.nal]
    /\ Modest(p)

\* Its bytes lie between these places of the access unit's image.
Begin(p, unit) == Place(p.ts, unit, p.nal, IF p.start THEN 0 ELSE p.from)
Finish(p, unit) == Place(p.ts, unit, p.nal, p.from + p.n)

LEMMA BeginFinish ==
    ASSUME NEW p \in Packets, NEW unit \in Seq(Nat), WellBuilt(p, unit)
    PROVE  /\ Begin(p, unit) \in Nat /\ Finish(p, unit) \in Nat
           /\ Begin(p, unit) < Finish(p, unit)
           /\ Finish(p, unit) <= Len(WholeOf(p.ts, unit))
           /\ p.marker => Finish(p, unit) = Len(WholeOf(p.ts, unit))
           /\ Ends(p.ts, unit)[p.nal - 1] \in Nat
           /\ Begin(p, unit) = Ends(p.ts, unit)[p.nal - 1] + (IF p.start THEN 0 ELSE StartLen + p.from)
           /\ Finish(p, unit) = Ends(p.ts, unit)[p.nal - 1] + (StartLen + (p.from + p.n))
           /\ unit[p.nal] \in Nat /\ unit[p.nal] > 0
<1>1. PICK ts \in Nat : ts = p.ts
  BY RtpH264Assumption DEF Packets
<1>2. PICK k \in 1 .. Len(unit) : k = p.nal
  BY DEF WellBuilt
<1>3. PICK from \in Nat : from = p.from
  BY DEF Packets
<1>4. PICK n \in Nat \ {0} : n = p.n
  BY DEF Packets, WellBuilt, Modest
<1>5. PICK m \in Nat : m = unit[k] /\ from + n <= m /\ m > 0
  BY <1>2, <1>3, <1>4 DEF WellBuilt
<1>6. p.start \in BOOLEAN /\ (~p.start => from > 0)
  BY <1>3 DEF Packets, WellBuilt
<1>7. PICK o \in 0 .. m : o = IF p.start THEN 0 ELSE from
  BY <1>3, <1>4, <1>5
<1>8. PICK e \in 0 .. m : e = from + n /\ e # 0 /\ o < e
  BY <1>4, <1>5, <1>7
<1>9. Begin(p, unit) = Place(ts, unit, k, o) /\ Finish(p, unit) = Place(ts, unit, k, e)
  BY <1>1, <1>2, <1>3, <1>4, <1>7, <1>8 DEF Begin, Finish
<1>10. PICK base \in Nat : base = Ends(ts, unit)[k - 1]
  BY <1>5, PlaceIs
<1>11. /\ Place(ts, unit, k, o) \in Nat /\ Place(ts, unit, k, e) \in Nat
       /\ Place(ts, unit, k, e) <= Len(WholeOf(ts, unit))
       /\ k = Len(unit) => Place(ts, unit, k, m) = Len(WholeOf(ts, unit))
  BY <1>5, PlaceIs
<1>12. StartLen \in Nat
  BY RtpH264Assumption
<1>13. Place(ts, unit, k, o) = base + (IF p.start THEN 0 ELSE StartLen + from)
  BY <1>6, <1>7, <1>10 DEF Place
<1>14. Place(ts, unit, k, e) = base + (StartLen + e)
  BY <1>8, <1>10 DEF Place
<1>15. Place(ts, unit, k, o) < Place(ts, unit, k, e)
  <2>1. CASE p.start
    BY <1>8, <1>12, <1>13, <1>14, <2>1
  <2>2. CASE ~p.start
    BY <1>7, <1>8, <1>12, <1>13, <1>14, <2>2
  <2> QED BY <2>1, <2>2
<1>16. p.marker => e = m /\ k = Len(unit)
  BY <1>2, <1>3, <1>4, <1>5, <1>8 DEF WellBuilt
<1> QED BY <1>1, <1>2, <1>3, <1>4, <1>5, <1>8, <1>9, <1>10, <1>11, <1>13, <1>14, <1>15, <1>16

LEMMA SameElements ==
    ASSUME NEW S, NEW x \in Seq(S), NEW y \in Seq(S), Len(x) = Len(y),
           \A j \in 1 .. Len(x) : x[j] = y[j]
    PROVE  x = y
OBVIOUS

LEMMA PrefixIs ==
    ASSUME NEW w \in Seq(ByteNames), NEW c \in Nat, c <= Len(w)
    PROVE  /\ SubSeq(w, 1, c) \in Seq(ByteNames) /\ Len(SubSeq(w, 1, c)) = c
           /\ \A i \in 1 .. c : SubSeq(w, 1, c)[i] = w[i]
<1>1. PICK m \in Nat : m = Len(w)
  OBVIOUS
<1>2. SubSeq(w, 1, c) = [i \in 1 .. c |-> w[i]]
  BY <1>1
<1>3. PICK f : f = [i \in 1 .. c |-> w[i]]
  OBVIOUS
<1>4. \A i \in 1 .. c : w[i] \in ByteNames
  BY <1>1
<1>5. f \in [1 .. c -> ByteNames]
  BY <1>3, <1>4
<1>6. f \in Seq(ByteNames) /\ Len(f) = c
  BY <1>5
<1>7. \A i \in 1 .. c : f[i] = w[i]
  BY <1>3
<1> QED BY <1>2, <1>3, <1>6, <1>7

LEMMA PrefixGrows ==
    ASSUME NEW w \in Seq(ByteNames), NEW c \in Nat, NEW d \in Seq(ByteNames),
           c + Len(d) <= Len(w), \A j \in 1 .. Len(d) : d[j] = w[c + j]
    PROVE  SubSeq(w, 1, c) \o d = SubSeq(w, 1, c + Len(d))
<1>1. PICK n \in Nat : n = Len(d) /\ c <= Len(w) /\ c + n <= Len(w) /\ c + n \in Nat
  OBVIOUS
<1>2. PICK f \in Seq(ByteNames) : f = SubSeq(w, 1, c) /\ Len(f) = c /\ \A i \in 1 .. c : f[i] = w[i]
  BY <1>1, PrefixIs
<1>3. PICK z \in Seq(ByteNames) :
         z = SubSeq(w, 1, c + n) /\ Len(z) = c + n /\ \A i \in 1 .. c + n : z[i] = w[i]
  BY <1>1, PrefixIs
<1>4. PICK x \in Seq(ByteNames) :
         /\ x = f \o d /\ Len(x) = c + n
         /\ \A j \in 1 .. c : x[j] = f[j]
         /\ \A j \in 1 .. n : x[c + j] = d[j]
  <2>1. /\ f \o d \in Seq(ByteNames) /\ Len(f \o d) = Len(f) + Len(d)
        /\ \A j \in 1 .. Len(f) : (f \o d)[j] = f[j]
        /\ \A j \in 1 .. Len(d) : (f \o d)[Len(f) + j] = d[j]
    BY ConcatIs
  <2>2. /\ Len(f \o d) = c + n
        /\ \A j \in 1 .. c : (f \o d)[j] = f[j]
        /\ \A j \in 1 .. n : (f \o d)[c + j] = d[j]
    BY <1>1, <1>2, <2>1
  <2> QED BY <2>1, <2>2
<1>5. \A i \in 1 .. c + n : x[i] = w[i]
  <2> SUFFICES ASSUME NEW i \in 1 .. c + n PROVE x[i] = w[i]
    OBVIOUS
  <2>1. CASE i <= c
    BY <1>2, <1>4, <2>1
  <2>2. CASE ~(i <= c)
    <3>1. PICK j \in 1 .. n : i = c + j
      <4>1. i - c \in 1 .. n /\ i = c + (i - c)
        BY <2>2
      <4> QED BY <4>1
    <3> QED BY <1>1, <1>4, <3>1
  <2> QED BY <2>1, <2>2
<1>6. x = z
  BY <1>3, <1>4, <1>5, SameElements
<1> QED BY <1>1, <1>2, <1>3, <1>4, <1>6

\* A packet that arrives when the buffer holds what precedes it in its access
\* unit's image continues that image.
LEMMA ContinuesImage ==
    ASSUME NEW p \in Packets, NEW unit \in Seq(Nat), WellBuilt(p, unit),
           NEW f, f = SubSeq(WholeOf(p.ts, unit), 1, Begin(p, unit))
    PROVE  /\ Len(f) + Len(Mark(p)) + Len(Header(p)) + Len(Payload(p)) = Finish(p, unit)
           /\ ((f \o Mark(p)) \o Header(p)) \o Payload(p)
                 = SubSeq(WholeOf(p.ts, unit), 1, Finish(p, unit))
<1>1. PICK ts \in Nat : ts = p.ts
  BY RtpH264Assumption DEF Packets
<1>2. PICK w \in Seq(ByteNames) : w = WholeOf(ts, unit)
  BY EndsIs
<1>3. PICK k \in 1 .. Len(unit) : k = p.nal
  BY DEF WellBuilt
<1>4. PICK from \in Nat : from = p.from
  BY DEF Packets
<1>5. PICK n \in Nat \ {0} : n = p.n
  BY DEF Packets, WellBuilt, Modest
<1>6. PICK m \in Nat : m = unit[k] /\ from + n <= m /\ m > 0
  BY <1>3, <1>4, <1>5, BeginFinish DEF WellBuilt
<1>7. PICK base \in Nat : base = Ends(ts, unit)[k - 1]
  BY <1>1, <1>3, BeginFinish
<1>8. PICK b \in Nat : b = Begin(p, unit) /\ b = base + (IF p.start THEN 0 ELSE StartLen + from)
  BY <1>1, <1>3, <1>4, <1>7, BeginFinish
<1>9. PICK e \in Nat : e = Finish(p, unit) /\ e = base + (StartLen + (from + n)) /\ e <= Len(w)
  BY <1>1, <1>2, <1>3, <1>4, <1>5, <1>7, BeginFinish
<1>10. /\ \A j \in 1 .. StartLen : w[base + j] = Byte(0, 0, j - 1)
       /\ \A j \in 1 .. m : w[base + StartLen + j] = Byte(ts, k, j - 1)
  <2>1. Spread(ts, unit, Ends(ts, unit))
    BY EndsIs
  <2>2. unit[k] > 0 =>
           /\ \A j \in 1 .. StartLen : WholeOf(ts, unit)[Ends(ts, unit)[k - 1] + j] = Byte(0, 0, j - 1)
           /\ \A j \in 1 .. unit[k] :
                 WholeOf(ts, unit)[Ends(ts, unit)[k - 1] + StartLen + j] = Byte(ts, k, j - 1)
    BY <2>1 DEF Spread
  <2> QED BY <1>2, <1>6, <1>7, <2>2
<1>11. StartLen \in Nat
  BY RtpH264Assumption
<1>12. /\ p.start \in BOOLEAN /\ p.fu \in BOOLEAN /\ (p.start => from = IF p.fu THEN 1 ELSE 0)
  BY <1>4 DEF Packets, WellBuilt
<1>13. Modest(p)
  BY DEF WellBuilt
<1>14. PICK d1 \in Seq(ByteNames) : d1 = Mark(p) /\ Len(d1) = (IF p.start THEN StartLen ELSE 0)
  BY <1>13, PiecesAre
<1>15. PICK d2 \in Seq(ByteNames) : d2 = Header(p) /\ Len(d2) = (IF p.start /\ p.fu THEN 1 ELSE 0)
  BY <1>13, PiecesAre
<1>16. PICK d3 \in Seq(ByteNames) : d3 = Payload(p) /\ Len(d3) = n
  BY <1>5, <1>13, PiecesAre
<1>17. PICK c1 \in Nat : c1 = b + Len(d1)
  OBVIOUS
<1>18. PICK c2 \in Nat : c2 = c1 + Len(d2)
  OBVIOUS
<1>19. c2 = base + (StartLen + from) /\ c2 + n = e /\ b <= c1 /\ c1 <= c2 /\ c2 <= e
  <2>1. CASE p.start /\ p.fu
    BY <1>8, <1>9, <1>11, <1>12, <1>14, <1>15, <1>17, <1>18, <2>1
  <2>2. CASE p.start /\ ~p.fu
    BY <1>8, <1>9, <1>11, <1>12, <1>14, <1>15, <1>17, <1>18, <2>2
  <2>3. CASE ~p.start
    BY <1>8, <1>9, <1>11, <1>12, <1>14, <1>15, <1>17, <1>18, <2>3
  <2> QED BY <1>12, <2>1, <2>2, <2>3
<1>20. \A j \in 1 .. Len(d1) : d1[j] = w[b + j]
  <2>1. CASE p.start
    <3>1. d1 = kStartCode /\ b = base /\ Len(d1) = StartLen
      BY <1>8, <1>14, <2>1 DEF Mark
    <3>2. \A j \in 1 .. StartLen : d1[j] = Byte(0, 0, j - 1)
      BY <3>1, StartCodeIs
    <3> QED BY <1>10, <3>1, <3>2
  <2>2. CASE ~p.start
    BY <1>14, <2>2
  <2> QED BY <1>12, <2>1, <2>2
<1>21. \A j \in 1 .. Len(d2) : d2[j] = w[c1 + j]
  <2>1. CASE p.start /\ p.fu
    <3>1. PICK one \in Nat : one = 1
      OBVIOUS
    <3>2. d2 = Piece(ts, k, 0, one)
      BY <1>1, <1>3, <1>15, <2>1, <3>1 DEF Header
    <3>3. k \in Nat
      OBVIOUS
    <3>4. \A j \in 1 .. one : Piece(ts, k, 0, one)[j] = Byte(ts, k, j - 1)
      BY <3>3, PieceFromStart
    <3>5. Len(d2) = one /\ d2[one] = Byte(ts, k, one - 1)
      <4>1. one \in 1 .. one
        BY <3>1
      <4> QED BY <1>15, <2>1, <3>1, <3>2, <3>4, <4>1
    <3>6. c1 + one = base + StartLen + one
      BY <1>8, <1>11, <1>14, <1>17, <2>1
    <3>7. w[base + StartLen + one] = Byte(ts, k, one - 1)
      <4>1. one \in 1 .. m
        BY <1>6, <3>1
      <4> QED BY <1>10, <4>1
    <3>8. \A j \in 1 .. one : j = one
      BY <3>1
    <3> QED BY <3>5, <3>6, <3>7, <3>8
  <2>2. CASE ~(p.start /\ p.fu)
    BY <1>15, <2>2
  <2> QED BY <2>1, <2>2
<1>22. \A j \in 1 .. Len(d3) : d3[j] = w[c2 + j]
  <2> SUFFICES ASSUME NEW j \in 1 .. n PROVE d3[j] = w[c2 + j]
    BY <1>16
  <2>1. d3 = Piece(ts, k, from, n)
    BY <1>1, <1>3, <1>4, <1>5, <1>16 DEF Payload
  <2>2. k \in Nat
    OBVIOUS
  <2>3. Piece(ts, k, from, n)[j] = Byte(ts, k, from + (j - 1))
    BY DEF Piece, Byte
  <2>4. PICK i \in 1 .. m : i = from + j /\ i - 1 = from + (j - 1)
    BY <1>6
  <2>5. w[base + StartLen + i] = Byte(ts, k, i - 1)
    BY <1>10
  <2>6. base + StartLen + i = c2 + j
    BY <1>11, <1>19, <2>4
  <2> QED BY <2>1, <2>3, <2>4, <2>5, <2>6
<1>23. b + Len(d1) <= Len(w) /\ c1 + Len(d2) <= Len(w) /\ c2 + Len(d3) <= Len(w)
  <2>1. PICK size \in Nat : size = Len(w)
    OBVIOUS
  <2>2. e <= size /\ c1 <= e /\ c2 <= e
    BY <1>9, <1>19, <2>1
  <2>3. c1 <= size /\ c2 <= size
    BY <2>2
  <2>4. c2 + Len(d3) = e
    BY <1>16, <1>19
  <2> QED BY <1>17, <1>18, <2>1, <2>2, <2>3, <2>4
<1>24. SubSeq(w, 1, b) \o d1 = SubSeq(w, 1, c1)
  BY <1>17, <1>20, <1>23, PrefixGrows
<1>25. SubSeq(w, 1, c1) \o d2 = SubSeq(w, 1, c2)
  BY <1>18, <1>21, <1>23, PrefixGrows
<1>26. SubSeq(w, 1, c2) \o d3 = SubSeq(w, 1, e)
  <2>1. SubSeq(w, 1, c2) \o d3 = SubSeq(w, 1, c2 + Len(d3))
    BY <1>22, <1>23, PrefixGrows
  <2>2. c2 + Len(d3) = e
    BY <1>16, <1>19
  <2> QED BY <2>1, <2>2
<1>27. f = SubSeq(w, 1, b) /\ Len(f) = b
  <2>1. b <= Len(w)
    BY <1>9, <1>19
  <2> QED BY <1>1, <1>2, <1>8, <2>1, PrefixIs
<1> QED BY <1>1, <1>2, <1>9, <1>14, <1>15, <1>16, <1>17, <1>18, <1>19, <1>24, <1>25, <1>26, <1>27

(***************************************************************************)
(* The invariant behind the types and the packets' sizes.                  *)
(***************************************************************************)
\* The lengths StartUnit may hand on: the last NAL unit is not empty.
FromEncoder(unit) ==
    \E kind \in UnitKinds : unit = SubSeq(kind, 1, Min({Len(kind), MaxNals}))
Shapes == {unit \in Seq(Nat) : unit # << >> /\ unit[Len(unit)] > 0}

\* Every access unit sent is one the encoder wrote, and the sender is inside a
\* NAL unit of the last, at its second fragment at the earliest.
SenderOk ==
    /\ \A ts \in 1 .. Len(sent) : sent[ts] \in Shapes /\ FromEncoder(sent[ts])
    /\ nal = 0 => off = 0
    /\ nal # 0 => /\ Len(sent) > 0
                  /\ nal \in 1 .. Len(sent[Len(sent)])
                  /\ off < sent[Len(sent)][nal]
                  /\ off > 0 => ~Single(sent[Len(sent)][nal])

PacketsOk ==
    \A p \in net : /\ p.id < nextId
                   /\ p.ts \in 1 .. Len(sent)
                   /\ WellBuilt(p, sent[p.ts])

\* len_ counts the buffer's bytes; a byte that is there has company of its own
\* access unit, not just start codes.
BufferOk ==
    /\ frame \in Seq(ByteNames) /\ len = Len(frame)
    /\ Owners(frame) \subseteq 1 .. Len(sent)
    /\ frame # << >> => Owners(frame) # {}
    /\ buffer # "ready" => frame = << >> /\ delivered = << >>

Inv == TypeOK /\ SenderOk /\ PacketsOk /\ BufferOk

LEMMA UnitHasShape ==
    ASSUME NEW kind \in UnitKinds, NEW four, Lengths(split_nals(Encoded(kind, four))) # << >>
    PROVE  Lengths(split_nals(Encoded(kind, four))) \in Shapes
<1>1. PICK m \in Nat : m = Len(kind) /\ kind \in Seq(Nat)
  BY RtpH264Assumption
<1>2. PICK c \in 0 .. m : c = Min({Len(kind), MaxNals})
  <2>1. MaxNals \in Nat /\ m \in Int /\ MaxNals \in Int
    BY AnnexBAssumption
  <2>2. Min({m, MaxNals}) = IF m <= MaxNals THEN m ELSE MaxNals
    BY <2>1, MinMaxOfTwo
  <2>3. Min({m, MaxNals}) \in 0 .. m
    BY <2>1, <2>2
  <2> QED BY <1>1, <2>3
<1>3. PICK unit : unit = [i \in 1 .. c |-> kind[i]]
  OBVIOUS
<1>4. unit = Lengths(split_nals(Encoded(kind, four)))
  <2>1. SubSeq(kind, 1, c) = [i \in 1 .. c |-> kind[i]]
    BY <1>1, <1>2
  <2> QED BY <1>2, <1>3, <2>1, UnitIs
<1>5. unit \in Seq(Nat) /\ Len(unit) = c /\ \A i \in 1 .. c : unit[i] = kind[i]
  <2>1. \A i \in 1 .. c : kind[i] \in Nat
    BY <1>1
  <2>2. unit \in [1 .. c -> Nat]
    BY <1>3, <2>1
  <2> QED BY <1>3, <2>2
<1>6. c > 0 /\ kind # << >>
  <2>1. c # 0
    BY <1>3, <1>4, <1>5
  <2> QED BY <1>1, <1>2, <2>1
<1>7. kind[c] > 0
  BY <1>2, <1>6, UnitKindsAssumption
<1>8. unit[Len(unit)] > 0
  BY <1>5, <1>6, <1>7
<1>9. unit # << >>
  BY <1>4
<1> QED BY <1>4, <1>5, <1>8, <1>9 DEF Shapes

\* The packet one call of sendto takes, and where it leaves the sender.
LEMMA OutgoingIs ==
    ASSUME TypeOK, SenderOk, nal # 0,
           NEW unit, unit = sent[Len(sent)]
    PROVE  /\ Outgoing \in Packets /\ unit \in Seq(Nat)
           /\ Outgoing.ts = Len(sent) /\ Outgoing.id = nextId /\ Outgoing.nal = nal
           /\ WellBuilt(Outgoing, unit)
           /\ Begin(Outgoing, unit) = Place(Len(sent), unit, nal, off)
           /\ Outgoing.from + Outgoing.n <= unit[nal]
           /\ Outgoing.end => Outgoing.from + Outgoing.n = unit[nal]
           /\ ~Outgoing.end => /\ Outgoing.from + Outgoing.n < unit[nal]
                               /\ ~Single(unit[nal]) /\ ~Outgoing.marker
           /\ Outgoing.marker <=> Outgoing.end /\ nal = Len(unit)
           /\ Outgoing.from + Outgoing.n \in Nat /\ Outgoing.from + Outgoing.n > 0
<1>1. PICK m \in Nat : m = unit[nal] /\ m > 0 /\ off < m /\ (off > 0 => ~Single(m))
  <2>1. unit \in Seq(Nat) /\ nal \in 1 .. Len(unit) /\ off \in Nat
    BY DEF TypeOK, SenderOk, Shapes
  <2> QED BY <2>1 DEF SenderOk
<1>2. /\ unit \in Seq(Nat) /\ nal \in 1 .. Len(unit) /\ off \in Nat /\ nextId \in Nat
      /\ Len(sent) \in 1 .. MaxUnits
  BY DEF TypeOK, SenderOk, Shapes
<1>3. /\ RtpHdr \in Nat /\ FuHdr \in Nat /\ MaxPacket \in Nat /\ MaxPacket > RtpHdr + FuHdr
  BY RtpH264Assumption
<1>4. PICK fu \in BOOLEAN : fu = ~Single(m)
  BY DEF Single
<1>5. PICK from \in Nat : /\ from = IF fu /\ off = 0 THEN 1 ELSE off
                          /\ fu => from < m
                          /\ ~fu => from = 0 /\ off = 0
                          /\ from > 0 \/ off = 0
  <2>1. CASE fu
    <3> ~Single(m)
      BY <1>4, <2>1
    <3>1. m + RtpHdr > MaxPacket
      BY <1>3 DEF Single
    <3>2. m > 1
      BY <1>3, <3>1
    <3>3. CASE off = 0
      BY <2>1, <3>2, <3>3
    <3>4. CASE off # 0
      BY <1>1, <1>2, <2>1, <3>4
    <3> QED BY <3>3, <3>4
  <2>2. CASE ~fu
    <3> Single(m)
      BY <1>4, <2>2
    <3>1. off = 0
      BY <1>1, <1>2
    <3> QED BY <2>2, <3>1
  <2> QED BY <2>1, <2>2
<1>6. PICK n \in Nat : /\ n = IF fu THEN Chunk(m - from) ELSE m
                       /\ n > 0 /\ from + n <= m
                       /\ RtpHdr + (IF fu THEN FuHdr ELSE 0) + n <= MaxPacket
  <2>1. CASE fu
    <3>1. PICK rem \in Nat : rem = m - from /\ rem > 0
      BY <1>5, <2>1
    <3>2. PICK room \in Nat : room = MaxPacket - RtpHdr - FuHdr /\ room > 0
                              /\ RtpHdr + FuHdr + room = MaxPacket
      BY <1>3
    <3>3. Chunk(m - from) = IF rem <= room THEN rem ELSE room
      BY <3>1, <3>2, MinMaxOfTwo DEF Chunk
    <3>4. PICK c \in Nat : c = Chunk(m - from) /\ c <= rem /\ c <= room /\ c > 0
      BY <3>1, <3>2, <3>3
    <3>5. from + c <= m
      BY <1>1, <1>5, <3>1, <3>4
    <3>6. RtpHdr + FuHdr + c <= MaxPacket
      BY <1>3, <3>2, <3>4
    <3> QED BY <2>1, <3>4, <3>5, <3>6
  <2>2. CASE ~fu
    <3> Single(m)
      BY <1>4, <2>2
    <3>1. m + RtpHdr <= MaxPacket
      BY <1>3 DEF Single
    <3> QED BY <1>1, <1>3, <1>5, <2>2, <3>1
  <2> QED BY <2>1, <2>2
<1>7. PICK end \in BOOLEAN : end <=> from + n = m
  OBVIOUS
<1>8. PICK p : p = Outgoing
  OBVIOUS
<1>9. p = [id |-> nextId, ts |-> Len(sent), nal |-> nal, fu |-> fu, start |-> off = 0,
           from |-> from, n |-> n, marker |-> end /\ nal = Len(unit), end |-> end]
  <2>1. (from + n = m) = end
    BY <1>7
  <2>2. Marker(unit, nal, end) = (end /\ nal = Len(unit))
    BY DEF Marker
  <2> QED BY <1>1, <1>4, <1>5, <1>6, <1>8, <2>1, <2>2 DEF Outgoing
<1>10. p \in Packets
  BY <1>2, <1>9 DEF Packets
<1>11. /\ p.ts = Len(sent) /\ p.id = nextId /\ p.nal = nal /\ p.from = from /\ p.n = n
       /\ p.fu = fu /\ p.start = (off = 0) /\ p.end = end /\ p.marker = (end /\ nal = Len(unit))
  BY <1>9
<1>12. WellBuilt(p, unit)
  BY <1>1, <1>2, <1>5, <1>6, <1>7, <1>11 DEF WellBuilt, Modest
<1>13. Begin(p, unit) = Place(Len(sent), unit, nal, off)
  <2>1. (IF p.start THEN 0 ELSE p.from) = off
    <3>1. CASE off = 0
      BY <1>11, <3>1
    <3>2. CASE off # 0
      BY <1>5, <1>11, <3>2
    <3> QED BY <3>1, <3>2
  <2> QED BY <1>11, <2>1 DEF Begin
<1>14. ~end => from + n < m /\ ~Single(m)
  <2> SUFFICES ASSUME ~end PROVE from + n < m /\ ~Single(m)
    OBVIOUS
  <2>1. from + n # m
    BY <1>7
  <2>2. from + n < m
    BY <1>6, <2>1
  <2>3. CASE fu
    BY <1>4, <2>2, <2>3
  <2>4. CASE ~fu
    <3>1. from = 0 /\ n = m
      BY <1>5, <1>6, <2>4
    <3> QED BY <2>1, <3>1
  <2> QED BY <2>3, <2>4
<1>15. (p.end <=> end) /\ (p.marker <=> end /\ nal = Len(unit))
  BY <1>11
<1>16. /\ p.from + p.n <= unit[nal] /\ p.from + p.n \in Nat /\ p.from + p.n > 0
       /\ end => p.from + p.n = unit[nal]
       /\ ~end => p.from + p.n < unit[nal] /\ ~Single(unit[nal])
  <2>1. p.from = from /\ p.n = n
    BY <1>11
  <2> QED BY <1>1, <1>5, <1>6, <1>7, <1>14, <2>1
<1> QED BY <1>2, <1>8, <1>10, <1>11, <1>12, <1>13, <1>15, <1>16

LEMMA StartKeeps ==
    ASSUME Inv, StartUnit
    PROVE  /\ Inv'
           /\ \E unit \in Shapes : sent' = Append(sent, unit) /\ nal' \in 1 .. Len(unit)
                                   /\ nal' = NextNal(unit, 0)
           /\ Len(sent') = Len(sent) + 1
           /\ \A ts \in 1 .. Len(sent) : sent'[ts] = sent[ts]
<1>1. PICK kind \in UnitKinds : \E four \in SUBSET DOMAIN kind :
         LET unit == Lengths(split_nals(Encoded(kind, four)))
         IN /\ unit # << >>
            /\ sent' = Append(sent, unit)
            /\ nal' = NextNal(unit, 0)
  BY DEF StartUnit
<1>2. PICK four \in SUBSET DOMAIN kind :
         /\ Lengths(split_nals(Encoded(kind, four))) # << >>
         /\ sent' = Append(sent, Lengths(split_nals(Encoded(kind, four))))
         /\ nal' = NextNal(Lengths(split_nals(Encoded(kind, four))), 0)
  BY <1>1
<1>3. PICK unit : unit = Lengths(split_nals(Encoded(kind, four)))
  OBVIOUS
<1>4. unit \in Shapes /\ FromEncoder(unit)
  BY <1>2, <1>3, UnitHasShape, UnitIs DEF FromEncoder
<1>5. sent' = Append(sent, unit) /\ nal' = NextNal(unit, 0) /\ off' = 0 /\ nextId' = nextId
  BY <1>2, <1>3 DEF StartUnit
<1>6. unit \in Seq(Nat) /\ unit # << >> /\ unit[Len(unit)] > 0
  BY <1>4 DEF Shapes
<1>7. nal' \in 1 .. Len(unit) /\ unit[nal'] > 0
  <2>1. PICK z \in 0 .. Len(unit) : z = 0
    BY <1>6
  <2>2. PICK n : n = NextNal(unit, z)
    OBVIOUS
  <2>3. n # 0
    BY <1>6, <2>1, <2>2, NextNalEnds
  <2>4. z \in Nat
    OBVIOUS
  <2>5. n # 0 => n > z /\ n \in 1 .. Len(unit) /\ unit[n] > 0
    BY <1>6, <2>2, <2>4, NextNalIs
  <2> QED BY <1>5, <2>1, <2>2, <2>3, <2>5
<1>8. PICK last \in Nat : last = Len(sent) /\ last < MaxUnits /\ sent \in Seq(Seq(Nat))
  BY DEF Inv, TypeOK, StartUnit
<1>9. /\ Len(sent') = last + 1 /\ sent'[last + 1] = unit /\ sent' \in Seq(Seq(Nat))
      /\ \A ts \in 1 .. last : sent'[ts] = sent[ts]
  BY <1>5, <1>6, <1>8
<1>10. UNCHANGED <<nextId, net, buffer, frame, len, delivered, disturbed, faults>>
  BY DEF StartUnit, reasmVars
<1>11. TypeOK'
  <2>1. last + 1 <= MaxUnits
    BY <1>8, RtpH264Assumption
  <2>2. nal' \in Nat
    BY <1>6, <1>7
  <2> QED BY <1>5, <1>8, <1>9, <1>10, <2>1, <2>2 DEF Inv, TypeOK
<1>12. SenderOk'
  <2>1. \A ts \in 1 .. Len(sent') : sent'[ts] \in Shapes /\ FromEncoder(sent'[ts])
    <3>1. \A ts \in 1 .. last : sent[ts] \in Shapes /\ FromEncoder(sent[ts])
      BY <1>8 DEF Inv, SenderOk
    <3> SUFFICES ASSUME NEW ts \in 1 .. last + 1
                 PROVE  sent'[ts] \in Shapes /\ FromEncoder(sent'[ts])
      BY <1>9
    <3>2. CASE ts = last + 1
      BY <1>4, <1>9, <3>2
    <3>3. CASE ts # last + 1
      <4>1. ts \in 1 .. last
        BY <1>8, <3>3
      <4>2. sent'[ts] = sent[ts]
        BY <1>9, <4>1
      <4> QED BY <3>1, <4>1, <4>2
    <3> QED BY <3>2, <3>3
  <2>2. nal' # 0 /\ sent'[Len(sent')] = unit /\ Len(sent') > 0
    BY <1>6, <1>7, <1>8, <1>9
  <2> QED BY <1>5, <1>7, <2>1, <2>2 DEF SenderOk
<1>13. PacketsOk'
  <2> SUFFICES ASSUME NEW p \in net
               PROVE  p.id < nextId /\ p.ts \in 1 .. Len(sent') /\ WellBuilt(p, sent'[p.ts])
    BY <1>10 DEF PacketsOk
  <2>1. p.id < nextId /\ p.ts \in 1 .. last /\ WellBuilt(p, sent[p.ts])
    BY <1>8 DEF Inv, PacketsOk
  <2>2. sent'[p.ts] = sent[p.ts] /\ p.ts \in 1 .. Len(sent')
    BY <1>8, <1>9, <2>1
  <2> QED BY <2>1, <2>2
<1>14. BufferOk'
  <2>1. Owners(frame) \subseteq 1 .. Len(sent')
    BY <1>8, <1>9 DEF Inv, BufferOk
  <2> QED BY <1>10, <2>1 DEF Inv, BufferOk
<1> QED BY <1>4, <1>5, <1>7, <1>8, <1>9, <1>11, <1>12, <1>13, <1>14 DEF Inv

\* One more packet; the sender stands behind it, in the next NAL unit with bytes
\* if it ended one.
LEMMA SendKeeps ==
    ASSUME Inv, SendPacket
    PROVE  /\ Inv'
           /\ nal # 0 /\ Len(sent) > 0
           /\ net' = net \cup {Outgoing} /\ nextId' = nextId + 1
           /\ UNCHANGED <<sent, buffer, frame, len, delivered, disturbed, faults>>
           /\ ~Outgoing.end => nal' = nal /\ off' = Outgoing.from + Outgoing.n /\ off' > 0
           /\ Outgoing.end => nal' = NextNal(sent[Len(sent)], nal) /\ off' = 0
           /\ nal' = 0 <=> Outgoing.marker
<1>1. /\ TypeOK /\ SenderOk /\ nal # 0
      /\ net' = net \cup {Outgoing} /\ nextId' = nextId + 1
      /\ UNCHANGED <<sent, buffer, frame, len, delivered, disturbed, faults>>
  BY DEF Inv, SendPacket, reasmVars
<1>2. PICK unit : unit = sent[Len(sent)]
  OBVIOUS
<1>3. PICK last \in Nat : last = Len(sent) /\ last > 0
  BY <1>1 DEF TypeOK, SenderOk
<1>4. unit \in Seq(Nat) /\ unit # << >> /\ unit[Len(unit)] > 0 /\ nal \in 1 .. Len(unit)
  BY <1>1, <1>2, <1>3 DEF SenderOk, Shapes
<1>5. PICK p : p = Outgoing
  OBVIOUS
<1>6. /\ p \in Packets /\ p.ts = last /\ p.id = nextId /\ WellBuilt(p, unit)
      /\ p.end => p.from + p.n = unit[nal]
      /\ ~p.end => p.from + p.n < unit[nal] /\ ~Single(unit[nal]) /\ ~p.marker
      /\ p.marker <=> p.end /\ nal = Len(unit)
      /\ p.from + p.n \in Nat /\ p.from + p.n > 0
  BY <1>1, <1>2, <1>3, <1>5, OutgoingIs
<1>7. /\ ~p.end => nal' = nal /\ off' = p.from + p.n /\ off' > 0
      /\ p.end => nal' = NextNal(unit, nal) /\ off' = 0
  BY <1>2, <1>5, <1>6 DEF SendPacket
<1>8. PICK next : next = NextNal(unit, nal)
  OBVIOUS
<1>9. /\ next \in Nat /\ (next = 0 <=> nal = Len(unit))
      /\ next # 0 => next > nal /\ next \in 1 .. Len(unit) /\ unit[next] > 0
  <2>1. nal \in Nat /\ nal \in 0 .. Len(unit)
    BY <1>4
  <2>2. next \in Nat /\ (next # 0 => next > nal /\ next \in 1 .. Len(unit) /\ unit[next] > 0)
    BY <1>4, <1>8, <2>1, NextNalIs
  <2>3. next = 0 <=> nal = Len(unit)
    BY <1>4, <1>8, <2>1, NextNalEnds
  <2> QED BY <2>2, <2>3
<1>10. p.end \in BOOLEAN /\ p.marker \in BOOLEAN
  BY <1>6 DEF Packets
<1>11. nal' = 0 <=> p.marker
  <2>1. CASE p.end
    BY <1>6, <1>7, <1>8, <1>9, <2>1
  <2>2. CASE ~p.end
    BY <1>1, <1>6, <1>7, <2>2
  <2> QED BY <2>1, <2>2
<1>12. SenderOk'
  <2>1. CASE ~p.end
    <3>1. nal' = nal /\ off' < unit[nal] /\ ~Single(unit[nal])
      BY <1>6, <1>7, <2>1
    <3> QED BY <1>1, <1>2, <1>3, <1>4, <3>1 DEF SenderOk
  <2>2. CASE p.end
    <3>1. nal' = next /\ off' = 0
      BY <1>7, <1>8, <2>2
    <3> QED BY <1>1, <1>2, <1>3, <1>9, <3>1 DEF SenderOk
  <2> QED BY <2>1, <2>2
<1>13. TypeOK'
  <2>1. nal' \in Nat /\ off' \in Nat
    BY <1>1, <1>4, <1>6, <1>7, <1>8, <1>9, <1>10
  <2>2. net' \subseteq Packets
    BY <1>1, <1>5, <1>6 DEF TypeOK
  <2> QED BY <1>1, <2>1, <2>2 DEF TypeOK
<1>14. PacketsOk'
  <2> SUFFICES ASSUME NEW q \in net'
               PROVE  q.id < nextId' /\ q.ts \in 1 .. Len(sent) /\ WellBuilt(q, sent[q.ts])
    BY <1>1 DEF PacketsOk
  <2>1. CASE q \in net
    <3>1. q.id < nextId /\ q.ts \in 1 .. Len(sent) /\ WellBuilt(q, sent[q.ts])
      BY <2>1 DEF Inv, PacketsOk
    <3>2. q.id \in Nat /\ nextId \in Nat
      BY <1>1, <2>1 DEF TypeOK, Packets
    <3> QED BY <1>1, <3>1, <3>2
  <2>2. CASE q = p
    <3>1. nextId \in Nat
      BY <1>1 DEF TypeOK
    <3> QED BY <1>1, <1>2, <1>3, <1>6, <2>2, <3>1
  <2> QED BY <1>1, <1>5, <2>1, <2>2
<1>15. BufferOk'
  BY <1>1 DEF Inv, BufferOk
<1> QED BY <1>1, <1>2, <1>3, <1>5, <1>7, <1>11, <1>12, <1>13, <1>14, <1>15 DEF Inv

LEMMA InitKeeps ==
    ASSUME Inv, ReassemblerInit
    PROVE  Inv'
<1>1. /\ UNCHANGED <<sent, nal, off, nextId, net, delivered, disturbed, faults>>
      /\ buffer = "uninit" /\ buffer' \in {"null", "ready"} /\ frame' = << >> /\ len' = 0
  BY DEF ReassemblerInit, senderVars
<1>2. TypeOK'
  BY <1>1, RtpH264Assumption DEF Inv, TypeOK
<1>3. SenderOk' /\ PacketsOk'
  BY <1>1 DEF Inv, SenderOk, PacketsOk
<1>4. BufferOk'
  <2>1. Owners(frame') = {} /\ frame' \in Seq(ByteNames) /\ Len(frame') = 0
    BY <1>1, OwnersOfPieces
  <2> QED BY <1>1, <2>1 DEF Inv, BufferOk
<1> QED BY <1>2, <1>3, <1>4 DEF Inv

\* A packet that arrives extends the buffer, which is never left without bytes
\* of an access unit; a marked one hands it over and empties it.
LEMMA FeedIs ==
    ASSUME Inv, NEW p \in net, Feed(p), buffer = "ready"
    PROVE  \E g : /\ Extends(g, frame, p.ts) /\ Owners(g) # {}
                  /\ frame = << >> => p.ts \in Owners(g)
                  /\ Len(frame) + Len(Mark(p)) + Len(Header(p)) + Len(Payload(p)) <= FrameCap =>
                        g = ((frame \o Mark(p)) \o Header(p)) \o Payload(p)
                  /\ buffer' = "ready"
                  /\ p.marker => delivered' = Append(delivered, Delivery(g)) /\ frame' = << >> /\ len' = 0
                  /\ ~p.marker => delivered' = delivered /\ frame' = g /\ len' = Len(g)
<1>1. /\ p \in Packets /\ Modest(p) /\ p.marker \in BOOLEAN
      /\ frame \in Seq(ByteNames) /\ len = Len(frame) /\ len <= FrameCap
      /\ frame # << >> => Owners(frame) # {}
  BY DEF Inv, TypeOK, PacketsOk, WellBuilt, BufferOk, Packets
<1>2. PICK g : /\ Appended(p) = [frame |-> g, len |-> Len(g)]
               /\ Extends(g, frame, p.ts)
               /\ frame = << >> => p.ts \in Owners(g)
               /\ Len(frame) + Len(Mark(p)) + Len(Header(p)) + Len(Payload(p)) <= FrameCap =>
                     g = ((frame \o Mark(p)) \o Header(p)) \o Payload(p)
  BY <1>1, AppendedIs
<1>3. Owners(g) # {}
  <2>1. CASE frame = << >>
    BY <1>2, <2>1
  <2>2. CASE frame # << >>
    BY <1>1, <1>2, <2>2 DEF Extends
  <2> QED BY <2>1, <2>2
<1>4. Len(g) > 0
  <2>1. g # << >>
    BY <1>3, OwnersOfPieces
  <2> QED BY <1>2, <2>1 DEF Extends
<1>5. PICK r : r = Appended(p) /\ r.frame = g /\ r.len = Len(g)
  BY <1>2
<1>6. LET done == p.marker /\ r.len > 0
          next == IF done THEN AfterDelivery(r) ELSE r
      IN /\ delivered' = IF done THEN Append(delivered, Delivery(r.frame)) ELSE delivered
         /\ frame' = next.frame
         /\ len' = next.len
  BY <1>5 DEF Feed
<1>7. buffer' = "ready"
  BY DEF Feed
<1>8. r.len > 0
  BY <1>4, <1>5
<1>9. p.marker => delivered' = Append(delivered, Delivery(g)) /\ frame' = << >> /\ len' = 0
  BY <1>5, <1>6, <1>8 DEF AfterDelivery
<1>10. ~p.marker => delivered' = delivered /\ frame' = g /\ len' = Len(g)
  BY <1>5, <1>6
<1> QED BY <1>2, <1>3, <1>7, <1>9, <1>10

\* Without a buffer feed does nothing.
LEMMA FeedNull ==
    ASSUME Inv, NEW p, Feed(p), buffer # "ready"
    PROVE  UNCHANGED <<buffer, frame, len, delivered>>
BY DEF Feed, reasmVars

\* A packet arrives in order, out of order or again: what it finds of older
\* access units on their way, and its own if it is early or a copy, is disturbed.
Arrival(p) ==
    /\ Feed(p) /\ buffer # "uninit"
    /\ net' \in {net, net \ {p}}
    /\ disturbed \subseteq disturbed' /\ disturbed' \subseteq 1 .. MaxUnits
    /\ faults' \in 0 .. MaxFaults
    /\ \A q \in Before(p) : q.ts \in disturbed'
    /\ p.ts \notin disturbed' => Before(p) = {} /\ net' = net \ {p}
    /\ UNCHANGED <<sent, nal, off, nextId>>

LEMMA ArrivalIs ==
    ASSUME Inv, Receive \/ Overtake \/ Repeat
    PROVE  \E p \in net : Arrival(p)
<1>1. /\ disturbed \subseteq 1 .. MaxUnits /\ faults \in 0 .. MaxFaults /\ MaxFaults \in Nat
      /\ \A p \in net : p.ts \in 1 .. MaxUnits
  BY RtpH264Assumption DEF Inv, TypeOK, Packets
<1>2. ASSUME NEW p \in net PROVE Before(p) \subseteq net
  BY DEF Before
<1>3. CASE Receive
  <2>1. PICK p \in net : Before(p) = {} /\ Feed(p) /\ net' = net \ {p}
    BY <1>3 DEF Receive
  <2>2. UNCHANGED <<sent, nal, off, nextId, disturbed, faults>> /\ buffer # "uninit"
    BY <1>3 DEF Receive, senderVars
  <2> QED BY <1>1, <2>1, <2>2 DEF Arrival
<1>4. CASE Overtake
  <2>1. PICK p \in net : /\ Before(p) # {} /\ Fault({p.ts} \cup {q.ts : q \in Before(p)})
                         /\ Feed(p) /\ net' = net \ {p}
    BY <1>4 DEF Overtake
  <2>2. UNCHANGED <<sent, nal, off, nextId>> /\ buffer # "uninit"
    BY <1>4 DEF Overtake, senderVars
  <2>3. disturbed' = disturbed \cup ({p.ts} \cup {q.ts : q \in Before(p)}) /\ faults' \in 0 .. MaxFaults
    BY <1>1, <2>1 DEF Fault
  <2>4. disturbed' \subseteq 1 .. MaxUnits
    BY <1>1, <1>2, <2>3
  <2> QED BY <2>1, <2>2, <2>3, <2>4 DEF Arrival
<1>5. CASE Repeat
  <2>1. PICK p \in net : Fault({p.ts} \cup {q.ts : q \in Before(p)}) /\ Feed(p)
    BY <1>5 DEF Repeat
  <2>2. UNCHANGED <<sent, nal, off, nextId, net>> /\ buffer # "uninit"
    BY <1>5 DEF Repeat, senderVars
  <2>3. disturbed' = disturbed \cup ({p.ts} \cup {q.ts : q \in Before(p)}) /\ faults' \in 0 .. MaxFaults
    BY <1>1, <2>1 DEF Fault
  <2>4. disturbed' \subseteq 1 .. MaxUnits
    BY <1>1, <1>2, <2>3
  <2> QED BY <2>1, <2>2, <2>3, <2>4 DEF Arrival
<1> QED BY <1>3, <1>4, <1>5

LEMMA ArrivalKeeps ==
    ASSUME Inv, NEW p \in net, Arrival(p)
    PROVE  Inv'
<1>1. /\ TypeOK /\ SenderOk /\ PacketsOk /\ BufferOk
      /\ UNCHANGED <<sent, nal, off, nextId>> /\ net' \subseteq net
      /\ disturbed' \subseteq 1 .. MaxUnits /\ faults' \in 0 .. MaxFaults
      /\ p.ts \in 1 .. Len(sent) /\ Len(sent) \in Nat /\ Len(sent) <= MaxUnits /\ MaxUnits \in Nat
  BY RtpH264Assumption DEF Inv, Arrival, PacketsOk, TypeOK
<1>2. SenderOk'
  BY <1>1 DEF SenderOk
<1>3. PacketsOk'
  <2> SUFFICES ASSUME NEW q \in net'
               PROVE  q.id < nextId /\ q.ts \in 1 .. Len(sent) /\ WellBuilt(q, sent[q.ts])
    BY <1>1 DEF PacketsOk
  <2> QED BY <1>1 DEF PacketsOk
<1>4. /\ buffer' \in {"uninit", "null", "ready"} /\ len' \in 0 .. FrameCap
      /\ delivered' \in Seq([from : SUBSET (1 .. MaxUnits), whole : BOOLEAN])
      /\ BufferOk'
  <2>1. CASE buffer # "ready"
    <3>1. UNCHANGED <<buffer, frame, len, delivered>>
      BY <2>1, FeedNull DEF Arrival
    <3> QED BY <1>1, <3>1 DEF TypeOK, BufferOk
  <2>2. CASE buffer = "ready"
    <3>1. PICK g : /\ Extends(g, frame, p.ts) /\ Owners(g) # {}
                   /\ buffer' = "ready"
                   /\ p.marker => delivered' = Append(delivered, Delivery(g)) /\ frame' = << >> /\ len' = 0
                   /\ ~p.marker => delivered' = delivered /\ frame' = g /\ len' = Len(g)
      BY <2>2, FeedIs DEF Arrival
    <3>2. /\ g \in Seq(ByteNames) /\ Len(g) <= FrameCap /\ Len(g) \in Nat /\ FrameCap \in Nat
          /\ Owners(g) \subseteq 1 .. Len(sent)
      BY <1>1, <3>1, RtpH264Assumption DEF Extends, BufferOk
    <3>3. Delivery(g) \in [from : SUBSET (1 .. MaxUnits), whole : BOOLEAN]
      <4>1. Owners(g) \subseteq 1 .. MaxUnits
        BY <1>1, <3>2
      <4>2. (\E ts \in Owners(g) : g = Whole(ts)) \in BOOLEAN
        OBVIOUS
      <4> QED BY <4>1, <4>2 DEF Delivery
    <3>4. delivered \in Seq([from : SUBSET (1 .. MaxUnits), whole : BOOLEAN])
      BY <1>1 DEF TypeOK
    <3>5. delivered' \in Seq([from : SUBSET (1 .. MaxUnits), whole : BOOLEAN])
      <4>1. CASE p.marker
        <5>1. PICK d \in [from : SUBSET (1 .. MaxUnits), whole : BOOLEAN] : d = Delivery(g)
          BY <3>3
        <5>2. delivered' = Append(delivered, d)
          BY <3>1, <4>1, <5>1
        <5> HIDE <5>1
        <5> QED BY <3>4, <5>2
      <4>2. CASE ~p.marker
        BY <3>1, <3>4, <4>2
      <4> QED BY <4>1, <4>2
    <3>6. BufferOk' /\ len' \in 0 .. FrameCap
      <4>1. CASE p.marker
        <5>1. frame' = << >> /\ len' = 0
          BY <3>1, <4>1
        <5>2. Owners(frame') = {} /\ frame' \in Seq(ByteNames) /\ Len(frame') = 0
          BY <5>1, OwnersOfPieces
        <5> QED BY <1>1, <3>1, <3>2, <5>1, <5>2 DEF BufferOk
      <4>2. CASE ~p.marker
        BY <1>1, <3>1, <3>2, <4>2 DEF BufferOk
      <4> QED BY <4>1, <4>2
    <3> QED BY <3>1, <3>5, <3>6
  <2> QED BY <2>1, <2>2
<1>5. TypeOK'
  BY <1>1, <1>4 DEF TypeOK
<1> QED BY <1>2, <1>3, <1>4, <1>5 DEF Inv

LEMMA LoseKeeps ==
    ASSUME Inv, Lose
    PROVE  /\ Inv' /\ UNCHANGED <<sent, nal, off, nextId, buffer, frame, len, delivered>>
           /\ \E p \in net : net' = net \ {p} /\ disturbed' = disturbed \cup {p.ts}
<1>1. PICK p \in net : Fault({p.ts}) /\ net' = net \ {p}
  BY DEF Lose
<1>2. UNCHANGED <<sent, nal, off, nextId, buffer, frame, len, delivered>>
  BY DEF Lose, senderVars, reasmVars
<1>3. disturbed' = disturbed \cup {p.ts} /\ faults' \in 0 .. MaxFaults
  BY RtpH264Assumption, <1>1 DEF Fault, Inv, TypeOK
<1>4. p.ts \in 1 .. MaxUnits
  BY DEF Inv, TypeOK, Packets
<1>5. TypeOK'
  BY <1>1, <1>2, <1>3, <1>4 DEF Inv, TypeOK
<1>6. SenderOk' /\ PacketsOk' /\ BufferOk'
  BY <1>1, <1>2 DEF Inv, SenderOk, PacketsOk, BufferOk
<1> QED BY <1>1, <1>2, <1>3, <1>5, <1>6 DEF Inv

\* Inv holds initially and is kept by every step of the sender, the network and
\* the reassembler.
THEOREM Invariance == Spec => []Inv
<1>1. Init => Inv
  <2> SUFFICES ASSUME Init PROVE Inv
    OBVIOUS
  <2>1. TypeOK
    BY RtpH264Assumption DEF Init, TypeOK
  <2>2. SenderOk /\ PacketsOk
    BY DEF Init, SenderOk, PacketsOk
  <2>3. BufferOk
    BY OwnersOfPieces DEF Init, BufferOk
  <2> QED BY <2>1, <2>2, <2>3 DEF Inv
<1>2. Inv /\ [Next]_vars => Inv'
  <2> SUFFICES ASSUME Inv, [Next]_vars PROVE Inv'
    OBVIOUS
  <2>1. CASE StartUnit
    BY <2>1, StartKeeps
  <2>2. CASE SendPacket
    BY <2>2, SendKeeps
  <2>3. CASE ReassemblerInit
    BY <2>3, InitKeeps
  <2>4. CASE Receive \/ Overtake \/ Repeat
    BY <2>4, ArrivalIs, ArrivalKeeps
  <2>5. CASE Lose
    BY <2>5, LoseKeeps
  <2>6. CASE UNCHANGED vars
    BY <2>6 DEF vars, senderVars, reasmVars, Inv, TypeOK, SenderOk, PacketsOk, BufferOk
  <2> QED BY <2>1, <2>2, <2>3, <2>4, <2>5, <2>6 DEF Next
<1> QED BY <1>1, <1>2, PTL DEF Spec

\* len_ never exceeds the allocation, and every variable keeps its type.
THEOREM TypeCorrect == Spec => []TypeOK
<1>1. Inv => TypeOK
  BY DEF Inv
<1> QED BY <1>1, Invariance, PTL

\* Every packet keeps to RTP_MAX_PACKET and carries something, for NAL units of
\* any size.
THEOREM PacketsAreSmall == Spec => []PacketsFit
<1>1. Inv => PacketsFit
  BY DEF Inv, PacketsOk, WellBuilt, Modest, PacketsFit
<1> QED BY <1>1, Invariance, PTL

\* What is sent are the NAL units the encoder wrote, the first MaxNals of them.
THEOREM SplitIsAlwaysRight == Spec => []SplitIsRight
<1>1. Inv => SplitIsRight
  <2> SUFFICES ASSUME Inv PROVE SplitIsRight
    OBVIOUS
  <2>1. sent \in Seq(Seq(Nat))
    BY DEF Inv, TypeOK
  <2>2. DOMAIN sent = 1 .. Len(sent)
    BY <2>1
  <2>3. \A ts \in DOMAIN sent : FromEncoder(sent[ts])
    BY <2>2 DEF Inv, SenderOk
  <2> QED BY <2>3, StreamsAreSplit DEF SplitIsRight, FromEncoder
<1> QED BY <1>1, Invariance, PTL

(***************************************************************************)
(* How an undisturbed access unit moves: the invariant behind what is      *)
(* delivered.                                                              *)
(***************************************************************************)
\* Where a packet begins and ends in its access unit's image, and where the
\* sender stands in the last one.
First(p) == Begin(p, sent[p.ts])
Behind(p) == Finish(p, sent[p.ts])
Sending(u) == u = Len(sent) /\ nal # 0
SenderAt == Place(Len(sent), sent[Len(sent)], nal, off)

\* Packets are sent in the order of the images they carry.
Ordered ==
    /\ \A p, q \in net :
          /\ p.id = q.id => p = q
          /\ p.id < q.id => p.ts < q.ts \/ (p.ts = q.ts /\ Behind(p) <= First(q))
    /\ \A p \in net : Sending(p.ts) => Behind(p) <= SenderAt

\* Byte c of access unit u is the first of a packet, or the next to be sent.
Following(u, c) ==
    \/ \E q \in net : q.ts = u /\ First(q) = c
    \/ Sending(u) /\ SenderAt = c

\* An undisturbed access unit has no gap behind a packet of it.
Linked == \A p \in net : p.ts \notin disturbed /\ ~p.marker => Following(p.ts, Behind(p))

HistoryOk == \A i \in 1 .. Len(delivered) : delivered[i].from \subseteq 1 .. Len(sent)

Bad(u) == u \in disturbed \/ ~Fits(u)
Fresh(u) == u = 1 \/ u - 1 \notin disturbed
Undelivered(u) == \A i \in 1 .. Len(delivered) : u \notin delivered[i].from
OneWhole(u) ==
    \E i \in 1 .. Len(delivered) :
        /\ delivered[i].from = {u} /\ delivered[i].whole
        /\ \A j \in 1 .. Len(delivered) : delivered[j].from = {u} => i = j

\* All of u behind byte c is still to come.
ToCome(u, c) == Following(u, c) /\ \A q \in net : q.ts = u => First(q) >= c

\* What f holds after c bytes of u: just these, or something left over, which
\* only a disturbed or an oversized access unit before it leaves.
Held(u, f, c) ==
    \/ Fits(u) /\ f = SubSeq(Whole(u), 1, c) /\ Owners(f) = {u}
    \/ ~(Fits(u) /\ Fresh(u)) /\ \E b \in Owners(f) : Bad(b)

Waiting(u) == ToCome(u, 0) /\ Undelivered(u) /\ \A b \in Owners(frame) : b < u
Arriving(u) ==
    /\ \E c \in 1 .. Len(Whole(u)) : ToCome(u, c) /\ Held(u, frame, c)
    /\ Undelivered(u)
    /\ \A q \in net : q.ts >= u
Past(u) ==
    /\ ~Sending(u)
    /\ \A q \in net : q.ts > u
    /\ \A b \in Owners(frame) : b > u
    /\ Fits(u) /\ Fresh(u) => OneWhole(u)

Flows(u) == Waiting(u) \/ Arriving(u) \/ Past(u)

Flow ==
    /\ Ordered /\ Linked /\ HistoryOk /\ DamageIsLocal
    /\ buffer # "null" => \A u \in 1 .. Len(sent) : u \notin disturbed => Flows(u)

LEMMA PacketFacts ==
    ASSUME Inv, NEW p \in net
    PROVE  /\ p.ts \in 1 .. Len(sent) /\ p.ts \in Nat /\ p.id \in Nat /\ p.id < nextId
           /\ First(p) \in Nat /\ Behind(p) \in Nat /\ First(p) < Behind(p)
           /\ Behind(p) <= Len(Whole(p.ts)) /\ Len(Whole(p.ts)) \in Nat
           /\ p.marker => Behind(p) = Len(Whole(p.ts))
<1>1. p \in Packets /\ p.ts \in 1 .. Len(sent) /\ WellBuilt(p, sent[p.ts]) /\ p.id < nextId
  BY DEF Inv, TypeOK, PacketsOk
<1>2. sent[p.ts] \in Seq(Nat)
  BY <1>1 DEF Inv, SenderOk, Shapes
<1>3. Whole(p.ts) = WholeOf(p.ts, sent[p.ts])
  BY DEF Whole, WholeOf, PartOf
<1>4. p.ts \in Nat /\ p.id \in Nat
  BY <1>1, RtpH264Assumption DEF Packets
<1>5. WholeOf(p.ts, sent[p.ts]) \in Seq(ByteNames)
  BY <1>2, <1>4, EndsIs
<1>6. Len(WholeOf(p.ts, sent[p.ts])) \in Nat
  BY <1>5
<1>7. /\ Begin(p, sent[p.ts]) \in Nat /\ Finish(p, sent[p.ts]) \in Nat
      /\ Begin(p, sent[p.ts]) < Finish(p, sent[p.ts])
      /\ Finish(p, sent[p.ts]) <= Len(WholeOf(p.ts, sent[p.ts]))
      /\ p.marker => Finish(p, sent[p.ts]) = Len(WholeOf(p.ts, sent[p.ts]))
  BY <1>1, <1>2, BeginFinish
<1> QED BY <1>1, <1>3, <1>4, <1>6, <1>7 DEF First, Behind

LEMMA WholeIs ==
    ASSUME Inv, NEW u \in 1 .. Len(sent)
    PROVE  /\ Whole(u) = WholeOf(u, sent[u]) /\ Whole(u) \in Seq(ByteNames)
           /\ Len(Whole(u)) \in Nat /\ sent[u] \in Shapes /\ u \in Nat
<1>1. sent[u] \in Shapes /\ u \in Nat
  BY DEF Inv, SenderOk
<1>2. Whole(u) = WholeOf(u, sent[u])
  BY DEF Whole, WholeOf, PartOf
<1>3. sent[u] \in Seq(Nat)
  BY <1>1 DEF Shapes
<1>4. WholeOf(u, sent[u]) \in Seq(ByteNames)
  BY <1>1, <1>3, EndsIs
<1>5. Len(WholeOf(u, sent[u])) \in Nat
  BY <1>4
<1> QED BY <1>1, <1>2, <1>4, <1>5

\* The sender stands before the end of the last access unit.
LEMMA SenderIs ==
    ASSUME Inv, nal # 0
    PROVE  /\ Len(sent) \in 1 .. Len(sent) /\ SenderAt \in Nat
           /\ SenderAt < Len(Whole(Len(sent))) /\ Len(Whole(Len(sent))) \in Nat
<1>1. PICK last \in Nat : last = Len(sent) /\ last > 0 /\ last \in 1 .. Len(sent)
  BY DEF Inv, TypeOK, SenderOk
<1>2. PICK unit \in Seq(Nat) : unit = sent[last]
  BY <1>1, WholeIs DEF Shapes
<1>3. Whole(last) = WholeOf(last, unit) /\ Len(Whole(last)) \in Nat
  BY <1>1, <1>2, WholeIs
<1>4. PICK k \in 1 .. Len(unit) : k = nal
  BY <1>1, <1>2 DEF Inv, SenderOk
<1>5. PICK m \in Nat : m = unit[k]
  OBVIOUS
<1>6. PICK o \in 0 .. m : o = off /\ o < m /\ m > 0
  BY <1>1, <1>2, <1>4, <1>5 DEF Inv, TypeOK, SenderOk
<1>7. PICK base \in Nat : base = Ends(last, unit)[k - 1]
  BY <1>5, <1>6, PlaceIs
<1>8. /\ Place(last, unit, k, o) \in Nat
      /\ Place(last, unit, k, m) <= Len(WholeOf(last, unit))
  <2>1. unit[k] > 0 /\ o \in 0 .. unit[k] /\ m \in 0 .. unit[k]
    BY <1>5, <1>6
  <2>2. \A i \in 0 .. unit[k] : /\ Place(last, unit, k, i) \in Nat
                                /\ Place(last, unit, k, i) <= Len(WholeOf(last, unit))
    BY <2>1, PlaceIs
  <2> QED BY <2>1, <2>2
<1>9. /\ Place(last, unit, k, o) = base + (IF o = 0 THEN 0 ELSE StartLen + o)
      /\ Place(last, unit, k, m) = base + (StartLen + m)
  BY <1>6, <1>7 DEF Place
<1>10. Place(last, unit, k, o) < Place(last, unit, k, m)
  <2>1. StartLen \in Nat /\ StartLen > 0
    BY RtpH264Assumption
  <2>2. CASE o = 0
    BY <1>6, <1>9, <2>1, <2>2
  <2>3. CASE o # 0
    BY <1>6, <1>9, <2>1, <2>3
  <2> QED BY <2>2, <2>3
<1>11. SenderAt = Place(last, unit, k, o)
  BY <1>1, <1>2, <1>4, <1>6 DEF SenderAt
<1>12. Place(last, unit, k, m) \in Nat
  BY <1>9, RtpH264Assumption
<1> QED BY <1>1, <1>3, <1>8, <1>10, <1>11, <1>12

\* An access unit's image begins with its first NAL unit that has bytes.
LEMMA StartsAtZero ==
    ASSUME NEW ts \in Nat, NEW unit \in Shapes
    PROVE  Place(ts, unit, NextNal(unit, 0), 0) = 0
<1>1. unit \in Seq(Nat) /\ unit # << >> /\ unit[Len(unit)] > 0
  BY DEF Shapes
<1>2. PICK z \in 0 .. Len(unit) : z = 0
  BY <1>1
<1>3. PICK n : n = NextNal(unit, z)
  OBVIOUS
<1>4. n # 0
  BY <1>1, <1>2, <1>3, NextNalEnds
<1>5. Ends(ts, unit)[n - 1] = Ends(ts, unit)[z]
  BY <1>1, <1>3, <1>4, EndsAcross
<1>6. Ends(ts, unit)[0] = 0
  BY <1>1, EndsIs DEF Spread
<1>7. Ends(ts, unit)[n - 1] = 0
  BY <1>2, <1>5, <1>6
<1>8. Place(ts, unit, n, 0) = 0
  BY <1>7 DEF Place
<1> QED BY <1>2, <1>3, <1>8

LEMMA StartFlows ==
    ASSUME Inv, Inv', Flow, StartUnit
    PROVE  Flow'
<1>1. /\ UNCHANGED <<net, buffer, frame, len, delivered, disturbed>>
      /\ nal = 0 /\ off' = 0
  BY DEF StartUnit, reasmVars
<1>2. PICK last \in Nat : last = Len(sent) /\ last < MaxUnits
  BY DEF Inv, TypeOK, StartUnit
<1>3. PICK unit \in Shapes : sent' = Append(sent, unit) /\ nal' \in 1 .. Len(unit)
                             /\ nal' = NextNal(unit, 0)
  BY StartKeeps
<1>4. Len(sent') = last + 1 /\ \A ts \in 1 .. last : sent'[ts] = sent[ts]
  BY <1>2, StartKeeps
<1>5. sent'[last + 1] = unit
  <2>1. sent \in Seq(Seq(Nat))
    BY DEF Inv, TypeOK
  <2> QED BY <1>2, <1>3, <2>1
<1>6. \A p \in net : /\ p.ts \in 1 .. last
                     /\ First(p)' = First(p) /\ Behind(p)' = Behind(p)
  <2> SUFFICES ASSUME NEW p \in net
               PROVE  /\ p.ts \in 1 .. last
                      /\ First(p)' = First(p) /\ Behind(p)' = Behind(p)
    OBVIOUS
  <2>1. p.ts \in 1 .. last /\ sent'[p.ts] = sent[p.ts]
    BY <1>2, <1>4, PacketFacts
  <2> QED BY <2>1 DEF First, Behind
<1>7. \A u \in 1 .. last : Whole(u)' = Whole(u)
  BY <1>4 DEF Whole
<1>8. \A u \in 1 .. last : ~Sending(u) /\ ~Sending(u)' /\ u \in Nat
  BY <1>1, <1>2, <1>4 DEF Sending
<1>9. \A u \in 1 .. last : \A c : Following(u, c) => Following(u, c)'
  BY <1>1, <1>6, <1>8 DEF Following
<1>10. Ordered'
  <2>1. \A p \in net : ~Sending(p.ts)'
    BY <1>6, <1>8
  <2> QED BY <1>1, <1>6, <2>1 DEF Flow, Ordered
<1>11. Linked'
  BY <1>1, <1>6, <1>9 DEF Flow, Linked
<1>12. HistoryOk'
  <2>1. \A i \in 1 .. Len(delivered) : delivered[i].from \subseteq 1 .. last
    BY <1>2 DEF Flow, HistoryOk
  <2> QED BY <1>1, <1>2, <1>4, <2>1 DEF HistoryOk
<1>13. \A u \in 1 .. last : Fits(u)' <=> Fits(u)
  BY <1>7 DEF Fits
<1>14. DamageIsLocal'
  <2>1. DOMAIN delivered = 1 .. Len(delivered)
    BY DEF Inv, TypeOK
  <2>2. \A i \in DOMAIN delivered : delivered[i].from \subseteq 1 .. last
    BY <1>2, <2>1 DEF Flow, HistoryOk
  <2> QED BY <1>1, <1>13, <2>2 DEF Flow, DamageIsLocal
<1>15. ASSUME NEW u \in 1 .. last, Flows(u)
       PROVE  Flows(u)'
  <2>1. \A c : ToCome(u, c) => ToCome(u, c)'
    BY <1>1, <1>6, <1>9 DEF ToCome
  <2>2. Undelivered(u)' <=> Undelivered(u)
    BY <1>1 DEF Undelivered
  <2>3. \A c : Held(u, frame, c) => Held(u, frame, c)'
    <3> SUFFICES ASSUME NEW c, Held(u, frame, c) PROVE Held(u, frame, c)'
      OBVIOUS
    <3>1. \A b \in Owners(frame) : b \in 1 .. last
      BY <1>2 DEF Inv, BufferOk
    <3>2. \A b \in Owners(frame) : Bad(b) => Bad(b)'
      BY <1>1, <1>13, <3>1 DEF Bad
    <3>3. Fresh(u)' <=> Fresh(u)
      BY <1>1 DEF Fresh
    <3> QED BY <1>1, <1>7, <1>13, <3>2, <3>3 DEF Held
  <2>4. CASE Waiting(u)
    BY <1>1, <2>1, <2>2, <2>4 DEF Waiting, Flows
  <2>5. CASE Arriving(u)
    BY <1>1, <1>7, <2>1, <2>2, <2>3, <2>5 DEF Arriving, Flows
  <2>6. CASE Past(u)
    <3>1. Fresh(u)' <=> Fresh(u)
      BY <1>1 DEF Fresh
    <3>2. OneWhole(u)' <=> OneWhole(u)
      BY <1>1 DEF OneWhole
    <3> QED BY <1>1, <1>8, <1>13, <2>6, <3>1, <3>2 DEF Past, Flows
  <2> QED BY <1>15, <2>4, <2>5, <2>6 DEF Flows
<1>16. Flows(last + 1)'
  <2>1. Sending(last + 1)'
    BY <1>3, <1>4 DEF Sending
  <2>2. SenderAt' = 0
    <3>1. last + 1 \in Nat
      OBVIOUS
    <3>2. Place(last + 1, unit, NextNal(unit, 0), 0) = 0
      BY <3>1, StartsAtZero
    <3>3. SenderAt' = Place(last + 1, unit, nal', 0)
      BY <1>1, <1>4, <1>5 DEF SenderAt
    <3> QED BY <1>3, <3>2, <3>3
  <2>3. \A q \in net : q.ts # last + 1
    BY <1>6
  <2>4. ToCome(last + 1, 0)'
    BY <1>1, <2>1, <2>2, <2>3 DEF ToCome, Following
  <2>5. Undelivered(last + 1)'
    <3>1. \A i \in 1 .. Len(delivered) : delivered[i].from \subseteq 1 .. last
      BY <1>2 DEF Flow, HistoryOk
    <3> QED BY <1>1, <3>1 DEF Undelivered
  <2>6. \A b \in Owners(frame) : b < last + 1
    BY <1>2 DEF Inv, BufferOk
  <2> QED BY <1>1, <2>4, <2>5, <2>6 DEF Flows, Waiting
<1>17. buffer' # "null" => \A u \in 1 .. Len(sent') : u \notin disturbed' => Flows(u)'
  <2> SUFFICES ASSUME buffer # "null", NEW u \in 1 .. last + 1, u \notin disturbed
               PROVE  Flows(u)'
    BY <1>1, <1>4
  <2>1. CASE u = last + 1
    BY <1>16, <2>1
  <2>2. CASE u # last + 1
    <3>1. u \in 1 .. last
      BY <2>2
    <3> QED BY <1>2, <1>15, <3>1 DEF Flow
  <2> QED BY <2>1, <2>2
<1> QED BY <1>10, <1>11, <1>12, <1>14, <1>17 DEF Flow

\* The packet sent takes the sender's place.
LEMMA SendFlows ==
    ASSUME Inv, Inv', Flow, SendPacket
    PROVE  Flow'
<1>1. /\ nal # 0 /\ Len(sent) > 0
      /\ net' = net \cup {Outgoing} /\ nextId' = nextId + 1
      /\ UNCHANGED <<sent, buffer, frame, len, delivered, disturbed>>
      /\ ~Outgoing.end => nal' = nal /\ off' = Outgoing.from + Outgoing.n /\ off' > 0
      /\ nal' = 0 <=> Outgoing.marker
  BY SendKeeps
<1>2. PICK last \in Nat : last = Len(sent)
  BY DEF Inv, TypeOK
<1>3. PICK unit : unit = sent[last]
  OBVIOUS
<1>4. PICK p : p = Outgoing
  OBVIOUS
<1>5. /\ p.ts = last /\ p.id = nextId /\ p.nal = nal
      /\ Begin(p, unit) = SenderAt
      /\ ~p.end => ~p.marker
      /\ p.marker <=> p.end /\ nal = Len(unit)
      /\ p.end => p.from + p.n = unit[nal]
      /\ p.from + p.n \in Nat /\ p.from + p.n > 0
      /\ p \in Packets /\ unit \in Seq(Nat) /\ WellBuilt(p, unit)
  BY <1>1, <1>2, <1>3, <1>4, OutgoingIs DEF Inv, SenderAt
<1>6. First(p) = SenderAt /\ First(p)' = SenderAt
  BY <1>1, <1>3, <1>5 DEF First
<1>7. \A q \in net : First(q)' = First(q) /\ Behind(q)' = Behind(q)
  BY <1>1 DEF First, Behind
<1>8. p \in net' /\ Behind(p)' = Behind(p) /\ SenderAt \in Nat
  BY <1>1, <1>4, SenderIs DEF Behind
<1>9. First(p)' \in Nat /\ Behind(p)' \in Nat /\ First(p)' < Behind(p)'
  <2>1. Begin(p, unit) \in Nat /\ Finish(p, unit) \in Nat /\ Begin(p, unit) < Finish(p, unit)
    BY <1>5, BeginFinish
  <2>2. First(p)' = Begin(p, unit) /\ Behind(p)' = Finish(p, unit)
    BY <1>1, <1>2, <1>3, <1>5 DEF First, Behind
  <2> QED BY <2>1, <2>2
<1>10. ~p.marker => SenderAt' = Behind(p)
  <2> SUFFICES ASSUME ~p.marker PROVE SenderAt' = Behind(p)
    OBVIOUS
  <2>1. SenderAt' = Place(last, unit, nal', off')
    BY <1>1, <1>2, <1>3 DEF SenderAt
  <2>2. Behind(p) = Place(last, unit, nal, p.from + p.n)
    BY <1>3, <1>5 DEF Behind, Finish
  <2>3. p.end \in BOOLEAN
    BY <1>5 DEF Packets
  <2>4. CASE ~p.end
    BY <1>1, <1>4, <2>1, <2>2, <2>4
  <2>5. CASE p.end
    <3>1. PICK k \in 1 .. Len(unit) : k = nal
      BY <1>5 DEF WellBuilt
    <3>2. PICK m \in Nat : m = unit[k] /\ m > 0 /\ p.from + p.n = m
      BY <1>5, <2>5, <3>1
    <3>3. Place(last, unit, k, m) = Ends(last, unit)[k]
      BY <3>2, <1>5, PlaceIs
    <3>4. nal' = NextNal(unit, k) /\ off' = 0 /\ nal' # 0
      BY <1>1, <1>2, <1>3, <1>4, <2>5, <3>1, SendKeeps
    <3>5. PICK n : n = NextNal(unit, k)
      OBVIOUS
    <3>6. Ends(last, unit)[n - 1] = Ends(last, unit)[k]
      <4>1. NextNal(unit, k) # 0 /\ k \in 0 .. Len(unit)
        BY <3>4
      <4> QED BY <1>5, <3>5, <4>1, EndsAcross
    <3>7. Place(last, unit, n, 0) = Ends(last, unit)[n - 1]
      <4>1. Ends(last, unit)[k] \in Nat
        <5>1. k \in 0 .. Len(unit)
          OBVIOUS
        <5> QED BY <1>5, <5>1, EndsIs DEF Spread
      <4>2. Ends(last, unit)[n - 1] \in Nat
        BY <3>6, <4>1
      <4> QED BY <4>2 DEF Place
    <3>8. SenderAt' = Place(last, unit, n, 0)
      BY <2>1, <3>4, <3>5
    <3>9. Behind(p) = Place(last, unit, k, m)
      BY <2>2, <3>1, <3>2
    <3> QED BY <3>3, <3>6, <3>7, <3>8, <3>9
  <2> QED BY <2>3, <2>4, <2>5
<1>11. \A u : \A c : Following(u, c) => Following(u, c)'
  <2> SUFFICES ASSUME NEW u, NEW c, Following(u, c) PROVE Following(u, c)'
    OBVIOUS
  <2>1. CASE \E q \in net : q.ts = u /\ First(q) = c
    BY <1>1, <1>7, <2>1 DEF Following
  <2>2. CASE Sending(u) /\ SenderAt = c
    <3>1. p.ts = u /\ First(p)' = c
      BY <1>2, <1>5, <1>6, <2>2 DEF Sending
    <3> QED BY <1>8, <3>1 DEF Following
  <2> QED BY <2>1, <2>2 DEF Following
<1>12. \A q \in net : q.ts = last => First(q) < SenderAt /\ First(q) < Behind(q) /\ Behind(q) <= SenderAt
  <2> SUFFICES ASSUME NEW q \in net, q.ts = last
               PROVE  First(q) < SenderAt /\ First(q) < Behind(q) /\ Behind(q) <= SenderAt
    OBVIOUS
  <2>1. Behind(q) <= SenderAt
    BY <1>1, <1>2 DEF Flow, Ordered, Sending
  <2>2. First(q) \in Nat /\ Behind(q) \in Nat /\ First(q) < Behind(q)
    BY PacketFacts
  <2> QED BY <1>8, <2>1, <2>2
<1>13. Ordered'
  <2>1. ASSUME NEW q \in net, NEW r \in net
        PROVE  /\ q.id = r.id => q = r
               /\ q.id < r.id => q.ts < r.ts \/ (q.ts = r.ts /\ Behind(q)' <= First(r)')
    BY <1>7 DEF Flow, Ordered
  <2>2. ASSUME NEW q \in net
        PROVE  /\ q.id < p.id
               /\ q.ts < p.ts \/ (q.ts = p.ts /\ Behind(q)' <= First(p)')
               /\ ~(p.id < q.id) /\ p.id # q.id
    <3>1. q.id \in Nat /\ q.id < nextId /\ q.ts \in 1 .. last /\ nextId \in Nat
      BY <1>2, PacketFacts DEF Inv, TypeOK
    <3>2. CASE q.ts = last
      <4>1. Behind(q)' <= First(p)'
        BY <1>6, <1>7, <1>12, <3>2
      <4> QED BY <1>5, <3>1, <3>2, <4>1
    <3>3. CASE q.ts # last
      <4>1. q.ts < last
        BY <3>1, <3>3
      <4> QED BY <1>5, <3>1, <4>1
    <3> QED BY <3>2, <3>3
  <2>3. \A q, r \in net' :
           /\ q.id = r.id => q = r
           /\ q.id < r.id => q.ts < r.ts \/ (q.ts = r.ts /\ Behind(q)' <= First(r)')
    <3> SUFFICES ASSUME NEW q \in net', NEW r \in net'
                 PROVE  /\ q.id = r.id => q = r
                        /\ q.id < r.id => q.ts < r.ts \/ (q.ts = r.ts /\ Behind(q)' <= First(r)')
      OBVIOUS
    <3>1. CASE q \in net /\ r \in net
      BY <2>1, <3>1
    <3>2. CASE q \in net /\ r = p
      BY <2>2, <3>2
    <3>3. CASE q = p /\ r \in net
      BY <2>2, <3>3
    <3>4. CASE q = p /\ r = p
      <4>1. nextId \in Nat
        BY DEF Inv, TypeOK
      <4> QED BY <1>5, <3>4, <4>1
    <3> QED BY <1>1, <1>4, <3>1, <3>2, <3>3, <3>4
  <2>4. ASSUME NEW q \in net', Sending(q.ts)'
        PROVE  Behind(q)' <= SenderAt'
    <3>1. q.ts = last /\ ~p.marker
      BY <1>1, <1>2, <1>4, <2>4 DEF Sending
    <3>2. SenderAt' = Behind(p)
      BY <1>10, <3>1
    <3>3. CASE q = p
      BY <1>8, <1>9, <3>2, <3>3
    <3>4. CASE q \in net
      <4>1. Behind(q) <= SenderAt /\ Behind(q) \in Nat /\ Behind(q)' = Behind(q)
        BY <1>7, <1>12, <3>1, <3>4, PacketFacts
      <4>2. SenderAt \in Nat /\ Behind(p) \in Nat /\ SenderAt < Behind(p)
        BY <1>6, <1>8, <1>9
      <4>3. Behind(q) <= Behind(p)
        BY <4>1, <4>2
      <4> QED BY <3>2, <4>1, <4>3
    <3> QED BY <1>1, <1>4, <3>3, <3>4
  <2> QED BY <2>3, <2>4 DEF Ordered
<1>14. Linked'
  <2> SUFFICES ASSUME NEW q \in net', q.ts \notin disturbed, ~q.marker
               PROVE  Following(q.ts, Behind(q))'
    BY <1>1 DEF Linked
  <2>1. CASE q \in net
    <3>1. Following(q.ts, Behind(q))
      BY <2>1 DEF Flow, Linked
    <3>2. PICK c : c = Behind(q) /\ c = Behind(q)'
      BY <1>7, <2>1
    <3>3. PICK u : u = q.ts
      OBVIOUS
    <3>4. Following(u, c)'
      BY <1>11, <3>1, <3>2, <3>3
    <3> QED BY <3>2, <3>3, <3>4 DEF Following
  <2>2. CASE q = p
    <3>1. nal' # 0 /\ SenderAt' = Behind(p)' /\ p.ts = Len(sent')
      BY <1>1, <1>2, <1>4, <1>5, <1>8, <1>10, <2>2
    <3> QED BY <2>2, <3>1 DEF Following, Sending
  <2> QED BY <1>1, <1>4, <2>1, <2>2
<1>15. HistoryOk' /\ DamageIsLocal'
  <2>1. \A u : Fits(u)' <=> Fits(u)
    BY <1>1 DEF Fits, Whole
  <2>2. \A i \in DOMAIN delivered :
           (\A ts \in delivered[i].from : ts \notin disturbed /\ Fits(ts)) => delivered[i].whole
    BY DEF Flow, DamageIsLocal
  <2>3. DamageIsLocal'
    BY <1>1, <2>1, <2>2 DEF DamageIsLocal
  <2>4. HistoryOk'
    BY <1>1 DEF Flow, HistoryOk
  <2> QED BY <2>3, <2>4
<1>16. ASSUME NEW u \in 1 .. last, Flows(u)
       PROVE  Flows(u)'
  <2>1. ASSUME NEW c \in Nat, ToCome(u, c) PROVE ToCome(u, c)'
    <3>1. Following(u, c)'
      BY <1>11, <2>1 DEF ToCome
    <3>2. ASSUME NEW q \in net', q.ts = u PROVE First(q)' >= c
      <4>1. CASE q \in net
        BY <1>7, <2>1, <3>2, <4>1 DEF ToCome
      <4>2. CASE q = p
        <5>1. u = last
          BY <1>5, <3>2, <4>2
        <5>2. CASE \E r \in net : r.ts = u /\ First(r) = c
          <6>1. c < SenderAt
            BY <1>12, <5>1, <5>2
          <6> QED BY <1>6, <1>8, <4>2, <6>1
        <5>3. CASE SenderAt = c
          BY <1>6, <4>2, <5>3
        <5> QED BY <2>1, <5>2, <5>3 DEF ToCome, Following
      <4> QED BY <1>1, <1>4, <4>1, <4>2
    <3> QED BY <3>1, <3>2 DEF ToCome
  <2>2. /\ Undelivered(u)' <=> Undelivered(u)
        /\ Whole(u)' = Whole(u)
        /\ \A c : Held(u, frame, c)' <=> Held(u, frame, c)
        /\ (Fits(u) /\ Fresh(u) => OneWhole(u))' <=> (Fits(u) /\ Fresh(u) => OneWhole(u))
    BY <1>1 DEF Undelivered, Held, Bad, Fresh, Fits, Whole, OneWhole
  <2>3. CASE Waiting(u)
    <3>1. ToCome(u, 0)'
      BY <2>1, <2>3 DEF Waiting
    <3> QED BY <1>1, <2>2, <2>3, <3>1 DEF Waiting, Flows
  <2>4. CASE Arriving(u)
    <3>1. PICK c \in 1 .. Len(Whole(u)) : ToCome(u, c) /\ Held(u, frame, c)
      BY <2>4 DEF Arriving
    <3>2. c \in 1 .. Len(Whole(u)') /\ ToCome(u, c)' /\ Held(u, frame, c)'
      BY <2>1, <2>2, <3>1
    <3>3. \A q \in net' : q.ts >= u
      BY <1>1, <1>4, <1>5, <2>4 DEF Arriving
    <3> QED BY <2>2, <2>4, <3>2, <3>3 DEF Arriving, Flows
  <2>5. CASE Past(u)
    <3>1. u < last /\ ~Sending(u)'
      BY <1>1, <1>2, <2>5 DEF Past, Sending
    <3>2. \A q \in net' : q.ts > u
      BY <1>1, <1>4, <1>5, <2>5, <3>1 DEF Past
    <3> QED BY <1>1, <2>2, <2>5, <3>1, <3>2 DEF Past, Flows
  <2> QED BY <1>16, <2>3, <2>4, <2>5 DEF Flows
<1>17. buffer' # "null" => \A u \in 1 .. Len(sent') : u \notin disturbed' => Flows(u)'
  BY <1>1, <1>2, <1>16 DEF Flow
<1> QED BY <1>13, <1>14, <1>15, <1>17 DEF Flow

\* The invariant does not care whether there is a buffer yet.
LEMMA NothingFlows ==
    ASSUME Flow, UNCHANGED <<sent, nal, off, net, frame, delivered, disturbed>>,
           buffer' = buffer \/ buffer = "uninit"
    PROVE  Flow'
<1>1. /\ UNCHANGED <<sent, nal, off, net, frame, delivered, disturbed>>
      /\ buffer' # "null" => buffer # "null"
  OBVIOUS
<1>2. /\ \A q : First(q)' = First(q) /\ Behind(q)' = Behind(q)
      /\ \A u : Whole(u)' = Whole(u) /\ (Sending(u)' <=> Sending(u))
      /\ SenderAt' = SenderAt
  BY <1>1 DEF First, Behind, Whole, Sending, SenderAt
<1>3. \A u : /\ Fits(u)' <=> Fits(u)
             /\ Fresh(u)' <=> Fresh(u)
             /\ Bad(u)' <=> Bad(u)
             /\ Undelivered(u)' <=> Undelivered(u)
             /\ OneWhole(u)' <=> OneWhole(u)
             /\ \A c : Following(u, c)' <=> Following(u, c)
  BY <1>1, <1>2 DEF Fits, Fresh, Bad, Undelivered, OneWhole, Following
<1>4. \A u : \A c : /\ ToCome(u, c)' <=> ToCome(u, c)
                    /\ Held(u, frame, c)' <=> Held(u, frame, c)
  BY <1>1, <1>2, <1>3 DEF ToCome, Held
<1>5. ASSUME NEW u, Flows(u) PROVE Flows(u)'
  BY <1>1, <1>2, <1>3, <1>4, <1>5 DEF Flows, Waiting, Arriving, Past
<1>6. Ordered'
  BY <1>1, <1>2 DEF Flow, Ordered
<1>7. Linked'
  <2> SUFFICES ASSUME NEW q \in net, q.ts \notin disturbed, ~q.marker
               PROVE  Following(q.ts, Behind(q))'
    BY <1>1 DEF Linked
  <2>1. Following(q.ts, Behind(q))
    BY DEF Flow, Linked
  <2> QED BY <1>1, <1>2, <2>1 DEF Following
<1>8. HistoryOk' /\ DamageIsLocal'
  BY <1>1, <1>3 DEF Flow, HistoryOk, DamageIsLocal
<1>9. buffer' # "null" => \A u \in 1 .. Len(sent') : u \notin disturbed' => Flows(u)'
  BY <1>1, <1>5 DEF Flow
<1> QED BY <1>6, <1>7, <1>8, <1>9 DEF Flow

LEMMA InitFlows ==
    ASSUME Inv, Flow, ReassemblerInit
    PROVE  Flow'
<1>1. UNCHANGED <<sent, nal, off, net, frame, delivered, disturbed>> /\ buffer = "uninit"
  <2>1. frame = << >>
    BY DEF ReassemblerInit, Inv, BufferOk
  <2> QED BY <2>1 DEF ReassemblerInit, senderVars
<1> QED BY <1>1, NothingFlows

\* When at most a packet of another access unit leaves the network, all of u is
\* still to come that was.
LEMMA NetShrinks ==
    ASSUME Inv, Flow, NEW p \in net, net' \in {net, net \ {p}}, UNCHANGED <<sent, nal, off>>
    PROVE  /\ \A q : First(q)' = First(q) /\ Behind(q)' = Behind(q)
           /\ \A u : /\ Sending(u)' <=> Sending(u)
                     /\ Whole(u)' = Whole(u) /\ (Fits(u)' <=> Fits(u))
           /\ SenderAt' = SenderAt
           /\ Ordered'
           /\ \A u : u # p.ts => \A c : /\ Following(u, c) => Following(u, c)'
                                        /\ ToCome(u, c) => ToCome(u, c)'
<1>1. /\ \A q : First(q)' = First(q) /\ Behind(q)' = Behind(q)
      /\ \A u : Whole(u)' = Whole(u) /\ (Sending(u)' <=> Sending(u))
      /\ SenderAt' = SenderAt
  BY DEF First, Behind, Whole, Sending, SenderAt
<1>2. \A u : Fits(u)' <=> Fits(u)
  BY <1>1 DEF Fits
<1>3. net' \subseteq net /\ net \ {p} \subseteq net'
  OBVIOUS
<1>4. Ordered'
  BY <1>1, <1>3 DEF Flow, Ordered
<1>5. ASSUME NEW u, u # p.ts, NEW c PROVE Following(u, c) => Following(u, c)'
  <2> SUFFICES ASSUME Following(u, c) PROVE Following(u, c)'
    OBVIOUS
  <2>1. CASE \E q \in net : q.ts = u /\ First(q) = c
    <3>1. PICK q \in net : q.ts = u /\ First(q) = c
      BY <2>1
    <3>2. q \in net' /\ First(q)' = c
      BY <1>1, <1>3, <1>5, <3>1
    <3> QED BY <3>1, <3>2 DEF Following
  <2>2. CASE Sending(u) /\ SenderAt = c
    BY <1>1, <2>2 DEF Following
  <2> QED BY <2>1, <2>2 DEF Following
<1>6. ASSUME NEW u, u # p.ts, NEW c PROVE ToCome(u, c) => ToCome(u, c)'
  BY <1>1, <1>3, <1>5, <1>6 DEF ToCome
<1> QED BY <1>1, <1>2, <1>4, <1>5, <1>6

\* A packet lost disturbs its access unit, and no other.
LEMMA LoseFlows ==
    ASSUME Inv, Flow, Lose
    PROVE  Flow'
<1>1. PICK p \in net : net' = net \ {p} /\ disturbed' = disturbed \cup {p.ts}
  BY LoseKeeps
<1>2. UNCHANGED <<sent, nal, off, nextId, buffer, frame, len, delivered>>
  BY LoseKeeps
<1>3. /\ \A q : First(q)' = First(q) /\ Behind(q)' = Behind(q)
      /\ \A u : /\ Sending(u)' <=> Sending(u)
                /\ Whole(u)' = Whole(u) /\ (Fits(u)' <=> Fits(u))
      /\ SenderAt' = SenderAt
      /\ Ordered'
      /\ \A u : u # p.ts => \A c : /\ Following(u, c) => Following(u, c)'
                                   /\ ToCome(u, c) => ToCome(u, c)'
  BY <1>1, <1>2, NetShrinks
<1>4. \A u : /\ Undelivered(u)' <=> Undelivered(u)
             /\ OneWhole(u)' <=> OneWhole(u)
             /\ Bad(u) => Bad(u)'
             /\ Fresh(u)' => Fresh(u)
  BY <1>1, <1>2, <1>3 DEF Undelivered, OneWhole, Bad, Fresh
<1>5. \A u : \A c : Held(u, frame, c) => Held(u, frame, c)'
  BY <1>2, <1>3, <1>4 DEF Held
<1>6. ASSUME NEW u, u # p.ts, Flows(u) PROVE Flows(u)'
  <2>1. CASE Waiting(u)
    BY <1>2, <1>3, <1>4, <1>6, <2>1 DEF Waiting, Flows
  <2>2. CASE Arriving(u)
    BY <1>1, <1>2, <1>3, <1>4, <1>5, <1>6, <2>2 DEF Arriving, Flows
  <2>3. CASE Past(u)
    BY <1>1, <1>2, <1>3, <1>4, <2>3 DEF Past, Flows
  <2> QED BY <1>6, <2>1, <2>2, <2>3 DEF Flows
<1>7. Linked'
  <2> SUFFICES ASSUME NEW q \in net', q.ts \notin disturbed', ~q.marker
               PROVE  Following(q.ts, Behind(q))'
    BY DEF Linked
  <2>1. Following(q.ts, Behind(q)) /\ q.ts # p.ts
    BY <1>1 DEF Flow, Linked
  <2>2. PICK c : c = Behind(q) /\ c = Behind(q)'
    BY <1>3
  <2>3. Following(q.ts, c)'
    BY <1>3, <2>1, <2>2
  <2> QED BY <2>2, <2>3 DEF Following
<1>8. HistoryOk'
  BY <1>2 DEF Flow, HistoryOk
<1>9. DamageIsLocal'
  BY <1>1, <1>2, <1>3 DEF Flow, DamageIsLocal
<1>10. buffer' # "null" => \A u \in 1 .. Len(sent') : u \notin disturbed' => Flows(u)'
  BY <1>1, <1>2, <1>6 DEF Flow
<1> QED BY <1>3, <1>7, <1>8, <1>9, <1>10 DEF Flow

\* What is on its way besides a packet without older ones comes behind it.
LEMMA BehindOldest ==
    ASSUME Inv, Flow, NEW p \in net, NEW q \in net
    PROVE  /\ q.ts < p.ts => q \in Before(p)
           /\ q # p /\ q \notin Before(p) =>
                 q.ts > p.ts \/ (q.ts = p.ts /\ Behind(p) <= First(q))
<1>1. /\ p.id \in Nat /\ q.id \in Nat /\ p.ts \in Nat /\ q.ts \in Nat
  BY PacketFacts
<1>2. /\ p.id = q.id => p = q
      /\ p.id < q.id => p.ts < q.ts \/ (p.ts = q.ts /\ Behind(p) <= First(q))
  BY DEF Flow, Ordered
<1>3. q \in Before(p) <=> q.id < p.id
  BY DEF Before
<1> QED BY <1>1, <1>2, <1>3

\* Of an access unit older than the packet that arrives nothing is to come, if
\* it stays undisturbed.
LEMMA NothingOlder ==
    ASSUME Inv, Flow, NEW p \in net, Arrival(p),
           NEW u \in 1 .. Len(sent), u \notin disturbed', u < p.ts, NEW c
    PROVE  ~Following(u, c)
<1> SUFFICES ASSUME Following(u, c) PROVE FALSE
  OBVIOUS
<1>1. CASE \E q \in net : q.ts = u /\ First(q) = c
  <2>1. PICK q \in net : q.ts = u
    BY <1>1
  <2>2. q \in Before(p)
    BY <2>1, BehindOldest
  <2> QED BY <2>1, <2>2 DEF Arrival
<1>2. CASE Sending(u)
  <2>1. p.ts \in 1 .. Len(sent) /\ u = Len(sent)
    BY <1>2, PacketFacts DEF Sending
  <2> QED BY <2>1
<1> QED BY <1>1, <1>2 DEF Following

\* So another access unit is then either still to come or past.
LEMMA Others ==
    ASSUME Inv, Flow, NEW p \in net, Arrival(p), buffer = "ready",
           NEW u \in 1 .. Len(sent), u \notin disturbed', u # p.ts
    PROVE  /\ (u > p.ts /\ Waiting(u)) \/ (u < p.ts /\ Past(u))
           /\ u \notin Owners(frame)
<1>1. Flows(u)
  BY DEF Flow, Arrival
<1>2. p.ts \in 1 .. Len(sent) /\ p.ts \in Nat /\ u \in Nat
  BY PacketFacts
<1>3. CASE Waiting(u)
  <2>1. ~(u < p.ts)
    BY <1>3, NothingOlder DEF Waiting, ToCome
  <2>2. \A b \in Owners(frame) : b < u
    BY <1>3 DEF Waiting
  <2>3. u \notin Owners(frame)
    BY <1>2, <2>2
  <2>4. u > p.ts
    BY <1>2, <2>1
  <2> QED BY <1>3, <2>3, <2>4
<1>4. CASE Arriving(u)
  <2>1. p.ts >= u
    BY <1>4 DEF Arriving
  <2>2. u < p.ts
    BY <1>2, <2>1
  <2> QED BY <1>4, <2>2, NothingOlder DEF Arriving, ToCome
<1>5. CASE Past(u)
  <2>1. p.ts > u
    BY <1>5 DEF Past
  <2>2. \A b \in Owners(frame) : b > u
    BY <1>5 DEF Past
  <2> QED BY <1>2, <1>5, <2>1, <2>2
<1> QED BY <1>1, <1>3, <1>4, <1>5 DEF Flows

\* What the buffer holds of other access units is of disturbed ones.
LEMMA LeftOver ==
    ASSUME Inv, Flow, NEW p \in net, Arrival(p), buffer = "ready",
           NEW b \in Owners(frame), b # p.ts
    PROVE  b \in disturbed'
<1>1. b \in 1 .. Len(sent)
  BY DEF Inv, BufferOk
<1> QED BY <1>1, Others

\* And when an undisturbed one begins behind an undisturbed one it holds nothing.
LEMMA NothingLeft ==
    ASSUME Inv, Flow, NEW p \in net, Arrival(p), buffer = "ready",
           Waiting(p.ts), Fresh(p.ts)'
    PROVE  frame = << >>
<1> SUFFICES ASSUME frame # << >> PROVE FALSE
  OBVIOUS
<1>1. PICK b : b \in Owners(frame)
  BY DEF Inv, BufferOk
<1>2. b \in 1 .. Len(sent) /\ b < p.ts /\ p.ts \in 1 .. Len(sent)
  BY <1>1, PacketFacts DEF Inv, BufferOk, Waiting
<1>3. PICK u : u = p.ts - 1
  OBVIOUS
<1>4. u \in 1 .. Len(sent) /\ u # p.ts /\ b <= u /\ u < p.ts
  BY <1>2, <1>3
<1>5. u \notin disturbed'
  BY <1>2, <1>3 DEF Fresh
<1>6. Past(u)
  <2>1. (u > p.ts /\ Waiting(u)) \/ (u < p.ts /\ Past(u))
    BY <1>4, <1>5, Others
  <2> QED BY <1>2, <1>4, <2>1
<1>7. b > u
  BY <1>1, <1>6 DEF Past
<1> QED BY <1>2, <1>4, <1>7

\* An undisturbed access unit's next packet finds what precedes it, or something
\* left over.
LEMMA OwnIs ==
    ASSUME Inv, Flow, NEW p \in net, Arrival(p), buffer = "ready", p.ts \notin disturbed'
    PROVE  /\ Before(p) = {} /\ net' = net \ {p} /\ p.ts \in 1 .. Len(sent)
           /\ Undelivered(p.ts)
           /\ \/ Waiting(p.ts) /\ First(p) = 0
              \/ Held(p.ts, frame, First(p)) /\ First(p) > 0
           /\ \A q \in net' : q.ts > p.ts \/ (q.ts = p.ts /\ Behind(p) <= First(q))
           /\ ~p.marker => ToCome(p.ts, Behind(p))'
           /\ p.marker => ~Sending(p.ts) /\ \A q \in net' : q.ts > p.ts
<1>1. Before(p) = {} /\ net' = net \ {p} /\ UNCHANGED <<sent, nal, off>> /\ p.ts \notin disturbed
  BY DEF Arrival
<1>2. /\ p.ts \in 1 .. Len(sent) /\ p.ts \in Nat
      /\ First(p) \in Nat /\ Behind(p) \in Nat /\ First(p) < Behind(p)
  BY PacketFacts
<1>3. \A q \in net' : q.ts > p.ts \/ (q.ts = p.ts /\ Behind(p) <= First(q))
  BY <1>1, BehindOldest
<1>4. Flows(p.ts)
  BY <1>1, <1>2 DEF Flow, Arrival
<1>5. ASSUME NEW c \in Nat, ToCome(p.ts, c) PROVE First(p) = c
  <2>1. First(p) >= c
    BY <1>5 DEF ToCome
  <2>2. CASE \E q \in net : q.ts = p.ts /\ First(q) = c
    <3>1. PICK q \in net : q.ts = p.ts /\ First(q) = c
      BY <2>2
    <3>2. CASE q = p
      BY <3>1, <3>2
    <3>3. CASE q # p
      <4>1. Behind(p) <= First(q)
        BY <1>1, <1>2, <1>3, <3>1, <3>3
      <4> QED BY <1>2, <2>1, <3>1, <4>1
    <3> QED BY <3>2, <3>3
  <2>3. CASE Sending(p.ts) /\ SenderAt = c
    <3>1. Behind(p) <= c
      BY <2>3 DEF Flow, Ordered
    <3> QED BY <1>2, <2>1, <3>1
  <2> QED BY <1>5, <2>2, <2>3 DEF ToCome, Following
<1>6. /\ Undelivered(p.ts)
      /\ \/ Waiting(p.ts) /\ First(p) = 0
         \/ Held(p.ts, frame, First(p)) /\ First(p) > 0
  <2>1. CASE Waiting(p.ts)
    <3>1. First(p) = 0
      BY <1>5, <2>1 DEF Waiting
    <3> QED BY <2>1, <3>1 DEF Waiting
  <2>2. CASE Arriving(p.ts)
    <3>1. PICK c \in 1 .. Len(Whole(p.ts)) : ToCome(p.ts, c) /\ Held(p.ts, frame, c)
      BY <2>2 DEF Arriving
    <3>2. c \in Nat /\ c > 0
      OBVIOUS
    <3>3. First(p) = c
      BY <1>5, <3>1, <3>2
    <3> QED BY <2>2, <3>1, <3>2, <3>3 DEF Arriving
  <2>3. CASE Past(p.ts)
    BY <1>2, <2>3 DEF Past
  <2> QED BY <1>4, <2>1, <2>2, <2>3 DEF Flows
<1>7. /\ \A q : First(q)' = First(q)
      /\ Behind(p)' = Behind(p) /\ SenderAt' = SenderAt /\ (Sending(p.ts)' <=> Sending(p.ts))
  BY <1>1, NetShrinks
<1>8. ASSUME ~p.marker PROVE ToCome(p.ts, Behind(p))'
  <2>1. Following(p.ts, Behind(p))
    BY <1>1, <1>8 DEF Flow, Linked
  <2>2. Following(p.ts, Behind(p))'
    <3>1. CASE \E q \in net : q.ts = p.ts /\ First(q) = Behind(p)
      <4>1. PICK q \in net : q.ts = p.ts /\ First(q) = Behind(p)
        BY <3>1
      <4>2. q # p
        BY <1>2, <4>1
      <4>3. q \in net' /\ First(q)' = Behind(p)'
        BY <1>1, <1>7, <4>1, <4>2
      <4> QED BY <4>1, <4>3 DEF Following
    <3>2. CASE Sending(p.ts) /\ SenderAt = Behind(p)
      BY <1>7, <3>2 DEF Following
    <3> QED BY <2>1, <3>1, <3>2 DEF Following
  <2>3. \A q \in net' : q.ts = p.ts => First(q)' >= Behind(p)'
    <3> SUFFICES ASSUME NEW q \in net', q.ts = p.ts PROVE First(q)' >= Behind(p)'
      OBVIOUS
    <3>1. Behind(p) <= First(q)
      BY <1>2, <1>3
    <3> QED BY <1>7, <3>1
  <2> QED BY <2>2, <2>3 DEF ToCome
<1>9. ASSUME p.marker PROVE ~Sending(p.ts) /\ \A q \in net' : q.ts > p.ts
  <2>1. Behind(p) = Len(Whole(p.ts))
    BY <1>9, PacketFacts
  <2>2. ~Sending(p.ts)
    <3> SUFFICES ASSUME Sending(p.ts) PROVE FALSE
      OBVIOUS
    <3>1. Behind(p) <= SenderAt
      BY DEF Flow, Ordered
    <3>2. nal # 0 /\ p.ts = Len(sent)
      BY DEF Sending
    <3>3. SenderAt \in Nat /\ SenderAt < Len(Whole(Len(sent)))
      BY <3>2, SenderIs
    <3> QED BY <1>2, <2>1, <3>1, <3>2, <3>3
  <2>3. ASSUME NEW q \in net' PROVE q.ts > p.ts
    <3>1. q \in net
      BY <1>1
    <3>2. CASE q.ts = p.ts
      <4>1. Behind(p) <= First(q)
        BY <1>2, <1>3, <3>2
      <4>2. First(q) \in Nat /\ Behind(q) \in Nat /\ First(q) < Behind(q) /\ Behind(q) <= Len(Whole(q.ts))
        BY <3>1, PacketFacts
      <4> QED BY <1>2, <2>1, <3>2, <4>1, <4>2
    <3> QED BY <1>3, <3>2
  <2> QED BY <2>2, <2>3
<1> QED BY <1>1, <1>2, <1>3, <1>6, <1>8, <1>9

\* What feed makes of its buffer before it looks at the marker.
Grown(g, p) ==
    /\ Extends(g, frame, p.ts) /\ Owners(g) # {}
    /\ frame = << >> => p.ts \in Owners(g)
    /\ Len(frame) + Len(Mark(p)) + Len(Header(p)) + Len(Payload(p)) <= FrameCap =>
          g = ((frame \o Mark(p)) \o Header(p)) \o Payload(p)

\* Behind the bytes that precede it a packet of an access unit that fits makes
\* them longer by its own.
LEMMA ImageGrows ==
    ASSUME Inv, NEW p \in net, NEW g, Grown(g, p), Fits(p.ts),
           frame = SubSeq(Whole(p.ts), 1, First(p)), Owners(frame) \subseteq {p.ts}
    PROVE  g = SubSeq(Whole(p.ts), 1, Behind(p)) /\ Owners(g) = {p.ts}
<1>1. PICK unit : unit = sent[p.ts]
  OBVIOUS
<1>2. p \in Packets /\ WellBuilt(p, unit) /\ p.ts \in 1 .. Len(sent)
  BY <1>1 DEF Inv, TypeOK, PacketsOk
<1>3. unit \in Seq(Nat) /\ Whole(p.ts) = WholeOf(p.ts, unit)
  BY <1>1, <1>2, WholeIs DEF Shapes
<1>4. First(p) = Begin(p, unit) /\ Behind(p) = Finish(p, unit)
  BY <1>1 DEF First, Behind
<1>5. frame = SubSeq(WholeOf(p.ts, unit), 1, Begin(p, unit))
  BY <1>3, <1>4
<1>6. /\ Len(frame) + Len(Mark(p)) + Len(Header(p)) + Len(Payload(p)) = Finish(p, unit)
      /\ ((frame \o Mark(p)) \o Header(p)) \o Payload(p)
            = SubSeq(WholeOf(p.ts, unit), 1, Finish(p, unit))
  BY <1>2, <1>3, <1>5, ContinuesImage
<1>7. Finish(p, unit) <= FrameCap
  <2>1. Behind(p) <= Len(Whole(p.ts)) /\ Behind(p) \in Nat /\ Len(Whole(p.ts)) \in Nat
    BY PacketFacts
  <2> QED BY <1>4, <2>1, RtpH264Assumption DEF Fits
<1>8. g = SubSeq(WholeOf(p.ts, unit), 1, Finish(p, unit))
  BY <1>6, <1>7 DEF Grown
<1>9. Owners(g) = {p.ts}
  BY DEF Grown, Extends
<1> QED BY <1>3, <1>4, <1>8, <1>9

LEMMA OwnHeld ==
    ASSUME Inv, Flow, NEW p \in net, Arrival(p), buffer = "ready", p.ts \notin disturbed',
           NEW g, Grown(g, p)
    PROVE  Held(p.ts, g, Behind(p))'
<1>1. /\ \A u : Whole(u)' = Whole(u) /\ (Fits(u)' <=> Fits(u))
      /\ Behind(p)' = Behind(p)
  BY NetShrinks DEF Arrival
<1>2. \A b : Bad(b) => Bad(b)'
  BY <1>1 DEF Bad, Arrival
<1>3. Fresh(p.ts)' => Fresh(p.ts)
  BY DEF Fresh, Arrival
<1>4. Owners(frame) \subseteq Owners(g)
  BY DEF Grown, Extends
<1>5. ASSUME Fits(p.ts), frame = SubSeq(Whole(p.ts), 1, First(p)), Owners(frame) \subseteq {p.ts}
      PROVE  Held(p.ts, g, Behind(p))'
  <2>1. g = SubSeq(Whole(p.ts), 1, Behind(p)) /\ Owners(g) = {p.ts}
    BY <1>5, ImageGrows
  <2> QED BY <1>1, <1>5, <2>1 DEF Held
<1>6. CASE Waiting(p.ts) /\ First(p) = 0
  <2>1. CASE frame = << >>
    <3>1. p.ts \in Owners(g)
      BY <2>1 DEF Grown
    <3>2. CASE Fits(p.ts)
      <4>1. PICK z \in Nat : z = 0
        OBVIOUS
      <4>2. PICK w \in Seq(ByteNames) : w = Whole(p.ts) /\ Len(w) \in Nat
        BY PacketFacts, WholeIs
      <4>3. Len(SubSeq(w, 1, z)) = z /\ SubSeq(w, 1, z) \in Seq(ByteNames)
        BY <4>1, <4>2, PrefixIs
      <4>4. SubSeq(w, 1, z) = << >>
        BY <4>1, <4>3
      <4>5. frame = SubSeq(Whole(p.ts), 1, First(p))
        BY <1>6, <2>1, <4>1, <4>2, <4>4
      <4>6. Owners(frame) \subseteq {p.ts}
        BY <2>1, OwnersOfPieces
      <4> QED BY <1>5, <3>2, <4>5, <4>6
    <3>3. CASE ~Fits(p.ts)
      BY <1>1, <3>1, <3>3 DEF Held, Bad
    <3> QED BY <3>2, <3>3
  <2>2. CASE frame # << >>
    <3>1. ~Fresh(p.ts)'
      BY <1>6, <2>2, NothingLeft
    <3>2. PICK b : b \in Owners(frame)
      BY <2>2 DEF Inv, BufferOk
    <3>3. b # p.ts
      <4>1. b < p.ts /\ p.ts \in Nat
        BY <1>6, <3>2, PacketFacts DEF Waiting
      <4> QED BY <4>1
    <3>4. b \in disturbed' /\ b \in Owners(g)
      BY <1>4, <3>2, <3>3, LeftOver
    <3> QED BY <3>1, <3>4 DEF Held, Bad
  <2> QED BY <2>1, <2>2
<1>7. CASE Held(p.ts, frame, First(p))
  <2>1. CASE Fits(p.ts) /\ frame = SubSeq(Whole(p.ts), 1, First(p)) /\ Owners(frame) = {p.ts}
    BY <1>5, <2>1
  <2>2. CASE ~(Fits(p.ts) /\ Fresh(p.ts)) /\ \E b \in Owners(frame) : Bad(b)
    <3>1. \E b \in Owners(g) : Bad(b)'
      BY <1>2, <1>4, <2>2
    <3>2. ~(Fits(p.ts)' /\ Fresh(p.ts)')
      BY <1>1, <1>3, <2>2
    <3> QED BY <3>1, <3>2 DEF Held
  <2> QED BY <1>7, <2>1, <2>2 DEF Held
<1> QED BY <1>6, <1>7, OwnIs

\* What a marked packet hands over is one access unit, or has bytes of a
\* disturbed or an oversized one.
LEMMA HandedOver ==
    ASSUME Inv, Flow, NEW p \in net, Arrival(p), buffer = "ready", p.marker,
           NEW g, Grown(g, p)
    PROVE  /\ (\E b \in Owners(g) : Bad(b)') \/ (\E b \in Owners(g) : g = Whole(b))
           /\ p.ts \notin disturbed' /\ Fits(p.ts) /\ Fresh(p.ts)' =>
                 Owners(g) = {p.ts} /\ g = Whole(p.ts)
<1>1. /\ \A u : Whole(u)' = Whole(u) /\ (Fits(u)' <=> Fits(u))
      /\ Behind(p)' = Behind(p)
  BY NetShrinks DEF Arrival
<1>2. CASE p.ts \notin disturbed'
  <2>1. Held(p.ts, g, Behind(p))'
    BY <1>2, OwnHeld
  <2>2. PICK w \in Seq(ByteNames) : w = Whole(p.ts)
    BY PacketFacts, WholeIs
  <2>3. PICK n \in Nat : n = Len(w) /\ Behind(p) = n
    BY <2>2, PacketFacts
  <2>4. SubSeq(w, 1, n) = w
    <3>1. /\ SubSeq(w, 1, n) \in Seq(ByteNames) /\ Len(SubSeq(w, 1, n)) = n
          /\ \A i \in 1 .. n : SubSeq(w, 1, n)[i] = w[i]
      BY <2>3, PrefixIs
    <3>2. PICK x \in Seq(ByteNames) : x = SubSeq(w, 1, n) /\ Len(x) = Len(w)
                                      /\ \A i \in 1 .. Len(x) : x[i] = w[i]
      BY <2>3, <3>1
    <3> QED BY <3>2, SameElements
  <2>5. CASE g = SubSeq(Whole(p.ts), 1, Behind(p)) /\ Owners(g) = {p.ts}
    <3>1. g = Whole(p.ts)
      BY <2>2, <2>3, <2>4, <2>5
    <3> QED BY <2>5, <3>1
  <2>6. CASE ~(Fits(p.ts) /\ Fresh(p.ts)') /\ \E b \in Owners(g) : Bad(b)'
    BY <2>6
  <2> QED BY <1>1, <2>1, <2>5, <2>6 DEF Held
<1>3. CASE p.ts \in disturbed'
  <2>1. CASE p.ts \in Owners(g)
    BY <1>3, <2>1 DEF Bad
  <2>2. CASE p.ts \notin Owners(g)
    <3>1. frame # << >> /\ Owners(frame) \subseteq Owners(g)
      BY <2>2 DEF Grown, Extends
    <3>2. PICK b : b \in Owners(frame)
      BY <3>1 DEF Inv, BufferOk
    <3>3. b \in Owners(g) /\ b # p.ts
      BY <2>2, <3>1, <3>2
    <3>4. b \in disturbed'
      BY <3>2, <3>3, LeftOver
    <3> QED BY <1>3, <3>3, <3>4 DEF Bad
  <2> QED BY <2>1, <2>2
<1> QED BY <1>2, <1>3

\* How the history grows.
LEMMA HistoryGrows ==
    ASSUME Inv, NEW g, NEW p \in net, Grown(g, p),
           delivered' = delivered \/ delivered' = Append(delivered, Delivery(g))
    PROVE  /\ \A u : u \notin Owners(g) =>
                 /\ Undelivered(u) => Undelivered(u)'
                 /\ OneWhole(u) => OneWhole(u)'
           /\ HistoryOk => \A i \in 1 .. Len(delivered') : delivered'[i].from \subseteq 1 .. Len(sent)
           /\ delivered' # delivered =>
                 /\ Len(delivered') = Len(delivered) + 1
                 /\ delivered'[Len(delivered')].from = Owners(g)
                 /\ delivered'[Len(delivered')].whole <=> \E b \in Owners(g) : g = Whole(b)
           /\ \A i \in 1 .. Len(delivered) : delivered'[i] = delivered[i]
<1>1. PICK d : d = Delivery(g) /\ d.from = Owners(g)
               /\ (d.whole <=> \E b \in Owners(g) : g = Whole(b))
  BY DEF Delivery
<1>2. delivered \in Seq([from : SUBSET (1 .. MaxUnits), whole : BOOLEAN])
  BY DEF Inv, TypeOK
<1>3. PICK n \in Nat : n = Len(delivered)
  BY <1>2
<1>4. Owners(g) \subseteq 1 .. Len(sent)
  <2>1. p.ts \in 1 .. Len(sent)
    BY PacketFacts
  <2> QED BY <2>1 DEF Grown, Extends, Inv, BufferOk
<1>5. CASE delivered' = delivered
  BY <1>5 DEF Undelivered, OneWhole, HistoryOk
<1>6. CASE delivered' = Append(delivered, Delivery(g))
  <2>1. /\ Len(delivered') = n + 1 /\ delivered'[n + 1] = d
        /\ \A i \in 1 .. n : delivered'[i] = delivered[i]
    <3>1. delivered' = Append(delivered, d)
      BY <1>1, <1>6
    <3> HIDE <1>1
    <3> QED BY <1>2, <1>3, <3>1
  <2>2. \A i \in 1 .. n + 1 : i \in 1 .. n \/ i = n + 1
    BY <1>3
  <2>3. ASSUME NEW u, u \notin Owners(g)
        PROVE  /\ Undelivered(u) => Undelivered(u)'
               /\ OneWhole(u) => OneWhole(u)'
    <3>1. u \notin delivered'[n + 1].from /\ delivered'[n + 1].from # {u}
      BY <1>1, <2>1, <2>3
    <3>2. Undelivered(u) => Undelivered(u)'
      BY <1>3, <2>1, <2>2, <3>1 DEF Undelivered
    <3>3. OneWhole(u) => OneWhole(u)'
      <4> SUFFICES ASSUME OneWhole(u) PROVE OneWhole(u)'
        OBVIOUS
      <4>1. PICK i \in 1 .. n :
               /\ delivered[i].from = {u} /\ delivered[i].whole
               /\ \A j \in 1 .. n : delivered[j].from = {u} => i = j
        BY <1>3 DEF OneWhole
      <4>2. i \in 1 .. n + 1 /\ delivered'[i].from = {u} /\ delivered'[i].whole
        BY <1>3, <2>1, <4>1
      <4>3. \A j \in 1 .. n + 1 : delivered'[j].from = {u} => i = j
        BY <2>1, <2>2, <3>1, <4>1
      <4> QED BY <2>1, <4>2, <4>3 DEF OneWhole
    <3> QED BY <3>2, <3>3
  <2>4. HistoryOk => \A i \in 1 .. n + 1 : delivered'[i].from \subseteq 1 .. Len(sent)
    BY <1>1, <1>3, <1>4, <2>1, <2>2 DEF HistoryOk
  <2> QED BY <1>1, <1>3, <2>1, <2>3, <2>4
<1> QED BY <1>5, <1>6

\* A packet that arrives moves its own access unit on and leaves the others.
LEMMA FeedFlows ==
    ASSUME Inv, Inv', Flow, NEW p \in net, Arrival(p), buffer = "ready"
    PROVE  /\ HistoryOk' /\ DamageIsLocal'
           /\ \A u \in 1 .. Len(sent) : u \notin disturbed' => Flows(u)'
<1>1. PICK g : /\ Grown(g, p)
               /\ p.marker => delivered' = Append(delivered, Delivery(g)) /\ frame' = << >>
               /\ ~p.marker => delivered' = delivered /\ frame' = g
  BY FeedIs DEF Arrival, Grown
<1>2. /\ UNCHANGED <<sent, nal, off>> /\ net' \in {net, net \ {p}}
      /\ disturbed \subseteq disturbed' /\ p.marker \in BOOLEAN
      /\ p.ts \in 1 .. Len(sent) /\ p.ts \in Nat
  BY PacketFacts DEF Arrival, Inv, TypeOK, Packets
<1>3. /\ \A u : /\ Sending(u)' <=> Sending(u)
                /\ Whole(u)' = Whole(u) /\ (Fits(u)' <=> Fits(u))
      /\ Behind(p)' = Behind(p)
      /\ \A u : u # p.ts => \A c : ToCome(u, c) => ToCome(u, c)'
  BY <1>2, NetShrinks
<1>4. Owners(g) \subseteq Owners(frame) \cup {p.ts}
  BY <1>1 DEF Grown, Extends
<1>5. Owners(frame') \subseteq Owners(frame) \cup {p.ts}
  <2>1. CASE p.marker
    BY <1>1, <2>1, OwnersOfPieces
  <2>2. CASE ~p.marker
    BY <1>1, <1>4, <2>2
  <2> QED BY <2>1, <2>2
<1>6. delivered' = delivered \/ delivered' = Append(delivered, Delivery(g))
  BY <1>1, <1>2
<1>7. /\ \A u : u \notin Owners(g) =>
            /\ Undelivered(u) => Undelivered(u)'
            /\ OneWhole(u) => OneWhole(u)'
      /\ HistoryOk => \A i \in 1 .. Len(delivered') : delivered'[i].from \subseteq 1 .. Len(sent)
      /\ delivered' # delivered =>
            /\ Len(delivered') = Len(delivered) + 1
            /\ delivered'[Len(delivered')].from = Owners(g)
            /\ delivered'[Len(delivered')].whole <=> \E b \in Owners(g) : g = Whole(b)
      /\ \A i \in 1 .. Len(delivered) : delivered'[i] = delivered[i]
  BY <1>1, <1>6, HistoryGrows
<1>8. HistoryOk'
  BY <1>2, <1>7 DEF Flow, HistoryOk
<1>9. PICK n \in Nat : n = Len(delivered) /\ DOMAIN delivered = 1 .. n
  BY DEF Inv, TypeOK
<1>10. DOMAIN delivered' = 1 .. Len(delivered')
  BY DEF Inv, TypeOK
<1>11. ASSUME NEW i \in 1 .. n, \A ts \in delivered'[i].from : ts \notin disturbed' /\ Fits(ts)'
       PROVE  delivered'[i].whole
  <2>1. delivered'[i] = delivered[i] /\ i \in DOMAIN delivered
    BY <1>7, <1>9
  <2>2. \A ts \in delivered[i].from : ts \notin disturbed /\ Fits(ts)
    BY <1>2, <1>3, <1>11, <2>1
  <2> QED BY <2>1, <2>2 DEF Flow, DamageIsLocal
<1>12. DamageIsLocal'
  <2>1. CASE delivered' = delivered
    BY <1>9, <1>11, <2>1 DEF DamageIsLocal
  <2>2. CASE delivered' # delivered
    <3>1. p.marker /\ Len(delivered') = n + 1
      BY <1>1, <1>7, <1>9, <2>2
    <3>2. /\ delivered'[n + 1].from = Owners(g)
          /\ delivered'[n + 1].whole <=> \E b \in Owners(g) : g = Whole(b)
      BY <1>7, <2>2, <3>1
    <3>3. (\E b \in Owners(g) : Bad(b)') \/ (\E b \in Owners(g) : g = Whole(b))
      BY <1>1, <3>1, HandedOver
    <3>4. (\A ts \in Owners(g) : ts \notin disturbed' /\ Fits(ts)') => delivered'[n + 1].whole
      BY <3>2, <3>3 DEF Bad
    <3>5. \A i \in 1 .. n + 1 : i \in 1 .. n \/ i = n + 1
      BY <1>9
    <3> QED BY <1>10, <1>11, <3>1, <3>2, <3>4, <3>5 DEF DamageIsLocal
  <2> QED BY <2>1, <2>2
<1>13. ASSUME NEW u \in 1 .. Len(sent), u \notin disturbed', u # p.ts
       PROVE  Flows(u)'
  <2>1. ((u > p.ts /\ Waiting(u)) \/ (u < p.ts /\ Past(u))) /\ u \notin Owners(g)
    BY <1>4, <1>13, Others
  <2>2. CASE u > p.ts /\ Waiting(u)
    <3>1. ToCome(u, 0)' /\ Undelivered(u)'
      BY <1>3, <1>7, <1>13, <2>1, <2>2 DEF Waiting
    <3>2. \A b \in Owners(frame') : b < u
      BY <1>5, <2>2 DEF Waiting
    <3> QED BY <3>1, <3>2 DEF Waiting, Flows
  <2>3. CASE u < p.ts /\ Past(u)
    <3>1. \A b \in Owners(frame') : b > u
      BY <1>5, <2>3 DEF Past
    <3>2. ~Sending(u)' /\ \A q \in net' : q.ts > u
      BY <1>2, <1>3, <2>3 DEF Past
    <3>3. Fresh(u)' => Fresh(u)
      BY <1>2 DEF Fresh
    <3>4. Fits(u)' /\ Fresh(u)' => OneWhole(u)'
      BY <1>3, <1>7, <2>1, <2>3, <3>3 DEF Past
    <3> QED BY <3>1, <3>2, <3>4 DEF Past, Flows
  <2> QED BY <2>1, <2>2, <2>3
<1>14. ASSUME p.ts \notin disturbed'
       PROVE  Flows(p.ts)'
  <2>1. /\ Undelivered(p.ts)
        /\ \A q \in net' : q.ts > p.ts \/ (q.ts = p.ts /\ Behind(p) <= First(q))
        /\ ~p.marker => ToCome(p.ts, Behind(p))'
        /\ p.marker => ~Sending(p.ts) /\ \A q \in net' : q.ts > p.ts
    BY <1>14, OwnIs
  <2>2. CASE ~p.marker
    <3>1. Undelivered(p.ts)'
      BY <1>1, <2>1, <2>2 DEF Undelivered
    <3>2. Behind(p) \in 1 .. Len(Whole(p.ts))
      BY PacketFacts
    <3>3. \A q \in net' : q.ts >= p.ts
      <4>1. \A q \in net' : q.ts \in Nat
        BY <1>2, PacketFacts
      <4> QED BY <1>2, <2>1, <4>1
    <3>4. Held(p.ts, g, Behind(p))'
      BY <1>1, <1>14, OwnHeld
    <3>5. PICK c \in 1 .. Len(Whole(p.ts)') : c = Behind(p) /\ c = Behind(p)'
      BY <1>3, <3>2
    <3>6. Held(p.ts, frame, c)'
      BY <1>1, <2>2, <3>4, <3>5 DEF Held
    <3>7. ToCome(p.ts, c)'
      BY <2>1, <2>2, <3>5 DEF ToCome, Following
    <3> QED BY <3>1, <3>3, <3>5, <3>6, <3>7 DEF Arriving, Flows
  <2>3. CASE p.marker
    <3>1. ~Sending(p.ts)' /\ \A q \in net' : q.ts > p.ts
      BY <1>3, <2>1, <2>3
    <3>2. \A b \in Owners(frame') : b > p.ts
      BY <1>1, <2>3, OwnersOfPieces
    <3>3. ASSUME Fits(p.ts), Fresh(p.ts)' PROVE OneWhole(p.ts)'
      <4>1. Owners(g) = {p.ts} /\ g = Whole(p.ts)
        BY <1>1, <1>14, <2>3, <3>3, HandedOver
      <4>2. delivered' = Append(delivered, Delivery(g))
        BY <1>1, <2>3
      <4>3. delivered' # delivered
        <5>1. PICK d : d = Delivery(g)
          OBVIOUS
        <5>2. delivered' = Append(delivered, d)
          BY <4>2, <5>1
        <5> HIDE <5>1
        <5>3. delivered \in Seq([from : SUBSET (1 .. MaxUnits), whole : BOOLEAN])
          BY DEF Inv, TypeOK
        <5>4. Len(delivered') = Len(delivered) + 1 /\ Len(delivered) \in Nat
          BY <5>2, <5>3
        <5> QED BY <5>4
      <4>4. /\ Len(delivered') = n + 1
            /\ delivered'[n + 1].from = {p.ts} /\ delivered'[n + 1].whole
        BY <1>7, <1>9, <4>1, <4>3
      <4>5. \A j \in 1 .. n : delivered'[j].from # {p.ts}
        BY <1>7, <1>9, <2>1 DEF Undelivered
      <4>6. n + 1 \in 1 .. n + 1 /\ \A j \in 1 .. n + 1 : j \in 1 .. n \/ j = n + 1
        BY <1>9
      <4> QED BY <4>4, <4>5, <4>6 DEF OneWhole
    <3> QED BY <1>3, <3>1, <3>2, <3>3 DEF Past, Flows
  <2> QED BY <1>2, <2>2, <2>3
<1> QED BY <1>8, <1>12, <1>13, <1>14

\* Nothing is missing behind the packets that stay.
LEMMA StillLinked ==
    ASSUME Inv, Flow, NEW p \in net, Arrival(p)
    PROVE  Linked'
<1>1. /\ UNCHANGED <<sent, nal, off>> /\ net' \in {net, net \ {p}} /\ net' \subseteq net
      /\ disturbed \subseteq disturbed'
      /\ p.ts \notin disturbed' => Before(p) = {} /\ net' = net \ {p}
  BY DEF Arrival
<1>2. /\ \A q : First(q)' = First(q) /\ Behind(q)' = Behind(q)
      /\ \A u : Sending(u)' <=> Sending(u)
      /\ SenderAt' = SenderAt
      /\ \A u : u # p.ts => \A c : Following(u, c) => Following(u, c)'
  BY <1>1, NetShrinks
<1> SUFFICES ASSUME NEW q \in net', q.ts \notin disturbed', ~q.marker
             PROVE  Following(q.ts, Behind(q))'
  BY DEF Linked
<1>3. q \in net /\ q.ts \notin disturbed
  BY <1>1
<1>4. Following(q.ts, Behind(q))
  BY <1>3 DEF Flow, Linked
<1>5. CASE q.ts # p.ts
  <2>1. PICK c : c = Behind(q) /\ c = Behind(q)'
    BY <1>2
  <2>2. Following(q.ts, c)'
    BY <1>2, <1>4, <1>5, <2>1
  <2> QED BY <2>1, <2>2 DEF Following
<1>6. CASE q.ts = p.ts
  <2>1. Before(p) = {} /\ net' = net \ {p} /\ q # p
    BY <1>1, <1>6
  <2>2. Behind(p) <= First(q)
    <3>1. p.ts \in Nat
      BY PacketFacts
    <3> QED BY <1>3, <1>6, <2>1, <3>1, BehindOldest
  <2>3. /\ First(p) \in Nat /\ Behind(p) \in Nat /\ First(p) < Behind(p)
        /\ First(q) \in Nat /\ Behind(q) \in Nat /\ First(q) < Behind(q)
    BY <1>3, PacketFacts
  <2>4. CASE \E r \in net : r.ts = q.ts /\ First(r) = Behind(q)
    <3>1. PICK r \in net : r.ts = q.ts /\ First(r) = Behind(q)
      BY <2>4
    <3>2. r # p
      BY <2>2, <2>3, <3>1
    <3>3. r \in net' /\ First(r)' = Behind(q)'
      BY <1>2, <2>1, <3>1, <3>2
    <3> QED BY <3>1, <3>3 DEF Following
  <2>5. CASE Sending(q.ts) /\ SenderAt = Behind(q)
    BY <1>2, <2>5 DEF Following
  <2> QED BY <1>4, <2>4, <2>5 DEF Following
<1> QED BY <1>5, <1>6

LEMMA ArrivalFlows ==
    ASSUME Inv, Inv', Flow, NEW p \in net, Arrival(p)
    PROVE  Flow'
<1>1. UNCHANGED <<sent, nal, off>> /\ net' \in {net, net \ {p}} /\ disturbed \subseteq disturbed'
  BY DEF Arrival
<1>2. Ordered' /\ \A u : Fits(u)' <=> Fits(u)
  BY <1>1, NetShrinks
<1>3. Linked'
  BY StillLinked
<1>4. CASE buffer = "ready"
  <2>1. /\ HistoryOk' /\ DamageIsLocal'
        /\ \A u \in 1 .. Len(sent) : u \notin disturbed' => Flows(u)'
    BY <1>4, FeedFlows
  <2> QED BY <1>1, <1>2, <1>3, <2>1 DEF Flow
<1>5. CASE buffer # "ready"
  <2>1. UNCHANGED <<buffer, frame, len, delivered>> /\ buffer = "null"
    BY <1>5, FeedNull DEF Arrival, Inv, TypeOK
  <2>2. HistoryOk' /\ DamageIsLocal'
    BY <1>1, <1>2, <2>1 DEF Flow, HistoryOk, DamageIsLocal
  <2> QED BY <1>2, <1>3, <2>1, <2>2 DEF Flow
<1> QED BY <1>4, <1>5

\* An undisturbed access unit is still to come, arriving byte by byte behind
\* nothing or behind something left over, or past and delivered.
THEOREM FlowInvariance == Spec => []Flow
<1>1. Init => Flow
  <2> SUFFICES ASSUME Init PROVE Flow
    OBVIOUS
  <2>1. sent = << >> /\ net = {} /\ delivered = << >>
    BY DEF Init
  <2>2. 1 .. Len(sent) = {} /\ 1 .. Len(delivered) = {} /\ DOMAIN delivered = {}
    BY <2>1
  <2> QED BY <2>1, <2>2 DEF Flow, Ordered, Linked, HistoryOk, DamageIsLocal
<1>2. Inv /\ Inv' /\ Flow /\ [Next]_vars => Flow'
  <2> SUFFICES ASSUME Inv, Inv', Flow, [Next]_vars PROVE Flow'
    OBVIOUS
  <2>1. CASE StartUnit
    BY <2>1, StartFlows
  <2>2. CASE SendPacket
    BY <2>2, SendFlows
  <2>3. CASE ReassemblerInit
    BY <2>3, InitFlows
  <2>4. CASE Receive \/ Overtake \/ Repeat
    BY <2>4, ArrivalIs, ArrivalFlows
  <2>5. CASE Lose
    BY <2>5, LoseFlows
  <2>6. CASE UNCHANGED vars
    <3>1. UNCHANGED <<sent, nal, off, net, frame, delivered, disturbed, buffer>>
      BY <2>6 DEF vars, senderVars, reasmVars
    <3> QED BY <3>1, NothingFlows
  <2> QED BY <2>1, <2>2, <2>3, <2>4, <2>5, <2>6 DEF Next
<1> QED BY <1>1, <1>2, Invariance, PTL DEF Spec

\* Whatever arrives damaged, what is handed over without a byte of a disturbed
\* or an oversized access unit is exactly one access unit.
THEOREM DamageStaysLocal == Spec => []DamageIsLocal
<1>1. Flow => DamageIsLocal
  BY DEF Flow
<1> QED BY <1>1, FlowInvariance, PTL

\* And one undisturbed access unit behind another is delivered once and whole.
THEOREM AlwaysResynchronises == Spec => []Resynchronises
<1>1. Inv /\ Flow => Resynchronises
  <2> SUFFICES ASSUME Inv, Flow, buffer = "ready",
                      NEW ts \in DOMAIN sent,
                      Settled(ts), ts \notin disturbed, Fits(ts),
                      ts = 1 \/ ts - 1 \notin disturbed
               PROVE  Cardinality({i \in DOMAIN delivered :
                                      delivered[i].from = {ts} /\ delivered[i].whole}) = 1
    BY DEF Resynchronises
  <2>1. ts \in 1 .. Len(sent) /\ Len(sent) \in Nat /\ DOMAIN delivered = 1 .. Len(delivered)
    BY DEF Inv, TypeOK
  <2>2. \A c : ~Following(ts, c)
    BY <2>1 DEF Settled, Following, Sending
  <2>3. Past(ts)
    <3>1. Flows(ts)
      BY <2>1 DEF Flow
    <3> QED BY <2>2, <3>1 DEF Flows, Waiting, Arriving, ToCome
  <2>4. OneWhole(ts)
    BY <2>3 DEF Past, Fresh
  <2>5. PICK i \in 1 .. Len(delivered) :
           /\ delivered[i].from = {ts} /\ delivered[i].whole
           /\ \A j \in 1 .. Len(delivered) : delivered[j].from = {ts} => i = j
    BY <2>4 DEF OneWhole
  <2>6. {j \in DOMAIN delivered : delivered[j].from = {ts} /\ delivered[j].whole} = {i}
    BY <2>1, <2>5
  <2> QED BY <2>6, FS_Singleton
<1> QED BY <1>1, Invariance, FlowInvariance, PTL
=============================================================================
