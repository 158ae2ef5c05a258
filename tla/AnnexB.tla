------------------------------- MODULE AnnexB -------------------------------
(***************************************************************************)
(* split_nals of rtp.cpp: an H.264 Annex-B byte stream cut into its NAL    *)
(* units.  Positions count from 0 as in the code; bytes are 0, 1 and one   *)
(* value for all others, which is all that start codes tell apart.         *)
(***************************************************************************)
EXTENDS Integers, Sequences, SequencesExt, FiniteSetsExt

CONSTANTS MaxNals,      \* length of the array split_nals fills, 64
          CheckedLen,   \* bound: longest NAL unit in StreamsSplit
          CheckedNals   \* bound: NAL units in a stream of StreamsSplit

ASSUME AnnexBAssumption ==
    MaxNals \in Nat \ {0} /\ CheckedLen \in Nat /\ CheckedNals \in Nat

StartCode == <<0, 0, 1>>

\* A start code begins at position e.
StartAt(b, e) == e + 3 <= Len(b) /\ SubSeq(b, e + 1, e + 3) = StartCode

\* Where a scan for a start code from pos on stops: at one, or at the last two
\* bytes.
StartFrom(b, pos) ==
    LET found == {e \in pos .. Len(b) : StartAt(b, e)}
    IN IF found # {} THEN Min(found) ELSE Max({pos, Len(b) - 2})

\* Mutant of Trimmed: the first zero of a four-byte start code stays.
TrimmedNot(b, pos, e) == e

\* One zero before the start code at e belongs to it, or pads the stream.
Trimmed(b, pos, e) == IF e > pos /\ b[e] = 0 THEN e - 1 ELSE e

NalEnd(b, pos) ==
    LET e == StartFrom(b, pos)
    IN Trimmed(b, pos, IF StartAt(b, e) THEN e ELSE Len(b))

\* The units behind each position at which one may begin, as the loop finds them.
Nals(b) ==
    LET nals[pos \in 0 .. Len(b) + 3] ==
            IF pos >= Len(b)
            THEN << >>
            ELSE <<SubSeq(b, pos + 1, NalEnd(b, pos))>> \o nals[StartFrom(b, pos) + 3]
    IN nals

split_nals(b) ==
    LET all == Nals(b)[StartFrom(b, 0) + 3]
    IN SubSeq(all, 1, Min({Len(all), MaxNals}))

(***************************************************************************)
(* Reference: streams an encoder writes, and the units they are made of.   *)
(***************************************************************************)
Bytes == {0, 1, 2}

\* A unit starts with its header, does not end in 0, and has no three bytes
\* that emulation prevention would have changed.
Units == {u \in UNION {[1 .. n -> Bytes] : n \in 1 .. CheckedLen} :
             /\ u[1] # 0 /\ u[Len(u)] # 0
             /\ \A i \in 1 .. Len(u) - 2 : ~(u[i] = 0 /\ u[i + 1] = 0 /\ u[i + 2] < 2)}

\* Each unit behind a start code of three or four bytes.
Compose(units, four) ==
    FlattenSeq([i \in DOMAIN units |->
                   (IF i \in four THEN <<0>> ELSE << >>) \o StartCode \o units[i]])

\* split_nals returns exactly the units a stream was composed of, the first
\* MaxNals if there are more, for every mixture of start codes.
StreamsSplit ==
    \A n \in 0 .. CheckedNals :
        \A units \in [1 .. n -> Units], four \in SUBSET (1 .. n) :
            split_nals(Compose(units, four)) = SubSeq(units, 1, Min({n, MaxNals}))
============================================================================
