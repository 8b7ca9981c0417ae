------------------------- MODULE SocketRecv_proofs --------------------------
(***************************************************************************)
(* The two ends of a connection, for every size of the buffers, every set  *)
(* of packet lengths and every number of bytes the kernel holds: what Send *)
(* writes and keeps is the packets it took, whole and in order, and what   *)
(* MakeMessage hands up is the same packets again.                         *)
(*                                                                         *)
(* Recursive functions (Stream, the passes of MakeMessage) are reasoned    *)
(* about by the least counterexample, SmallestExists.                      *)
(***************************************************************************)
EXTENDS SocketRecv, SequenceTheorems, WellFoundedInduction, TLAPS

-----------------------------------------------------------------------------
(* Sequences cut in two.                                                   *)

LEMMA Cut ==
    ASSUME NEW S, NEW s \in Seq(S), NEW k \in 0 .. Len(s)
    PROVE  /\ SubSeq(s, 1, k) \in Seq(S) /\ Len(SubSeq(s, 1, k)) = k
           /\ \A i \in 1 .. k : SubSeq(s, 1, k)[i] = s[i]
           /\ SubSeq(s, k + 1, Len(s)) \in Seq(S) /\ Len(SubSeq(s, k + 1, Len(s))) = Len(s) - k
           /\ \A i \in 1 .. Len(s) - k : SubSeq(s, k + 1, Len(s))[i] = s[k + i]
           /\ SubSeq(s, 1, k) \o SubSeq(s, k + 1, Len(s)) = s
<1> DEFINE a == SubSeq(s, 1, k)  c == SubSeq(s, k + 1, Len(s))
<1>1. Len(s) \in Nat /\ k \in Nat /\ k <= Len(s) /\ \A i \in 1 .. Len(s) : s[i] \in S
    OBVIOUS
<1>2. a \in Seq(S) /\ Len(a) = k /\ \A i \in 1 .. k : a[i] = s[i]
    <2>1. \A i \in 1 .. k : s[i] \in S
        BY <1>1
    <2>2. /\ a \in Seq(S)
          /\ Len(a) = IF 1 <= k THEN k - 1 + 1 ELSE 0
          /\ \A i \in 1 .. k - 1 + 1 : a[i] = s[1 + i - 1]
        BY <1>1, <2>1, SubSeqProperties
    <2> HIDE DEF a
    <2> QED
        BY <1>1, <2>2
<1>3. c \in Seq(S) /\ Len(c) = Len(s) - k /\ \A i \in 1 .. Len(s) - k : c[i] = s[k + i]
    <2>1. \A i \in k + 1 .. Len(s) : s[i] \in S
        BY <1>1
    <2>2. /\ c \in Seq(S)
          /\ Len(c) = IF k + 1 <= Len(s) THEN Len(s) - (k + 1) + 1 ELSE 0
          /\ \A i \in 1 .. Len(s) - (k + 1) + 1 : c[i] = s[k + 1 + i - 1]
        BY <1>1, <2>1, SubSeqProperties
    <2> HIDE DEF c
    <2>3. \A i \in 1 .. Len(s) - k : i \in 1 .. Len(s) - (k + 1) + 1 /\ k + 1 + i - 1 = k + i
        BY <1>1
    <2> QED
        BY <1>1, <2>2, <2>3
<1> HIDE DEF a, c
<1>4. a \o c = s
    <2>1. /\ a \o c \in Seq(S) /\ Len(a \o c) = k + (Len(s) - k)
          /\ \A i \in 1 .. k + (Len(s) - k) : (a \o c)[i] = IF i <= k THEN a[i] ELSE c[i - k]
        <3>1. /\ a \o c \in Seq(S) /\ Len(a \o c) = Len(a) + Len(c)
              /\ \A i \in 1 .. Len(a) + Len(c) : (a \o c)[i] = IF i <= Len(a) THEN a[i] ELSE c[i - Len(a)]
            BY <1>2, <1>3, ConcatProperties
        <3> QED
            BY <1>2, <1>3, <3>1
    <2>2. \A i \in 1 .. Len(s) : (a \o c)[i] = s[i]
        <3> SUFFICES ASSUME NEW i \in 1 .. Len(s) PROVE (a \o c)[i] = s[i]
            OBVIOUS
        <3>1. i \in 1 .. k + (Len(s) - k) /\ (~ (i <= k) => i - k \in 1 .. Len(s) - k /\ k + (i - k) = i)
              /\ (i <= k => i \in 1 .. k)
            BY <1>1
        <3> QED
            BY <1>2, <1>3, <2>1, <3>1
    <2>3. Len(a \o c) = Len(s)
        BY <1>1, <2>1
    <2> QED
        BY <2>1, <2>2, <2>3, SeqEqual
<1> QED
    BY <1>2, <1>3, <1>4 DEF a, c

-----------------------------------------------------------------------------
(* CycleBuffer, for any set S of bytes.                                    *)

\* What the indices and the number of bytes held are to each other.
Agree(r, w, n) ==
    /\ r \in 0 .. SIZE /\ w \in 0 .. SIZE /\ n \in 0 .. SIZE
    /\ r < w => n = w - r
    /\ r = w => n \in {0, SIZE}
    /\ r > w => n = SIZE - r + w

Rings(S) == [0 .. SIZE - 1 -> S]

Buffers(S) ==
    {b \in [cell : Rings(S), r : 0 .. SIZE, w : 0 .. SIZE, n : 0 .. SIZE] : Consistent(b)}

\* Where byte i of those held is.
At(r, i) == IF r + i - 1 < SIZE THEN r + i - 1 ELSE r + i - 1 - SIZE

LEMMA AtIsMod ==
    ASSUME NEW x \in 0 .. 2 * SIZE - 1
    PROVE  x % SIZE = IF x < SIZE THEN x ELSE x - SIZE
<1>1. SIZE \in Nat \ {0}
    BY SizeAssumption
<1>2. CASE x < SIZE
    BY <1>1, <1>2
<1>3. CASE ~ (x < SIZE)
    BY <1>1, <1>3
<1> QED
    BY <1>2, <1>3

LEMMA BufferFacts ==
    ASSUME NEW S, NEW b \in Buffers(S)
    PROVE  /\ b = [cell |-> b.cell, r |-> b.r, w |-> b.w, n |-> b.n]
           /\ b.cell \in Rings(S) /\ Agree(b.r, b.w, b.n)
           /\ b.r \in Nat /\ b.w \in Nat /\ b.n \in Nat /\ b.n <= SIZE
BY SizeAssumption DEF Rings, Buffers, Consistent, Agree

LEMMA BufferFrom ==
    ASSUME NEW S, NEW cell \in Rings(S), NEW r, NEW w, NEW n, Agree(r, w, n)
    PROVE  [cell |-> cell, r |-> r, w |-> w, n |-> n] \in Buffers(S)
BY SizeAssumption DEF Rings, Buffers, Consistent, Agree

LEMMA AtType ==
    ASSUME NEW r \in 0 .. SIZE, NEW i \in 1 .. SIZE
    PROVE  At(r, i) \in 0 .. SIZE - 1 /\ (r + i - 1) % SIZE = At(r, i)
<1>1. r + i - 1 \in 0 .. 2 * SIZE - 1
    BY SizeAssumption
<1> QED
    BY <1>1, AtIsMod, SizeAssumption DEF At

LEMMA ContentsIs ==
    ASSUME NEW S, NEW b \in Buffers(S)
    PROVE  /\ Contents(b) \in Seq(S) /\ Len(Contents(b)) = b.n
           /\ \A i \in 1 .. b.n : At(b.r, i) \in 0 .. SIZE - 1 /\ Contents(b)[i] = b.cell[At(b.r, i)]
<1>1. b.cell \in Rings(S) /\ b.n \in Nat /\ b.r \in 0 .. SIZE
    BY BufferFacts DEF Agree
<1>2. ASSUME NEW i \in 1 .. b.n
      PROVE  At(b.r, i) \in 0 .. SIZE - 1 /\ (b.r + i - 1) % SIZE = At(b.r, i)
    <2>1. i \in 1 .. SIZE
        BY BufferFacts, SizeAssumption
    <2> QED
        BY <1>1, <2>1, AtType
<1>3. \A i \in 1 .. b.n : b.cell[(b.r + i - 1) % SIZE] \in S
    BY <1>1, <1>2 DEF Rings
<1> DEFINE n == b.n  e(i) == b.cell[(b.r + i - 1) % SIZE]
<1>4. [i \in 1 .. n |-> e(i)] \in Seq(S)
    <2>1. n \in Nat /\ \A i \in 1 .. n : e(i) \in S
        BY <1>1, <1>3
    <2> HIDE DEF n, e
    <2> QED
        BY <2>1
<1>5. Contents(b) = [i \in 1 .. n |-> e(i)]
    BY DEF Contents
<1>6. Contents(b) \in Seq(S) /\ Len(Contents(b)) = b.n
    BY <1>1, <1>4, <1>5
<1>7. \A i \in 1 .. b.n : Contents(b)[i] = b.cell[(b.r + i - 1) % SIZE]
    BY <1>5
<1> QED
    BY <1>2, <1>6, <1>7

LEMMA PutIs ==
    ASSUME NEW S, NEW cell \in Rings(S), NEW at \in Nat, NEW s \in Seq(S)
    PROVE  /\ Put(cell, at, s) \in Rings(S)
           /\ \A i \in 0 .. SIZE - 1 :
                 /\ i \in at .. at + Len(s) - 1 => Put(cell, at, s)[i] = s[i - at + 1]
                 /\ ~ (i \in at .. at + Len(s) - 1) => Put(cell, at, s)[i] = cell[i]
<1>1. \A i \in 0 .. SIZE - 1 : i \in at .. at + Len(s) - 1 => i - at + 1 \in 1 .. Len(s)
    BY SizeAssumption
<1>2. \A i \in 1 .. Len(s) : s[i] \in S
    OBVIOUS
<1> QED
    BY <1>1, <1>2 DEF Put, Rings

\* What it takes for the contents of a buffer to be a given sequence.
LEMMA ContentsAre ==
    ASSUME NEW S, NEW c \in Buffers(S), NEW s \in Seq(S), Len(s) = c.n,
           \A i \in 1 .. Len(s) : c.cell[At(c.r, i)] = s[i]
    PROVE  Contents(c) = s
<1>1. Contents(c) \in Seq(S) /\ Len(Contents(c)) = Len(s) /\ \A i \in 1 .. Len(s) : Contents(c)[i] = s[i]
    BY ContentsIs
<1> QED
    BY <1>1, SeqEqual

\* Writing m bytes behind n held, in one piece.
LEMMA StraightArithmetic ==
    ASSUME NEW r \in Nat, NEW w \in Nat, NEW n \in Nat, NEW m \in Nat, Agree(r, w, n), n + m <= SIZE,
           ~ (w >= r /\ SIZE - w < m)
    PROVE  /\ Agree(r, w + m, n + m)
           /\ \A i \in 1 .. n : ~ (At(r, i) \in w .. w + m - 1)
           /\ \A i \in n + 1 .. n + m : At(r, i) \in w .. w + m - 1 /\ At(r, i) - w + 1 = i - n
BY SizeAssumption DEF Agree, At

\* Write puts the bytes behind those held.
LEMMA WriteAppends ==
    ASSUME NEW S, NEW b \in Buffers(S), NEW s \in Seq(S), HasRoom(b, s)
    PROVE  /\ Write(b, s) \in Buffers(S) /\ Write(b, s).n = b.n + Len(s)
           /\ Contents(Write(b, s)) = Contents(b) \o s
<1>7. PICK c0 \in Rings(S), r0 \in Nat, w0 \in Nat, n0 \in Nat, m0 \in Nat :
          /\ b = [cell |-> c0, r |-> r0, w |-> w0, n |-> n0] /\ m0 = Len(s)
          /\ Agree(r0, w0, n0) /\ n0 + m0 <= SIZE
    BY BufferFacts DEF HasRoom
<1>8. b.cell = c0 /\ b.r = r0 /\ b.w = w0 /\ b.n = n0
    BY <1>7
<1>9. PICK left \in Nat : left = SIZE - w0
    BY <1>7, SizeAssumption DEF Agree
<1> DEFINE split == w0 >= r0 /\ left < m0
           s1 == SubSeq(s, 1, left)
           s2 == SubSeq(s, left + 1, Len(s))
           cell == IF split THEN Put(Put(c0, w0, s1), 0, s2) ELSE Put(c0, w0, s)
           w == IF split THEN m0 - left ELSE w0 + m0
           n == n0 + m0
<1>1. Write(b, s) = [cell |-> cell, r |-> r0, w |-> w, n |-> n]
    <2>1. Write(b, s) = [b EXCEPT !.cell = cell, !.w = w, !.n = n]
        BY <1>7, <1>8, <1>9 DEF Write
    <2> HIDE DEF cell, w, n
    <2> QED
        BY <1>7, <2>1
<1>2. /\ w0 <= SIZE /\ r0 \in 0 .. SIZE /\ Agree(r0, w0, n0) /\ n0 + m0 <= SIZE /\ Len(s) = m0
    BY <1>7 DEF Agree
<1>4. /\ cell \in Rings(S) /\ Agree(r0, w, n)
      /\ \A i \in 1 .. n0 : cell[At(r0, i)] = c0[At(r0, i)]
      /\ \A i \in n0 + 1 .. n0 + m0 : cell[At(r0, i)] = s[i - n0]
    <2>0. \A i \in 1 .. n0 + m0 : At(r0, i) \in 0 .. SIZE - 1
        <3>1. \A i \in 1 .. n0 + m0 : i \in 1 .. SIZE
            BY <1>2, SizeAssumption
        <3> QED
            BY <1>2, <3>1, AtType
    <2>1. CASE ~ split
        <3>1. /\ Agree(r0, w0 + m0, n)
              /\ \A i \in 1 .. n0 : ~ (At(r0, i) \in w0 .. w0 + m0 - 1)
              /\ \A i \in n0 + 1 .. n0 + m0 :
                    At(r0, i) \in w0 .. w0 + m0 - 1 /\ At(r0, i) - w0 + 1 = i - n0
            BY <1>2, <1>7, <1>9, <2>1, StraightArithmetic, SMTT(30)
        <3>2. cell = Put(c0, w0, s) /\ w = w0 + m0
            BY <2>1
        <3>3. /\ cell \in Rings(S)
              /\ \A i \in 0 .. SIZE - 1 :
                    /\ i \in w0 .. w0 + m0 - 1 => cell[i] = s[i - w0 + 1]
                    /\ ~ (i \in w0 .. w0 + m0 - 1) => cell[i] = c0[i]
            <4>1. Put(c0, w0, s) \in Rings(S)
                BY <1>7, PutIs
            <4>2. ASSUME NEW i \in 0 .. SIZE - 1, i \in w0 .. w0 + Len(s) - 1
                  PROVE  Put(c0, w0, s)[i] = s[i - w0 + 1]
                BY <1>7, <4>2 DEF Put, Rings
            <4>7. ASSUME NEW i \in 0 .. SIZE - 1, ~ (i \in w0 .. w0 + Len(s) - 1)
                  PROVE  Put(c0, w0, s)[i] = c0[i]
                BY <1>7, <4>7 DEF Put, Rings
            <4> HIDE DEF cell
            <4> QED
                BY <1>2, <3>2, <4>1, <4>2, <4>7
        <3> HIDE DEF cell, w, n
        <3>4. \A i \in 1 .. n0 : cell[At(r0, i)] = c0[At(r0, i)]
            <4>1. \A i \in 1 .. n0 : i \in 1 .. n0 + m0
                BY <1>2
            <4> QED
                BY <2>0, <3>1, <3>3, <4>1
        <3>5. \A i \in n0 + 1 .. n0 + m0 : cell[At(r0, i)] = s[i - n0]
            <4>1. \A i \in n0 + 1 .. n0 + m0 : i \in 1 .. n0 + m0
                BY <1>2
            <4> QED
                BY <2>0, <3>1, <3>3, <4>1
        <3> QED
            BY <3>1, <3>2, <3>3, <3>4, <3>5
    <2>2. CASE split
        <3>1. left \in 0 .. Len(s) /\ left < m0 /\ w0 >= r0
            BY <1>2, <1>9, <2>2
        <3> DEFINE inner == Put(c0, w0, s1)
        <3>9. PICK m2 \in Nat : m2 = m0 - left
            BY <3>1
        <3>2. /\ s1 \in Seq(S) /\ Len(s1) = left /\ \A i \in 1 .. left : s1[i] = s[i]
              /\ s2 \in Seq(S) /\ Len(s2) = m2 /\ \A i \in 1 .. m2 : s2[i] = s[left + i]
            <4>1. /\ s1 \in Seq(S) /\ Len(s1) = left /\ \A i \in 1 .. left : s1[i] = s[i]
                  /\ s2 \in Seq(S) /\ Len(s2) = Len(s) - left
                  /\ \A i \in 1 .. Len(s) - left : s2[i] = s[left + i]
                BY <3>1, Cut
            <4> QED
                BY <1>2, <3>9, <4>1
        <3>3. /\ Agree(r0, m2, n)
              /\ \A i \in 1 .. n0 : ~ (At(r0, i) \in w0 .. w0 + left - 1) /\ ~ (At(r0, i) \in 0 .. 0 + m2 - 1)
              /\ \A i \in n0 + 1 .. n0 + left :
                    /\ At(r0, i) \in w0 .. w0 + left - 1 /\ At(r0, i) - w0 + 1 = i - n0
                    /\ ~ (At(r0, i) \in 0 .. 0 + m2 - 1)
              /\ \A i \in n0 + left + 1 .. n0 + m0 :
                    At(r0, i) \in 0 .. 0 + m2 - 1 /\ At(r0, i) - 0 + 1 = i - n0 - left
            <4>1. /\ Agree(r0, m0 - left, n)
                  /\ \A i \in 1 .. n0 : /\ ~ (At(r0, i) \in w0 .. w0 + left - 1)
                                        /\ ~ (At(r0, i) \in 0 .. 0 + (m0 - left) - 1)
                  /\ \A i \in n0 + 1 .. n0 + left :
                        /\ At(r0, i) \in w0 .. w0 + left - 1 /\ At(r0, i) - w0 + 1 = i - n0
                        /\ ~ (At(r0, i) \in 0 .. 0 + (m0 - left) - 1)
                  /\ \A i \in n0 + left + 1 .. n0 + m0 :
                        At(r0, i) \in 0 .. 0 + (m0 - left) - 1 /\ At(r0, i) - 0 + 1 = i - n0 - left
                BY <1>2, <1>9, <3>1, SizeAssumption DEF Agree, At
            <4> QED
                BY <3>9, <4>1
        <3>4. cell = Put(inner, 0, s2) /\ w = m2
            BY <2>2, <3>9
        <3> HIDE DEF s1, s2
        <3>5. /\ inner \in Rings(S)
              /\ \A i \in 0 .. SIZE - 1 :
                    /\ i \in w0 .. w0 + left - 1 => inner[i] = s1[i - w0 + 1]
                    /\ ~ (i \in w0 .. w0 + left - 1) => inner[i] = c0[i]
            <4>1. Put(c0, w0, s1) \in Rings(S)
                BY <3>2, PutIs
            <4>2. ASSUME NEW i \in 0 .. SIZE - 1, i \in w0 .. w0 + Len(s1) - 1
                  PROVE  Put(c0, w0, s1)[i] = s1[i - w0 + 1]
                BY <3>2, <4>2 DEF Put, Rings
            <4>7. ASSUME NEW i \in 0 .. SIZE - 1, ~ (i \in w0 .. w0 + Len(s1) - 1)
                  PROVE  Put(c0, w0, s1)[i] = c0[i]
                BY <3>2, <4>7 DEF Put, Rings
            <4> QED
                BY <3>2, <4>1, <4>2, <4>7
        <3> HIDE DEF inner
        <3>6. /\ cell \in Rings(S)
              /\ \A i \in 0 .. SIZE - 1 :
                    /\ i \in 0 .. 0 + m2 - 1 => cell[i] = s2[i - 0 + 1]
                    /\ ~ (i \in 0 .. 0 + m2 - 1) => cell[i] = inner[i]
            <4>3. 0 \in Nat
                OBVIOUS
            <4>4. Put(inner, 0, s2) \in Rings(S)
                BY <3>2, <3>5, <4>3, PutIs
            <4>5. ASSUME NEW i \in 0 .. SIZE - 1, i \in 0 .. 0 + Len(s2) - 1
                  PROVE  Put(inner, 0, s2)[i] = s2[i - 0 + 1]
                BY <3>2, <3>5, <4>3, <4>5 DEF Put, Rings
            <4>7. ASSUME NEW i \in 0 .. SIZE - 1, ~ (i \in 0 .. 0 + Len(s2) - 1)
                  PROVE  Put(inner, 0, s2)[i] = inner[i]
                BY <3>2, <3>5, <4>3, <4>7 DEF Put, Rings
            <4> HIDE DEF cell
            <4> QED
                BY <3>2, <3>4, <4>4, <4>5, <4>7
        <3> HIDE DEF cell, w, n
        <3>7. ASSUME NEW i \in 1 .. n0 PROVE cell[At(r0, i)] = c0[At(r0, i)]
            <4>1. i \in 1 .. n0 + m0
                BY <1>2
            <4> QED
                BY <2>0, <3>3, <3>5, <3>6, <4>1
        <3>8. ASSUME NEW i \in n0 + 1 .. n0 + m0 PROVE cell[At(r0, i)] = s[i - n0]
            <4>1. i \in 1 .. n0 + m0 /\ At(r0, i) \in 0 .. SIZE - 1
                BY <1>2, <2>0
            <4>2. CASE i \in n0 + 1 .. n0 + left
                <5>1. i - n0 \in 1 .. left
                    BY <1>2, <1>9, <4>2
                <5> QED
                    BY <3>2, <3>3, <3>5, <3>6, <4>1, <4>2, <5>1, SMTT(30)
            <4>3. CASE i \in n0 + left + 1 .. n0 + m0
                <5>1. i - n0 - left \in 1 .. m2 /\ left + (i - n0 - left) = i - n0
                    BY <1>2, <1>9, <3>9, <4>3
                <5>2. cell[At(r0, i)] = s2[i - n0 - left]
                    BY <3>3, <3>6, <4>1, <4>3
                <5> QED
                    BY <3>2, <5>1, <5>2
            <4>4. i \in n0 + 1 .. n0 + left \/ i \in n0 + left + 1 .. n0 + m0
                BY <1>2, <1>9
            <4> QED
                BY <4>2, <4>3, <4>4
        <3> QED
            BY <3>3, <3>4, <3>6, <3>7, <3>8
    <2> QED
        BY <2>1, <2>2
<1> HIDE DEF cell, w
<1>5. Write(b, s) \in Buffers(S) /\ Write(b, s).n = n /\ Write(b, s).r = r0 /\ Write(b, s).cell = cell
    BY <1>1, <1>4, <1>8, BufferFrom
<1>6. Contents(Write(b, s)) = Contents(b) \o s
    <2> DEFINE u == Contents(b) \o s  c == Contents(b)
    <2>1. /\ c \in Seq(S) /\ Len(c) = n0
          /\ \A i \in 1 .. n0 : c[i] = c0[At(r0, i)]
        BY <1>8, ContentsIs
    <2>2. /\ u \in Seq(S) /\ Len(u) = Len(c) + Len(s)
          /\ \A i \in 1 .. Len(c) + Len(s) : u[i] = IF i <= Len(c) THEN c[i] ELSE s[i - Len(c)]
        BY <2>1, ConcatProperties
    <2> HIDE DEF u, c
    <2>3. ASSUME NEW i \in 1 .. Len(u) PROVE cell[At(r0, i)] = u[i]
        <3>1. i \in 1 .. n0 + m0 /\ u[i] = IF i <= n0 THEN c[i] ELSE s[i - n0]
            BY <1>2, <2>1, <2>2
        <3>2. CASE i \in 1 .. n0
            BY <1>4, <2>1, <3>1, <3>2
        <3>3. CASE i \in n0 + 1 .. n0 + m0
            <4>1. ~ (i <= n0)
                BY <1>2, <3>3
            <4> QED
                BY <1>4, <3>1, <3>3, <4>1
        <3>4. i \in 1 .. n0 \/ i \in n0 + 1 .. n0 + m0
            BY <1>2, <3>1
        <3> QED
            BY <3>2, <3>3, <3>4
    <2>4. Len(u) = n
        BY <1>2, <2>1, <2>2
    <2>5. Contents(Write(b, s)) = u
        BY <1>5, <2>2, <2>3, <2>4, ContentsAre
    <2> QED
        BY <2>5 DEF u, c
<1> QED
    BY <1>2, <1>5, <1>6, <1>8

-----------------------------------------------------------------------------
(* Reading.                                                                *)

\* Read takes bytes from the front and leaves the rest.
LEMMA ReadKeeps ==
    ASSUME NEW S, NEW b \in Buffers(S), NEW want \in Nat
    PROVE  /\ AfterRead(b, want) \in Buffers(S) /\ AfterRead(b, want).n = b.n - ReadSize(b, want)
           /\ ReadBytes(b, want) \in Seq(S) /\ Len(ReadBytes(b, want)) = ReadSize(b, want)
           /\ ReadBytes(b, want) \o Contents(AfterRead(b, want)) = Contents(b)
<1>1. PICK c0 \in Rings(S), r0 \in Nat, w0 \in Nat, n0 \in Nat :
          /\ b = [cell |-> c0, r |-> r0, w |-> w0, n |-> n0]
          /\ Agree(r0, w0, n0)
    BY BufferFacts
<1>2. b.cell = c0 /\ b.r = r0 /\ b.w = w0 /\ b.n = n0
    BY <1>1
<1>3. PICK k \in Nat : k = ReadSize(b, want) /\ k <= n0
    BY <1>2 DEF ReadSize
<1>4. PICK left \in Nat : left = SIZE - r0
    BY <1>1, SizeAssumption DEF Agree
<1>5. PICK q \in Nat : q = IF r0 < w0 \/ k <= SIZE - r0 THEN r0 + k ELSE k - (SIZE - r0)
    BY <1>4
<1>6. /\ Agree(q, w0, n0 - k)
      /\ \A i \in 1 .. k : At(r0, i) = IF r0 < w0 \/ i <= left THEN r0 + i - 1 ELSE i - left - 1
      /\ \A i \in k + 1 .. n0 : At(r0, i) = At(q, i - k)
    <2>1. SIZE \in Nat /\ r0 <= SIZE /\ w0 <= SIZE /\ n0 <= SIZE
        BY <1>1, SizeAssumption DEF Agree
    <2>2. Agree(q, w0, n0 - k)
        BY <1>1, <1>3, <1>5, <2>1 DEF Agree
    <2>3. ASSUME NEW i \in 1 .. k
          PROVE  At(r0, i) = IF r0 < w0 \/ i <= left THEN r0 + i - 1 ELSE i - left - 1
        BY <1>1, <1>3, <1>4, <2>1 DEF Agree, At
    <2>4. ASSUME NEW i \in k + 1 .. n0 PROVE At(r0, i) = At(q, i - k)
        BY <1>1, <1>3, <1>5, <2>1 DEF Agree, At
    <2> QED
        BY <2>2, <2>3, <2>4
<1> DEFINE after == AfterRead(b, want)  got == ReadBytes(b, want)  held == Contents(b)
<1>7. after = [cell |-> c0, r |-> q, w |-> w0, n |-> n0 - k]
    <2>1. after = [b EXCEPT !.r = q, !.n = n0 - k]
        BY <1>2, <1>3, <1>5 DEF AfterRead
    <2> HIDE DEF after
    <2> QED
        BY <1>1, <2>1
<1>8. after \in Buffers(S) /\ after.n = n0 - k /\ after.cell = c0 /\ after.r = q
    BY <1>6, <1>7, BufferFrom
<1>9. held \in Seq(S) /\ Len(held) = n0 /\ \A i \in 1 .. n0 : held[i] = c0[At(r0, i)]
    BY <1>2, ContentsIs
<1>10. got \in Seq(S) /\ Len(got) = k /\ \A i \in 1 .. k : got[i] = held[i]
    <2> DEFINE e(i) == IF r0 < w0 \/ i <= left THEN c0[r0 + i - 1] ELSE c0[i - left - 1]
    <2>1. got = [i \in 1 .. k |-> e(i)]
        BY <1>2, <1>3, <1>4 DEF ReadBytes
    <2> HIDE DEF got
    <2>2. ASSUME NEW i \in 1 .. k PROVE e(i) = held[i] /\ e(i) \in S
        <3>1. i \in 1 .. n0 /\ i \in 1 .. Len(held)
            BY <1>3, <1>9
        <3>2. e(i) = c0[At(r0, i)]
            BY <1>6
        <3> HIDE DEF e, held
        <3> QED
            BY <1>9, <3>1, <3>2
    <2> HIDE DEF e, held
    <2>3. got \in Seq(S)
        BY <2>1, <2>2
    <2>4. Len(got) = k
        BY <2>1
    <2> QED
        BY <2>1, <2>2, <2>3, <2>4
<1>11. Contents(after) \in Seq(S) /\ Len(Contents(after)) = n0 - k
       /\ \A i \in 1 .. n0 - k : Contents(after)[i] = held[k + i]
    <2> DEFINE rest == Contents(after)
    <2>1. rest \in Seq(S) /\ Len(rest) = n0 - k /\ \A i \in 1 .. n0 - k : rest[i] = c0[At(q, i)]
        <3> HIDE DEF after
        <3> QED
            BY <1>8, ContentsIs
    <2> HIDE DEF rest, held
    <2>2. ASSUME NEW i \in 1 .. n0 - k PROVE rest[i] = held[k + i]
        <3>1. k + i \in k + 1 .. n0 /\ k + i \in 1 .. n0 /\ (k + i) - k = i
            BY <1>3
        <3>2. held[k + i] = c0[At(r0, k + i)]
            BY <1>9, <3>1
        <3>3. At(r0, k + i) = At(q, i)
            BY <1>6, <3>1
        <3> QED
            BY <2>1, <3>2, <3>3
    <2> QED
        BY <2>1, <2>2 DEF rest
<1> HIDE DEF after, got, held
<1>12. got \o Contents(after) = held
    <2> DEFINE rest == Contents(after)  u == got \o rest
    <2>1. u \in Seq(S) /\ Len(u) = Len(got) + Len(rest)
          /\ \A i \in 1 .. Len(got) + Len(rest) : u[i] = IF i <= Len(got) THEN got[i] ELSE rest[i - Len(got)]
        BY <1>10, <1>11, ConcatProperties
    <2>2. rest \in Seq(S) /\ Len(rest) = n0 - k /\ \A i \in 1 .. n0 - k : rest[i] = held[k + i]
        BY <1>11
    <2> HIDE DEF u, rest
    <2>3. Len(u) = n0
        BY <1>3, <1>10, <2>1, <2>2
    <2>4. ASSUME NEW i \in 1 .. n0 PROVE u[i] = held[i]
        <3>1. u[i] = IF i <= k THEN got[i] ELSE rest[i - k]
            BY <1>3, <1>10, <2>1, <2>2, SMTT(30)
        <3>2. CASE i <= k
            BY <1>10, <3>1, <3>2
        <3>3. CASE ~ (i <= k)
            <4>1. i - k \in 1 .. n0 - k /\ k + (i - k) = i
                BY <1>3, <3>3
            <4> QED
                BY <2>2, <3>1, <3>3, <4>1
        <3> QED
            BY <3>2, <3>3
    <2>5. u = held
        BY <1>9, <2>1, <2>3, <2>4, SeqEqual
    <2> QED
        BY <2>5 DEF u, rest
<1> QED
    BY <1>2, <1>3, <1>8, <1>10, <1>12 DEF after, got, held

-----------------------------------------------------------------------------
(* Sending.                                                                *)

Bytes == {Nil} \cup (Packets \X Nat)

LEMMA EmptyHolds ==
    ASSUME NEW S, NEW b \in Buffers(S), b.n = 0
    PROVE  Contents(b) = << >>
BY ContentsIs, EmptySeq

LEMMA EmptyIsBuffer ==
    ASSUME NEW S, Nil \in S
    PROVE  EmptyBuffer \in Buffers(S) /\ EmptyBuffer.n = 0
<1>1. [i \in 0 .. SIZE - 1 |-> Nil] \in Rings(S)
    BY DEF Rings
<1>2. Agree(0, 0, 0)
    BY SizeAssumption DEF Agree
<1> QED
    BY <1>1, <1>2, BufferFrom DEF EmptyBuffer

\* WriteToHead of a buffer that was read empty puts the bytes back.
LEMMA WriteToHeadEmpty ==
    ASSUME NEW S, NEW b \in Buffers(S), b.n = 0, NEW s \in Seq(S), Len(s) \in 1 .. SIZE
    PROVE  /\ WriteToHead(b, s) \in Buffers(S) /\ WriteToHead(b, s).n = Len(s)
           /\ Contents(WriteToHead(b, s)) = s
<1>1. PICK c0 \in Rings(S), r0 \in Nat, w0 \in Nat, n0 \in Nat :
          /\ b = [cell |-> c0, r |-> r0, w |-> w0, n |-> n0] /\ n0 = 0
          /\ Agree(r0, w0, n0)
    BY BufferFacts
<1>6. PICK m0 \in Nat : m0 = Len(s) /\ m0 \in 1 .. SIZE
    BY SizeAssumption
<1>2. b.cell = c0 /\ b.r = r0 /\ b.w = w0 /\ b.n = n0 /\ n0 = 0
    BY <1>1
<1>3. r0 = w0 \/ (r0 = SIZE /\ w0 = 0 /\ w0 < r0)
    BY <1>1, <1>6, SizeAssumption DEF Agree
<1>4. CASE r0 = w0
    <2>1. WriteToHead(b, s) = Write(b, s)
        BY <1>2, <1>4 DEF WriteToHead
    <2>2. HasRoom(b, s)
        BY <1>2, SizeAssumption DEF HasRoom
    <2>3. /\ Write(b, s) \in Buffers(S) /\ Write(b, s).n = b.n + Len(s)
          /\ Contents(Write(b, s)) = Contents(b) \o s
        BY <2>2, WriteAppends
    <2>4. Contents(b) \o s = s
        BY EmptyHolds, ConcatEmptySeq
    <2> QED
        BY <1>2, <2>1, <2>3, <2>4
<1>5. CASE r0 = SIZE /\ w0 = 0 /\ w0 < r0
    <2> DEFINE cell == Put(c0, SIZE - Len(s), s)
    <2>1. PICK q \in Nat : q = SIZE - m0 /\ q <= SIZE /\ m0 \in 1 .. SIZE
        BY <1>1, <1>6, SizeAssumption
    <2>2. cell = Put(c0, q, s)
        BY <1>1, <1>6, <2>1
    <2>3. WriteToHead(b, s) = [cell |-> cell, r |-> q, w |-> w0, n |-> m0]
        <3>1. /\ ~ (b.w = b.r) /\ (b.w < b.r) /\ b.r - Len(s) = q /\ b.n + Len(s) = m0
              /\ Put(b.cell, b.r - Len(s), s) = cell
            BY <1>1, <1>6, <1>2, <1>5, <2>1, <2>2
        <3> HIDE DEF cell
        <3>2. WriteToHead(b, s) = [b EXCEPT !.cell = cell, !.r = q, !.n = m0]
            BY <3>1 DEF WriteToHead
        <3> QED
            BY <1>1, <3>2
    <2> HIDE DEF cell
    <2>4. cell \in Rings(S)
        BY <1>1, <1>6, <2>1, <2>2, PutIs
    <2>5. Agree(q, w0, m0)
        BY <1>5, <2>1, SizeAssumption DEF Agree
    <2>6. /\ WriteToHead(b, s) \in Buffers(S) /\ WriteToHead(b, s).n = m0
          /\ WriteToHead(b, s).cell = cell /\ WriteToHead(b, s).r = q
        BY <2>3, <2>4, <2>5, BufferFrom
    <2>7. ASSUME NEW i \in 1 .. Len(s) PROVE cell[At(q, i)] = s[i]
        <3>1. At(q, i) = q + i - 1 /\ q + i - 1 \in 0 .. SIZE - 1
            BY <1>1, <1>6, <2>1, SizeAssumption DEF At
        <3>2. q + i - 1 \in q .. q + Len(s) - 1 /\ (q + i - 1) - q + 1 = i
            BY <1>1, <1>6, <2>1
        <3>3. PICK j \in 0 .. SIZE - 1 : j = q + i - 1
            BY <3>1
        <3>4. Put(c0, q, s)[j] = s[j - q + 1]
            BY <1>1, <1>6, <3>2, <3>3 DEF Put, Rings
        <3> QED
            BY <2>2, <3>1, <3>2, <3>3, <3>4
    <2>8. Contents(WriteToHead(b, s)) = s
        BY <1>1, <1>6, <2>6, <2>7, ContentsAre
    <2> QED
        BY <1>1, <1>6, <2>6, <2>8
<1> QED
    BY <1>3, <1>4, <1>5

\* What nWrite may return.
LEMMA NWriteIs ==
    ASSUME NEW k \in Nat, NEW space \in Nat, NEW o \in nWrite(k, space)
    PROVE  o.n \in 0 .. k /\ o.n <= space
BY DEF nWrite

\* However the kernel cuts a write to an empty buffer's connection, what it took
\* followed by what is kept is what was written.
LEMMA WriteBytesIs ==
    ASSUME NEW b \in Buffers(Bytes), b.n = 0, NEW s \in Seq(Bytes), Len(s) <= SIZE,
           NEW space \in Nat, NEW d \in WriteBytes(b, s, space)
    PROVE  /\ d.buf \in Buffers(Bytes) /\ d.sent \in Seq(Bytes) /\ Len(d.sent) <= space
           /\ d.sent \o Contents(d.buf) = s
<1>1. PICK o \in nWrite(Len(s), space) :
          d = [buf |-> IF o.n < Len(s) THEN WriteToHead(b, SubSeq(s, o.n + 1, Len(s))) ELSE b,
               sent |-> SubSeq(s, 1, o.n),
               failed |-> o.n < Len(s) /\ o.errno # "EAGAIN"]
    BY DEF WriteBytes
<1>2. Len(s) \in Nat /\ o.n \in 0 .. Len(s) /\ o.n <= space
    BY NWriteIs
<1>3. PICK k \in 0 .. Len(s) : k = o.n
    BY <1>2
<1> DEFINE front == SubSeq(s, 1, k)  rest == SubSeq(s, k + 1, Len(s))
<1>4. /\ front \in Seq(Bytes) /\ Len(front) = k
      /\ rest \in Seq(Bytes) /\ Len(rest) = Len(s) - k
      /\ front \o rest = s
    BY Cut, ZenonT(40)
<1>5. /\ d.buf = IF k < Len(s) THEN WriteToHead(b, rest) ELSE b
      /\ d.sent = front
    BY <1>1, <1>3
<1> HIDE DEF front, rest
<1>6. CASE k < Len(s)
    <2>1. Len(rest) \in 1 .. SIZE
        BY <1>4, <1>6, SizeAssumption
    <2>2. WriteToHead(b, rest) \in Buffers(Bytes) /\ Contents(WriteToHead(b, rest)) = rest
        BY <1>4, <2>1, WriteToHeadEmpty
    <2>3. d.buf = WriteToHead(b, rest) /\ d.sent = front
        BY <1>5, <1>6
    <2> QED
        BY <1>2, <1>3, <1>4, <2>2, <2>3
<1>7. CASE k = Len(s)
    <2>1. Contents(b) = << >>
        BY EmptyHolds
    <2>2. rest = << >>
        BY <1>4, <1>7, EmptySeq
    <2>3. d.buf = b /\ d.sent = front
        BY <1>2, <1>5, <1>7
    <2> QED
        BY <1>2, <1>3, <1>4, <2>1, <2>2, <2>3
<1>8. k < Len(s) \/ k = Len(s)
    BY <1>2
<1> QED
    BY <1>6, <1>7, <1>8

-----------------------------------------------------------------------------
(* The bytes of a sequence of packets.                                     *)

LEMMA BytesOfType ==
    ASSUME NEW p \in Packets
    PROVE  BytesOf(p) \in Seq(Bytes) /\ Len(BytesOf(p)) = p.len /\ p.len \in 1 .. SIZE
<1>1. p.len \in Nat /\ p.len \in 1 .. SIZE
    <2>1. p.len \in Lengths
        BY DEF Packets
    <2>2. Lengths \subseteq 1 .. SIZE
        BY SendAssumption
    <2>3. p.len \in 1 .. SIZE
        BY <2>1, <2>2
    <2> QED
        BY <2>3, SizeAssumption
<1>2. \A k \in 1 .. p.len : <<p, k>> \in Bytes
    BY <1>1 DEF Bytes
<1> QED
    BY <1>1, <1>2 DEF BytesOf

LEMMA SmallestExists ==
    ASSUME NEW T \in SUBSET Nat, NEW t0 \in T
    PROVE  \E n \in T : \A m \in Nat : m < n => m \notin T
<1>1. PICK n \in T : \A y \in T : <<y, n>> \notin OpToRel(<, Nat)
    BY NatLessThanWellFounded, WFMin
<1>2. \A m \in Nat : m < n => m \notin T
    BY <1>1 DEF OpToRel
<1> QED
    BY <1>2

\* f is the sequence of the sums that Stream forms.
Joined(ps, f) == f = [i \in 0 .. Len(ps) |-> IF i = 0 THEN << >> ELSE f[i - 1] \o BytesOf(ps[i])]

LEMMA JoinedOnce ==
    ASSUME NEW S, NEW ps \in Seq(S), NEW f, NEW g, Joined(ps, f), Joined(ps, g)
    PROVE  f = g
<1>1. /\ f = [i \in 0 .. Len(ps) |-> f[i]] /\ f[0] = << >>
      /\ \A i \in 1 .. Len(ps) : f[i] = f[i - 1] \o BytesOf(ps[i])
    BY DEF Joined
<1>2. /\ g = [i \in 0 .. Len(ps) |-> g[i]] /\ g[0] = << >>
      /\ \A i \in 1 .. Len(ps) : g[i] = g[i - 1] \o BytesOf(ps[i])
    BY DEF Joined
<1> DEFINE T == {i \in 0 .. Len(ps) : f[i] # g[i]}
<1>3. ASSUME NEW t \in T PROVE FALSE
    <2>1. T \in SUBSET Nat
        BY DEF T
    <2>2. PICK n \in T : \A m \in Nat : m < n => m \notin T
        BY <2>1, <1>3, SmallestExists
    <2>3. n \in 0 .. Len(ps) /\ f[n] # g[n]
        OBVIOUS
    <2>4. CASE n = 0
        BY <1>1, <1>2, <2>3, <2>4
    <2>5. CASE n \in 1 .. Len(ps)
        <3>1. n - 1 \in 0 .. Len(ps) /\ n - 1 \in Nat /\ n - 1 < n
            BY <2>5
        <3>2. f[n - 1] = g[n - 1]
            BY <2>2, <3>1
        <3> QED
            BY <1>1, <1>2, <2>3, <2>5, <3>2
    <2> QED
        BY <2>3, <2>4, <2>5
<1>4. \A i \in 0 .. Len(ps) : f[i] = g[i]
    BY <1>3
<1> QED
    BY <1>1, <1>2, <1>4

LEMMA StreamIs ==
    ASSUME NEW S, NEW ps \in Seq(S), NEW f, Joined(ps, f)
    PROVE  Stream(ps) = f[Len(ps)]
<1>1. Stream(ps) = (CHOOSE g : Joined(ps, g))[Len(ps)]
    BY DEF Stream, Joined
<1>2. \A g : Joined(ps, g) => g = f
    BY JoinedOnce
<1>3. (CHOOSE g : Joined(ps, g)) = f
    BY <1>2, Zenon
<1> QED
    BY <1>1, <1>3

LEMMA JoinedGrows ==
    ASSUME NEW S, NEW ps \in Seq(S), NEW p \in S, NEW f, Joined(ps, f)
    PROVE  \E g : Joined(Append(ps, p), g) /\ g[Len(ps) + 1] = f[Len(ps)] \o BytesOf(p)
<1> DEFINE qs == Append(ps, p)  n == Len(ps)
           g == [i \in 0 .. n + 1 |-> IF i = n + 1 THEN f[n] \o BytesOf(p) ELSE f[i]]
<1>1. n \in Nat /\ Len(qs) = n + 1 /\ qs[n + 1] = p /\ \A i \in 1 .. n : qs[i] = ps[i]
    OBVIOUS
<1>2. f[0] = << >> /\ \A i \in 1 .. n : f[i] = f[i - 1] \o BytesOf(ps[i])
    BY DEF Joined
<1> DEFINE h(i) == IF i = 0 THEN << >> ELSE g[i - 1] \o BytesOf(qs[i])
<1>3. \A i \in 0 .. n + 1 : g[i] = IF i = n + 1 THEN f[n] \o BytesOf(p) ELSE f[i]
    OBVIOUS
<1> HIDE DEF g, qs, n
<1>8. n + 1 \in 0 .. n + 1 /\ g[n + 1] = f[n] \o BytesOf(p)
    <2>1. n \in Nat
        BY <1>1
    <2>2. n + 1 \in 0 .. n + 1
        BY <2>1
    <2> QED
        BY <1>3, <2>2
<1>9. n \in 0 .. n + 1 /\ g[n] = f[n]
    BY <1>1, <1>3
<1>4. ASSUME NEW i \in 0 .. n + 1
      PROVE  g[i] = IF i = 0 THEN << >> ELSE g[i - 1] \o BytesOf(qs[i])
    <2>1. CASE i = 0
        BY <1>1, <1>2, <1>3, <2>1
    <2>2. CASE i \in 1 .. n
        <3>1. g[i - 1] = f[i - 1] /\ g[i] = f[i] /\ i # 0
            BY <1>1, <1>3, <2>2
        <3> QED
            BY <1>1, <1>2, <2>2, <3>1
    <2>3. CASE i = n + 1
        <3>1. i - 1 = n /\ i # 0 /\ qs[i] = p
            BY <1>1, <2>3
        <3> QED
            BY <1>8, <1>9, <2>3, <3>1
    <2> QED
        BY <1>1, <2>1, <2>2, <2>3
<1>5. g = [i \in 0 .. n + 1 |-> g[i]]
    BY DEF g
<1>6. Joined(qs, g)
    BY <1>1, <1>4, <1>5 DEF Joined
<1> QED
    BY <1>6, <1>8 DEF qs, n

LEMMA JoinedExists ==
    ASSUME NEW S, NEW ps \in Seq(S)
    PROVE  \E f : Joined(ps, f)
<1> DEFINE T == {n \in Nat : \E qs \in Seq(S) : Len(qs) = n /\ ~ \E f : Joined(qs, f)}
<1>1. ASSUME NEW t \in T PROVE FALSE
    <2>1. T \in SUBSET Nat
        BY DEF T
    <2>2. PICK n \in T : \A m \in Nat : m < n => m \notin T
        BY <2>1, <1>1, SmallestExists
    <2>3. PICK qs \in Seq(S) : Len(qs) = n /\ ~ \E f : Joined(qs, f)
        OBVIOUS
    <2>4. CASE n = 0
        <3> DEFINE f == [i \in 0 .. 0 |-> << >>]
        <3>1. Joined(qs, f)
            BY <2>3, <2>4 DEF Joined
        <3> QED
            BY <2>3, <3>1
    <2>5. CASE n # 0
        <3> DEFINE front == SubSeq(qs, 1, n - 1)
        <3>1. n \in Nat /\ n - 1 \in 0 .. Len(qs) /\ n - 1 \in Nat /\ n - 1 < n
            BY <2>3, <2>5
        <3>2. front \in Seq(S) /\ Len(front) = n - 1
            BY <3>1, Cut
        <3>3. qs = Append(front, qs[n]) /\ qs[n] \in S
            BY <2>3, <3>1
        <3> HIDE DEF front
        <3>4. PICK f : Joined(front, f)
            <4>1. n - 1 \notin T
                BY <2>2, <3>1
            <4> QED
                BY <3>1, <3>2, <4>1
        <3>5. PICK g : Joined(Append(front, qs[n]), g)
            BY <3>2, <3>3, <3>4, JoinedGrows
        <3> QED
            BY <2>3, <3>3, <3>5
    <2> QED
        BY <2>4, <2>5
<1>2. Len(ps) \in Nat
    OBVIOUS
<1> QED
    BY <1>1, <1>2

LEMMA StreamEmpty == Stream(<< >>) = << >>
<1> DEFINE f == [i \in 0 .. 0 |-> << >>]
<1>1. << >> \in Seq(Nat) /\ Len(<< >>) = 0
    OBVIOUS
<1>2. Joined(<< >>, f)
    BY <1>1 DEF Joined
<1>3. f[0] = << >>
    OBVIOUS
<1> HIDE DEF f
<1> QED
    BY <1>1, <1>2, <1>3, StreamIs

LEMMA StreamAppend ==
    ASSUME NEW S, NEW ps \in Seq(S), NEW p \in S
    PROVE  Stream(Append(ps, p)) = Stream(ps) \o BytesOf(p)
<1>1. PICK f : Joined(ps, f)
    BY JoinedExists
<1>2. PICK g : Joined(Append(ps, p), g) /\ g[Len(ps) + 1] = f[Len(ps)] \o BytesOf(p)
    BY <1>1, JoinedGrows
<1>3. Append(ps, p) \in Seq(S) /\ Len(Append(ps, p)) = Len(ps) + 1
    OBVIOUS
<1>4. Stream(ps) = f[Len(ps)]
    BY <1>1, StreamIs
<1>5. Stream(Append(ps, p)) = g[Len(ps) + 1]
    BY <1>2, <1>3, StreamIs
<1> QED
    BY <1>2, <1>4, <1>5

-----------------------------------------------------------------------------
(* The sending side.                                                       *)

LEMMA Regroup ==
    ASSUME NEW x \in Seq(Bytes), NEW y \in Seq(Bytes), NEW z \in Seq(Bytes)
    PROVE  (x \o y) \o z = x \o (y \o z)
BY ConcatAssociative

\* StreamIntact is not inductive alone: what a step does to the bytes kept is
\* known of a buffer whose indices agree with its size, and a connection that
\* becomes available must have nothing kept or taken from before.
SendInv ==
    /\ m_stSendBuffer \in Buffers(Bytes) /\ wire \in Seq(Bytes) /\ taken \in Seq(Packets)
    /\ room \in Nat /\ packets \in Nat
    /\ m_nSocketStatus # "available" => wire = << >> /\ taken = << >> /\ m_stSendBuffer.n = 0
    /\ KeptIsArmed
    /\ StreamIntact

LEMMA FlushIs ==
    ASSUME SendInv, NEW f \in Flush
    PROVE  /\ f.buf \in Buffers(Bytes) /\ f.sent \in Seq(Bytes)
           /\ f.sent \o Contents(f.buf) = Contents(m_stSendBuffer)
           /\ Len(f.sent) <= room /\ room - Len(f.sent) \in Nat
<1> DEFINE b == m_stSendBuffer  s == ReadBytes(b, SIZE)  c == AfterRead(b, SIZE)
<1>1. b \in Buffers(Bytes) /\ room \in Nat /\ SIZE \in Nat
    BY SizeAssumption DEF SendInv
<1>2. b.n \in Nat /\ b.n <= SIZE
    BY <1>1, BufferFacts
<1>3. ReadSize(b, SIZE) = b.n
    BY <1>1, <1>2 DEF ReadSize
<1>4. c \in Buffers(Bytes) /\ c.n = 0 /\ s \in Seq(Bytes) /\ Len(s) = b.n /\ s \o Contents(c) = Contents(b)
    BY <1>1, <1>2, <1>3, ReadKeeps
<1>5. s = Contents(b)
    BY <1>4, EmptyHolds, ConcatEmptySeq
<1>6. f \in WriteBytes(c, s, room)
    BY DEF Flush
<1> HIDE DEF b, s, c
<1>7. /\ f.buf \in Buffers(Bytes) /\ f.sent \in Seq(Bytes) /\ Len(f.sent) <= room
      /\ f.sent \o Contents(f.buf) = s
    <2>1. Len(s) <= SIZE
        BY <1>2, <1>4
    <2>2. PICK c1 \in Buffers(Bytes), s1 \in Seq(Bytes), space \in Nat :
              c1 = c /\ s1 = s /\ space = room
        BY <1>1, <1>4
    <2>3. c1.n = 0 /\ Len(s1) <= SIZE /\ f \in WriteBytes(c1, s1, space)
        BY <1>4, <1>6, <2>1, <2>2
    <2>4. /\ f.buf \in Buffers(Bytes) /\ f.sent \in Seq(Bytes) /\ Len(f.sent) <= space
          /\ f.sent \o Contents(f.buf) = s1
        BY <2>3, WriteBytesIs
    <2> QED
        BY <2>2, <2>4
<1>8. Len(f.sent) \in Nat
    BY <1>7
<1> QED
    BY <1>1, <1>5, <1>7, <1>8 DEF b

LEMMA CloseKeeps ==
    ASSUME CloseSocket, packets' \in Nat
    PROVE  SendInv'
<1>1. /\ m_stSendBuffer' \in Buffers(Bytes) /\ m_stSendBuffer'.n = 0
    BY EmptyIsBuffer DEF CloseSocket, Bytes
<1>2. Contents(m_stSendBuffer') = << >>
    BY <1>1, EmptyHolds
<1>3. /\ wire' = << >> /\ taken' = << >> /\ room' \in Nat
    BY SendAssumption DEF CloseSocket
<1>4. wire' \o Contents(m_stSendBuffer') = Stream(taken')
    BY <1>2, <1>3, StreamEmpty
<1> QED
    BY <1>1, <1>3, <1>4 DEF SendInv, KeptIsArmed, StreamIntact

\* What Sent leaves, when the bytes it is given are those kept and packets ps.
LEMMA SentKeeps ==
    ASSUME SendInv, m_nSocketStatus = "available", packets' \in Nat,
           NEW b \in Buffers(Bytes), NEW bytes \in Seq(Bytes), Sent(b, bytes),
           Len(bytes) <= room, taken' \in Seq(Packets),
           wire \o (bytes \o Contents(b)) = Stream(taken')
    PROVE  SendInv'
<1>1. /\ m_stSendBuffer' = b /\ writeEvent' = (b.n > 0) /\ wire' = wire \o bytes
      /\ room' = room - Len(bytes) /\ m_nSocketStatus' = m_nSocketStatus
    BY DEF Sent
<1>2. wire \in Seq(Bytes) /\ room \in Nat /\ Len(bytes) \in Nat
    BY DEF SendInv
<1>3. wire' \in Seq(Bytes)
    BY <1>1, <1>2, ConcatProperties
<1>4. Contents(b) \in Seq(Bytes)
    BY ContentsIs
<1>5. (wire \o bytes) \o Contents(b) = Stream(taken')
    <2>1. bytes \in Seq(Bytes)
        OBVIOUS
    <2>2. PICK x \in Seq(Bytes), y \in Seq(Bytes), z \in Seq(Bytes) : x = wire /\ y = bytes /\ z = Contents(b)
        BY <1>2, <1>4, <2>1
    <2>3. (x \o y) \o z = x \o (y \o z)
        BY Regroup
    <2> QED
        BY <2>2, <2>3
<1>6. room' \in Nat
    BY <1>1, <1>2
<1>7. KeptIsArmed'
    BY <1>1 DEF KeptIsArmed
<1> QED
    BY <1>1, <1>3, <1>5, <1>6, <1>7 DEF SendInv, StreamIntact

\* What Send of p comes to: the packet is taken and some bytes are written, or
\* the socket is closed.
Writes(p) ==
    \/ CloseSocket
    \/ \E b \in Buffers(Bytes), bytes \in Seq(Bytes) : Sent(b, bytes) /\ taken' = Append(taken, p)

LEMMA SendKeeps ==
    ASSUME SendInv, m_nSocketStatus = "available", packets' \in Nat, NEW p \in Packets, Send(p)
    PROVE  SendInv' /\ Writes(p)
<1> DEFINE s == BytesOf(p)
<1>1. s \in Seq(Bytes) /\ Len(s) = p.len /\ p.len \in 1 .. SIZE
    BY BytesOfType
<1>2. taken \in Seq(Packets) /\ Append(taken, p) \in Seq(Packets) /\ room \in Nat
    BY AppendProperties DEF SendInv
<1>3. Stream(Append(taken, p)) = Stream(taken) \o s /\ Stream(taken) = wire \o Contents(m_stSendBuffer)
    BY <1>2, StreamAppend DEF SendInv, StreamIntact
<1>4. wire \in Seq(Bytes)
    BY DEF SendInv
<1> HIDE DEF s
<1>5. ASSUME NEW f \in Flush, f.failed, CloseSocket PROVE SendInv' /\ Writes(p)
    BY <1>5, CloseKeeps DEF Writes
<1>6. ASSUME NEW f \in Flush, ~ f.failed, f.buf.n > 0, HasRoom(f.buf, s),
             Sent(Write(f.buf, s), f.sent), taken' = Append(taken, p)
      PROVE  SendInv' /\ Writes(p)
    <2>1. /\ f.buf \in Buffers(Bytes) /\ f.sent \in Seq(Bytes) /\ Len(f.sent) <= room
          /\ f.sent \o Contents(f.buf) = Contents(m_stSendBuffer)
        BY FlushIs
    <2>2. Write(f.buf, s) \in Buffers(Bytes) /\ Contents(Write(f.buf, s)) = Contents(f.buf) \o s
        BY <1>1, <1>6, <2>1, WriteAppends
    <2>3. Contents(f.buf) \in Seq(Bytes)
        BY <2>1, ContentsIs
    <2>4. wire \o (f.sent \o (Contents(f.buf) \o s)) = (wire \o (f.sent \o Contents(f.buf))) \o s
        <3>1. PICK v \in Seq(Bytes), x \in Seq(Bytes), y \in Seq(Bytes), z \in Seq(Bytes) :
                  v = wire /\ x = f.sent /\ y = Contents(f.buf) /\ z = s
            BY <1>1, <1>4, <2>1, <2>3
        <3>2. x \o (y \o z) = (x \o y) \o z /\ x \o y \in Seq(Bytes)
            BY Regroup, ConcatProperties
        <3>3. PICK u \in Seq(Bytes) : u = x \o y
            BY <3>2
        <3>4. (v \o u) \o z = v \o (u \o z)
            BY Regroup, SMTT(30)
        <3> QED
            BY <3>1, <3>2, <3>3, <3>4
    <2>5. wire \o (f.sent \o Contents(Write(f.buf, s))) = Stream(taken')
        BY <1>3, <1>6, <2>1, <2>2, <2>4
    <2>6. SendInv'
        BY <1>2, <1>6, <2>1, <2>2, <2>5, SentKeeps
    <2> QED
        BY <1>6, <2>1, <2>2, <2>6 DEF Writes
<1>7. ASSUME NEW f \in Flush, ~ f.failed, f.buf.n = 0,
             NEW d \in WriteBytes(f.buf, s, room - Len(f.sent)), ~ d.failed,
             Sent(d.buf, f.sent \o d.sent), taken' = Append(taken, p)
      PROVE  SendInv' /\ Writes(p)
    <2>1. /\ f.buf \in Buffers(Bytes) /\ f.sent \in Seq(Bytes) /\ Len(f.sent) <= room
          /\ f.sent \o Contents(f.buf) = Contents(m_stSendBuffer) /\ room - Len(f.sent) \in Nat
        BY FlushIs
    <2>2. f.sent = Contents(m_stSendBuffer)
        BY <1>7, <2>1, EmptyHolds, ConcatEmptySeq
    <2>3. /\ d.buf \in Buffers(Bytes) /\ d.sent \in Seq(Bytes) /\ Len(d.sent) <= room - Len(f.sent)
          /\ d.sent \o Contents(d.buf) = s
        <3>1. Len(s) <= SIZE
            BY <1>1, SizeAssumption
        <3>2. PICK space \in Nat : space = room - Len(f.sent)
            BY <2>1
        <3>3. d \in WriteBytes(f.buf, s, space)
            BY <1>7, <3>2
        <3>4. PICK c1 \in Buffers(Bytes), s1 \in Seq(Bytes) : c1 = f.buf /\ s1 = s
            BY <1>1, <2>1
        <3>5. c1.n = 0 /\ Len(s1) <= SIZE /\ d \in WriteBytes(c1, s1, space)
            BY <1>7, <3>1, <3>3, <3>4
        <3>6. /\ d.buf \in Buffers(Bytes) /\ d.sent \in Seq(Bytes) /\ Len(d.sent) <= space
              /\ d.sent \o Contents(d.buf) = s1
            BY <3>5, WriteBytesIs
        <3> QED
            BY <3>2, <3>4, <3>6
    <2> DEFINE x == f.sent  y == d.sent  z == Contents(d.buf)
    <2>4. x \in Seq(Bytes) /\ y \in Seq(Bytes) /\ z \in Seq(Bytes)
        BY <2>1, <2>3, ContentsIs
    <2>5. x \o y \in Seq(Bytes) /\ Len(x \o y) <= room
        <3>1. Len(x \o y) = Len(x) + Len(y) /\ x \o y \in Seq(Bytes)
            BY <2>4, ConcatProperties
        <3>2. Len(x) \in Nat /\ Len(y) \in Nat
            BY <2>4
        <3> HIDE DEF x, y
        <3>3. Len(y) <= room - Len(x)
            BY <2>3 DEF x, y
        <3> QED
            BY <1>2, <3>1, <3>2, <3>3
    <2>6. wire \o ((x \o y) \o z) = (wire \o x) \o s
        <3>1. PICK v \in Seq(Bytes), x1 \in Seq(Bytes), y1 \in Seq(Bytes), z1 \in Seq(Bytes), s1 \in Seq(Bytes) :
                  v = wire /\ x1 = x /\ y1 = y /\ z1 = z /\ s1 = s
            BY <1>1, <1>4, <2>4
        <3>2. y1 \o z1 = s1
            BY <2>3, <3>1
        <3>3. (x1 \o y1) \o z1 = x1 \o (y1 \o z1)
            BY Regroup
        <3>4. (v \o x1) \o s1 = v \o (x1 \o s1)
            BY Regroup, ZenonT(40)
        <3> HIDE DEF x, y, z
        <3> QED
            BY <3>1, <3>2, <3>3, <3>4
    <2>7. wire \o ((x \o y) \o Contents(d.buf)) = Stream(taken')
        BY <1>3, <1>7, <2>2, <2>6
    <2>8. SendInv'
        BY <1>2, <1>7, <2>3, <2>5, <2>7, SentKeeps
    <2> QED
        BY <1>7, <2>3, <2>5, <2>8 DEF Writes
<1>8. \/ CloseSocket
      \/ \E f \in Flush :
            /\ ~ f.failed /\ f.buf.n > 0 /\ HasRoom(f.buf, s)
            /\ Sent(Write(f.buf, s), f.sent) /\ taken' = Append(taken, p)
      \/ \E f \in Flush :
            /\ ~ f.failed /\ f.buf.n = 0
            /\ \E d \in WriteBytes(f.buf, s, room - Len(f.sent)) :
                  ~ d.failed /\ Sent(d.buf, f.sent \o d.sent) /\ taken' = Append(taken, p)
    BY DEF Send, s
<1> QED
    BY <1>6, <1>7, <1>8, CloseKeeps DEF Writes

LEMMA SendInvInit == Init => SendInv
<1> SUFFICES ASSUME Init PROVE SendInv
    OBVIOUS
<1>1. m_stSendBuffer \in Buffers(Bytes) /\ m_stSendBuffer.n = 0
    BY EmptyIsBuffer DEF Init, Bytes
<1>2. wire = << >> /\ taken = << >> /\ room \in Nat /\ packets \in Nat
    BY SendAssumption DEF Init
<1>3. wire \o Contents(m_stSendBuffer) = Stream(taken)
    BY <1>1, <1>2, EmptyHolds, StreamEmpty
<1> QED
    BY <1>1, <1>2, <1>3 DEF SendInv, KeptIsArmed, StreamIntact

\* OnConnected: nothing can be kept yet.
LEMMA ConnectedKeeps ==
    ASSUME SendInv, Connected, m_nSocketStatus # "available", packets' \in Nat
    PROVE  SendInv'
<1>1. UNCHANGED <<m_stSendBuffer, wire, taken, room>>
    BY DEF Connected
<1>2. m_stSendBuffer.n = 0
    BY DEF SendInv
<1>3. KeptIsArmed'
    <2>1. m_stSendBuffer'.n = 0
        BY <1>1, <1>2
    <2> QED
        BY <2>1 DEF KeptIsArmed
<1> QED
    BY <1>1, <1>2, <1>3 DEF Connected, SendInv, StreamIntact

LEMMA SendInvNext == SendInv /\ [Next]_vars => SendInv'
<1> SUFFICES ASSUME SendInv, [Next]_vars PROVE SendInv'
    OBVIOUS
<1>1. CASE ConnectPeerNode
    <2>1. UNCHANGED <<m_stSendBuffer, wire, taken, room, packets>> /\ m_nSocketStatus = "closed"
        BY <1>1 DEF ConnectPeerNode
    <2>2. m_stSendBuffer'.n = 0 /\ wire' = << >> /\ taken' = << >>
        BY <2>1 DEF SendInv
    <2>3. KeptIsArmed'
        BY <2>2 DEF KeptIsArmed
    <2> QED
        BY <2>1, <2>2, <2>3 DEF SendInv, StreamIntact
<1>2. CASE ConnectionLost
    <2>1. packets' \in Nat
        BY <1>2 DEF ConnectionLost, SendInv
    <2> QED
        BY <1>2, <2>1, CloseKeeps DEF ConnectionLost
<1>3. CASE SendMessages
    <2>1. packets \in Nat /\ packets' = packets + 1 /\ packets' \in Nat /\ packets' \in 1 .. MaxPackets
        BY <1>3, SendAssumption DEF SendMessages, SendInv
    <2>2. PICK len \in Lengths :
              IF m_nSocketStatus = "available" THEN Send([no |-> packets + 1, len |-> len])
                                               ELSE SendUnconnected([no |-> packets + 1, len |-> len])
        BY <1>3 DEF SendMessages
    <2>3. PICK p \in Packets : p = [no |-> packets + 1, len |-> len]
        BY <2>1 DEF Packets
    <2>4. CASE m_nSocketStatus = "available"
        BY <2>1, <2>2, <2>3, <2>4, SendKeeps
    <2>5. CASE m_nSocketStatus # "available"
        <3>1. SendUnconnected(p)
            BY <2>2, <2>3, <2>5
        <3>2. CloseSocket \/ Connected
            BY <3>1 DEF SendUnconnected
        <3> QED
            BY <2>1, <2>5, <3>2, CloseKeeps, ConnectedKeeps
    <2> QED
        BY <2>4, <2>5
<1>4. CASE WriteEvent
    <2>1. packets' \in Nat
        BY <1>4 DEF WriteEvent, SendInv
    <2>2. CASE m_nSocketStatus = "connecting" /\ Connected
        BY <2>1, <2>2, ConnectedKeeps
    <2>3. CASE m_nSocketStatus = "available"
        <3>1. PICK f \in Flush :
                  IF f.failed THEN CloseSocket ELSE Sent(f.buf, f.sent) /\ UNCHANGED <<given, taken>>
            BY <1>4, <2>3 DEF WriteEvent
        <3>2. CASE CloseSocket
            BY <2>1, <3>2, CloseKeeps
        <3>3. CASE Sent(f.buf, f.sent) /\ taken' = taken
            <4>1. /\ f.buf \in Buffers(Bytes) /\ f.sent \in Seq(Bytes) /\ Len(f.sent) <= room
                  /\ f.sent \o Contents(f.buf) = Contents(m_stSendBuffer)
                BY FlushIs
            <4>2. wire \o Contents(m_stSendBuffer) = Stream(taken) /\ taken \in Seq(Packets)
                BY DEF SendInv, StreamIntact
            <4>3. wire \o (f.sent \o Contents(f.buf)) = Stream(taken')
                BY <3>3, <4>1, <4>2
            <4> QED
                BY <2>1, <2>3, <3>3, <4>1, <4>2, <4>3, SentKeeps
        <3> QED
            BY <3>1, <3>2, <3>3
    <2> QED
        BY <1>4, <2>2, <2>3 DEF WriteEvent
<1>5. CASE Establish
    BY <1>5 DEF Establish, SendInv, KeptIsArmed, StreamIntact
<1>6. CASE PeerReads
    <2>1. room' \in Nat
        BY <1>6, SendAssumption DEF PeerReads, SendInv
    <2> QED
        BY <1>6, <2>1 DEF PeerReads, SendInv, KeptIsArmed, StreamIntact
<1>7. CASE UNCHANGED vars
    BY <1>7 DEF vars, SendInv, KeptIsArmed, StreamIntact
<1> QED
    BY <1>1, <1>2, <1>3, <1>4, <1>5, <1>6, <1>7 DEF Next

\* The sender's end, for every size of its buffers and every split of its
\* writes: what was kept is armed, and the stream is what was handed to it.
THEOREM SendIsIntact == Spec => []SendInv
BY SendInvInit, SendInvNext, PTL DEF Spec

-----------------------------------------------------------------------------
(* The two ends.                                                           *)

\* The bytes on their way are those of `wire` that have not arrived, and the
\* kernel has room for the others.
Balance == arrived \in Nat /\ arrived <= Len(wire) /\ room = ROOM - (Len(wire) - arrived)

LEMMA WireType ==
    ASSUME SendInv
    PROVE  wire \in Seq(Bytes) /\ Len(wire) \in Nat /\ room \in Nat
BY DEF SendInv

\* An OnRead of the two ends is a PeerReads of the sender.
LEMMA OnReadIs ==
    ASSUME SendInv, Balance, OnRead
    PROVE  PeerReads /\ Balance'
<1>1. Len(wire) \in Nat /\ room \in Nat /\ ROOM \in Nat /\ arrived \in Nat /\ SIZE \in Nat
    BY WireType, SendAssumption, SizeAssumption DEF Balance
<1>2. PICK k \in 1 .. (IF InFlight < SIZE THEN InFlight ELSE SIZE) : arrived' = arrived + k /\ room' = room + k
    BY DEF OnRead, Recv
<1>3. PICK l \in Nat, a \in Nat, r \in Nat : l = Len(wire) /\ a = arrived /\ r = room
    BY <1>1
<1>4. InFlight = l - a /\ a <= l /\ r = ROOM - (l - a)
    BY <1>3 DEF InFlight, Balance
<1>5. k \in Nat /\ 1 <= k /\ k <= l - a
    BY <1>1, <1>2, <1>3, <1>4
<1>6. r < ROOM /\ r + k \in r + 1 .. ROOM /\ a + k \in Nat /\ a + k <= l /\ r + k = ROOM - (l - (a + k))
    BY <1>1, <1>4, <1>5
<1>7. room' = r + k /\ arrived' = a + k /\ wire' = wire
    BY <1>2, <1>3 DEF OnRead
<1>8. Balance'
    BY <1>3, <1>6, <1>7 DEF Balance
<1>9. PeerReads
    BY <1>3, <1>6, <1>7 DEF OnRead, PeerReads
<1> QED
    BY <1>8, <1>9

LEMMA BalanceCleared ==
    ASSUME wire' = << >>, room' = ROOM, arrived' = 0
    PROVE  Balance'
<1>1. Len(<< >>) = 0
    OBVIOUS
<1> QED
    BY <1>1, SendAssumption DEF Balance

\* A step of the sender that does not close writes what the kernel has room for.
LEMMA BalanceSent ==
    ASSUME SendInv, Balance, arrived' = arrived, NEW bytes \in Seq(Bytes),
           wire' = wire \o bytes, room' = room - Len(bytes)
    PROVE  Balance'
<1>1. PICK l \in Nat, m \in Nat, a \in Nat, r \in Nat :
          l = Len(wire) /\ m = Len(bytes) /\ a = arrived /\ r = room
    <2>1. Len(bytes) \in Nat
        OBVIOUS
    <2> QED
        BY <2>1, WireType DEF Balance
<1>2. Len(wire') = l + m
    BY <1>1, WireType, ConcatProperties
<1>3. a <= l /\ r = ROOM - (l - a) /\ ROOM \in Nat
    BY <1>1, SendAssumption DEF Balance
<1>4. a <= l + m /\ r - m = ROOM - ((l + m) - a)
    BY <1>3
<1> QED
    BY <1>1, <1>2, <1>4 DEF Balance

\* What a step does to both ends: it closes the connection; or writes some bytes
\* and takes at most a packet, while nothing is read; or is an OnRead.
Closes == CloseSocket /\ RecvClear

Grows ==
    /\ UNCHANGED recvVars
    /\ \/ UNCHANGED <<wire, room, taken>>
       \/ \E bytes \in Seq(Bytes) :
             /\ wire' = wire \o bytes /\ room' = room - Len(bytes)
             /\ taken' = taken \/ \E p \in Packets : taken' = Append(taken, p)

LEMMA StreamStep ==
    ASSUME SendInv, Balance, [StreamNext]_streamVars
    PROVE  [Next]_vars /\ (Closes \/ Grows \/ OnRead)
<1>1. CASE Paired(ConnectPeerNode)
    <2>1. ConnectPeerNode /\ m_nSocketStatus' # "closed"
        BY <1>1 DEF Paired, ConnectPeerNode
    <2>2. UNCHANGED recvVars
        BY <1>1, <2>1 DEF Paired
    <2> QED
        BY <2>1, <2>2 DEF ConnectPeerNode, Grows, Next
<1>2. CASE Paired(ConnectionLost)
    <2>1. ConnectionLost /\ CloseSocket /\ m_nSocketStatus' = "closed"
        BY <1>2 DEF Paired, ConnectionLost, CloseSocket
    <2>2. RecvClear
        BY <1>2, <2>1 DEF Paired
    <2> QED
        BY <2>1, <2>2 DEF Closes, Next
<1>3. CASE Paired(SendMessages)
    <2>1. SendMessages
        BY <1>3 DEF Paired
    <2>2. packets \in Nat /\ packets' = packets + 1 /\ packets' \in Nat /\ packets' \in 1 .. MaxPackets
        BY <2>1, SendAssumption DEF SendMessages, SendInv
    <2>3. PICK len \in Lengths :
              IF m_nSocketStatus = "available" THEN Send([no |-> packets + 1, len |-> len])
                                               ELSE SendUnconnected([no |-> packets + 1, len |-> len])
        BY <2>1 DEF SendMessages
    <2>4. PICK p \in Packets : p = [no |-> packets + 1, len |-> len]
        BY <2>2 DEF Packets
    <2>5. CASE CloseSocket
        <3>1. RecvClear
            BY <1>3, <2>5 DEF Paired, CloseSocket
        <3> QED
            BY <2>1, <2>5, <3>1 DEF Closes, Next
    <2>6. CASE m_nSocketStatus = "available" /\ ~ CloseSocket
        <3>1. Writes(p)
            BY <2>2, <2>3, <2>4, <2>6, SendKeeps
        <3>2. PICK b \in Buffers(Bytes), bytes \in Seq(Bytes) : Sent(b, bytes) /\ taken' = Append(taken, p)
            BY <2>6, <3>1 DEF Writes
        <3>3. UNCHANGED recvVars
            BY <1>3, <2>6, <3>2 DEF Paired, Sent
        <3> QED
            BY <2>1, <3>2, <3>3 DEF Grows, Sent, Next
    <2>7. CASE m_nSocketStatus # "available" /\ ~ CloseSocket
        <3>1. Connected
            BY <2>3, <2>7 DEF SendUnconnected
        <3>2. UNCHANGED recvVars
            BY <1>3, <3>1 DEF Paired, Connected
        <3> QED
            BY <2>1, <3>1, <3>2 DEF Connected, Grows, Next
    <2> QED
        BY <2>5, <2>6, <2>7
<1>4. CASE Paired(WriteEvent)
    <2>1. WriteEvent
        BY <1>4 DEF Paired
    <2>2. CASE CloseSocket
        <3>1. RecvClear
            BY <1>4, <2>2 DEF Paired, CloseSocket
        <3> QED
            BY <2>1, <2>2, <3>1 DEF Closes, Next
    <2>3. CASE Connected
        <3>1. UNCHANGED recvVars
            BY <1>4, <2>3 DEF Paired, Connected
        <3> QED
            BY <2>1, <2>3, <3>1 DEF Connected, Grows, Next
    <2>4. CASE m_nSocketStatus = "available" /\ ~ CloseSocket /\ ~ Connected
        <3>1. PICK f \in Flush : Sent(f.buf, f.sent) /\ taken' = taken
            BY <2>1, <2>4 DEF WriteEvent
        <3>2. f.sent \in Seq(Bytes)
            BY FlushIs
        <3>3. UNCHANGED recvVars
            BY <1>4, <2>4, <3>1 DEF Paired, Sent
        <3> QED
            BY <2>1, <3>1, <3>2, <3>3 DEF Grows, Sent, Next
    <2> QED
        BY <2>1, <2>2, <2>3, <2>4 DEF WriteEvent
<1>5. CASE Paired(Establish)
    <2>1. Establish /\ m_nSocketStatus' # "closed"
        BY <1>5 DEF Paired, Establish
    <2>2. UNCHANGED recvVars
        BY <1>5, <2>1 DEF Paired
    <2> QED
        BY <2>1, <2>2 DEF Establish, Grows, Next
<1>6. CASE OnRead
    BY <1>6, OnReadIs DEF Next
<1>7. CASE UNCHANGED streamVars
    BY <1>7 DEF streamVars, vars, Grows
<1> QED
    BY <1>1, <1>2, <1>3, <1>4, <1>5, <1>6, <1>7 DEF StreamNext

LEMMA BalanceNext ==
    ASSUME SendInv, Balance, Closes \/ Grows \/ OnRead
    PROVE  Balance'
<1>1. CASE Closes
    BY <1>1, BalanceCleared DEF Closes, RecvClear, CloseSocket
<1>2. CASE Grows
    <2>1. arrived' = arrived
        BY <1>2 DEF Grows, recvVars
    <2>2. CASE UNCHANGED <<wire, room, taken>>
        BY <2>1, <2>2 DEF Balance
    <2>3. CASE \E bytes \in Seq(Bytes) : wire' = wire \o bytes /\ room' = room - Len(bytes)
        BY <2>1, <2>3, BalanceSent
    <2> QED
        BY <1>2, <2>2, <2>3 DEF Grows
<1>3. CASE OnRead
    BY <1>3, OnReadIs
<1> QED
    BY <1>1, <1>2, <1>3

LEMMA StreamStart == StreamInit => Init /\ SendInv /\ Balance
<1>1. StreamInit => Init
    BY DEF StreamInit
<1>2. Len(<< >>) = 0
    OBVIOUS
<1>3. StreamInit => Balance
    BY <1>2, SendAssumption DEF StreamInit, Init, RecvInit, Balance
<1> QED
    BY <1>1, <1>3, SendInvInit

\* Both ends of a connection together are a sender whose peer reads: what the
\* other end takes off the wire is what the kernel's room grows by, and it
\* never takes more than was written.
THEOREM EndsImplementSender == StreamSpec => ImplementsSend
<1>1. SendInv /\ Balance /\ [StreamNext]_streamVars => (SendInv /\ Balance)' /\ [Next]_vars
    BY StreamStep, BalanceNext, SendInvNext
<1> QED
    BY <1>1, StreamStart, PTL DEF StreamSpec, ImplementsSend, Spec

\* However the kernel cuts the writes, what it has taken followed by what is
\* kept is the packets taken, whole and in order: Send and SendRestData, with
\* the ring they keep the rest in, never repeat, lose or reorder a byte.
THEOREM SentIsIntact == StreamSpec => []StreamIntact
<1>1. SendInv => StreamIntact
    BY DEF SendInv
<1> QED
    BY <1>1, SendIsIntact, EndsImplementSender, PTL DEF ImplementsSend

\* Bytes are never kept without EPOLLOUT being asked for.
THEOREM KeptBytesAreArmed == StreamSpec => []KeptIsArmed
<1>1. SendInv => KeptIsArmed
    BY DEF SendInv
<1> QED
    BY <1>1, SendIsIntact, EndsImplementSender, PTL DEF ImplementsSend

-----------------------------------------------------------------------------
(* Where a packet is in the bytes of all of them.                          *)

LEMMA Elements ==
    ASSUME NEW x \in Seq(Bytes), NEW y \in Seq(Bytes)
    PROVE  /\ x \o y \in Seq(Bytes) /\ Len(x \o y) = Len(x) + Len(y)
           /\ \A i \in 1 .. Len(x) : (x \o y)[i] = x[i]
           /\ \A i \in 1 .. Len(y) : (x \o y)[Len(x) + i] = y[i]
OBVIOUS

LEMMA NoBytes ==
    ASSUME NEW x \in Seq(Bytes)
    PROVE  x \o << >> = x /\ << >> \o x = x /\ << >> \in Seq(Bytes)
BY ConcatEmptySeq

LEMMA AppendElements ==
    ASSUME NEW S, NEW ps \in Seq(S), NEW p \in S
    PROVE  /\ Append(ps, p) \in Seq(S) /\ Len(Append(ps, p)) = Len(ps) + 1
           /\ Append(ps, p)[Len(ps) + 1] = p
           /\ \A i \in 1 .. Len(ps) : Append(ps, p)[i] = ps[i]
OBVIOUS

LEMMA PrefixGrows ==
    ASSUME NEW ps \in Seq(Packets), NEW m \in Nat, m < Len(ps)
    PROVE  /\ ps[m + 1] \in Packets
           /\ SubSeq(ps, 1, m) \in Seq(Packets)
           /\ SubSeq(ps, 1, m + 1) = Append(SubSeq(ps, 1, m), ps[m + 1])
<1>1. m \in 0 .. Len(ps) /\ m + 1 \in 0 .. Len(ps) /\ m + 1 \in 1 .. Len(ps)
    OBVIOUS
<1> DEFINE a == SubSeq(ps, 1, m)  c == SubSeq(ps, 1, m + 1)  e == ps[m + 1]
<1>2. a \in Seq(Packets) /\ Len(a) = m /\ \A i \in 1 .. m : a[i] = ps[i]
    BY <1>1, Cut
<1>3. c \in Seq(Packets) /\ Len(c) = m + 1 /\ \A i \in 1 .. m + 1 : c[i] = ps[i]
    BY <1>1, Cut
<1>4. e \in Packets
    BY <1>1
<1> HIDE DEF a, c, e
<1>5. /\ Append(a, e) \in Seq(Packets) /\ Len(Append(a, e)) = m + 1 /\ Append(a, e)[m + 1] = e
      /\ \A i \in 1 .. m : Append(a, e)[i] = a[i]
    BY <1>2, <1>4, AppendElements
<1>6. ASSUME NEW i \in 1 .. m + 1 PROVE c[i] = Append(a, e)[i]
    <2>1. i \in 1 .. m \/ i = m + 1
        OBVIOUS
    <2> QED
        BY <1>2, <1>3, <1>5, <2>1 DEF e
<1>7. c = Append(a, e)
    BY <1>3, <1>5, <1>6, SeqEqual
<1> QED
    BY <1>2, <1>4, <1>7 DEF a, c, e

LEMMA StreamType ==
    ASSUME NEW ps \in Seq(Packets)
    PROVE  Stream(ps) \in Seq(Bytes)
<1> DEFINE T == {n \in Nat : \E qs \in Seq(Packets) : Len(qs) = n /\ Stream(qs) \notin Seq(Bytes)}
<1>1. ASSUME NEW t \in T PROVE FALSE
    <2>1. T \in SUBSET Nat
        BY DEF T
    <2>2. PICK n \in T : \A m \in Nat : m < n => m \notin T
        BY <2>1, <1>1, SmallestExists
    <2>3. PICK qs \in Seq(Packets) : Len(qs) = n /\ Stream(qs) \notin Seq(Bytes)
        OBVIOUS
    <2>4. CASE n = 0
        <3>1. qs = << >>
            BY <2>3, <2>4, EmptySeq
        <3> QED
            BY <2>3, <3>1, NoBytes, StreamEmpty
    <2>5. CASE n # 0
        <3> DEFINE front == SubSeq(qs, 1, n - 1)  p == qs[n]
        <3>1. n \in Nat /\ n - 1 \in 0 .. Len(qs) /\ n - 1 \in Nat /\ n - 1 < n
            BY <2>3, <2>5
        <3>2. front \in Seq(Packets) /\ Len(front) = n - 1
            BY <3>1, Cut
        <3>3. qs = Append(front, p) /\ p \in Packets
            BY <2>3, <3>1
        <3> HIDE DEF front, p
        <3>4. Stream(front) \in Seq(Bytes)
            <4>1. n - 1 \notin T
                BY <2>2, <3>1
            <4> QED
                BY <3>1, <3>2, <4>1
        <3>5. Stream(qs) = Stream(front) \o BytesOf(p) /\ BytesOf(p) \in Seq(Bytes)
            BY <3>2, <3>3, StreamAppend, BytesOfType
        <3> QED
            BY <2>3, <3>4, <3>5, Elements
    <2> QED
        BY <2>4, <2>5
<1>2. Len(ps) \in Nat
    OBVIOUS
<1> QED
    BY <1>1, <1>2

\* The bytes of the first packets come first.
LEMMA StreamPrefix ==
    ASSUME NEW ps \in Seq(Packets), NEW m \in 0 .. Len(ps)
    PROVE  \E rest \in Seq(Bytes) : Stream(ps) = Stream(SubSeq(ps, 1, m)) \o rest
<1> DEFINE T == {d \in Nat : /\ d <= Len(ps)
                             /\ ~ \E rest \in Seq(Bytes) : Stream(ps) = Stream(SubSeq(ps, 1, Len(ps) - d)) \o rest}
<1>1. ASSUME NEW t \in T PROVE FALSE
    <2>1. T \in SUBSET Nat
        BY DEF T
    <2>2. PICK d \in T : \A e \in Nat : e < d => e \notin T
        BY <2>1, <1>1, SmallestExists
    <2>3. d \in Nat /\ d <= Len(ps) /\ Len(ps) \in Nat
        OBVIOUS
    <2>4. PICK j \in Nat : j = Len(ps) - d
        BY <2>3
    <2>5. ~ \E rest \in Seq(Bytes) : Stream(ps) = Stream(SubSeq(ps, 1, j)) \o rest
        BY <2>4
    <2>6. CASE d = 0
        <3>1. SubSeq(ps, 1, j) = ps
            BY <2>3, <2>4, <2>6
        <3> QED
            BY <2>5, <3>1, StreamType, NoBytes
    <2>7. CASE d # 0
        <3>1. j < Len(ps) /\ d - 1 \in Nat /\ d - 1 < d /\ d - 1 <= Len(ps) /\ Len(ps) - (d - 1) = j + 1
            BY <2>3, <2>4, <2>7
        <3>2. PICK rest \in Seq(Bytes) : Stream(ps) = Stream(SubSeq(ps, 1, j + 1)) \o rest
            <4>1. d - 1 \notin T
                BY <2>2, <3>1
            <4>2. \E rest \in Seq(Bytes) : Stream(ps) = Stream(SubSeq(ps, 1, Len(ps) - (d - 1))) \o rest
                BY <3>1, <4>1
            <4> QED
                BY <3>1, <4>2
        <3>3. PICK front \in Seq(Packets), p \in Packets :
                  /\ front = SubSeq(ps, 1, j) /\ p = ps[j + 1]
                  /\ SubSeq(ps, 1, j + 1) = Append(front, p)
            BY <3>1, PrefixGrows
        <3>4. Stream(Append(front, p)) = Stream(front) \o BytesOf(p)
            BY StreamAppend
        <3>5. PICK x \in Seq(Bytes), y \in Seq(Bytes) : x = Stream(front) /\ y = BytesOf(p)
            BY StreamType, BytesOfType
        <3>6. Stream(ps) = (x \o y) \o rest
            BY <3>2, <3>3, <3>4, <3>5
        <3>7. (x \o y) \o rest = x \o (y \o rest)
            BY Regroup
        <3>8. y \o rest \in Seq(Bytes)
            BY Elements
        <3> QED
            BY <2>5, <3>3, <3>5, <3>6, <3>7, <3>8
    <2> QED
        BY <2>6, <2>7
<1>2. Len(ps) - m \in Nat /\ Len(ps) - m <= Len(ps) /\ Len(ps) - (Len(ps) - m) = m
    OBVIOUS
<1>3. \E rest \in Seq(Bytes) : Stream(ps) = Stream(SubSeq(ps, 1, Len(ps) - (Len(ps) - m))) \o rest
    <2>1. Len(ps) - m \notin T
        BY <1>1
    <2> QED
        BY <1>2, <2>1
<1> QED
    BY <1>2, <1>3

\* What follows the first m packets' bytes begins with the next packet's.
LEMMA NextPacket ==
    ASSUME NEW ps \in Seq(Packets), NEW m \in Nat, m < Len(ps),
           NEW x \in Seq(Bytes), NEW y \in Seq(Bytes),
           Stream(ps) = (Stream(SubSeq(ps, 1, m)) \o x) \o y
    PROVE  /\ ps[m + 1] \in Packets
           /\ \A i \in 1 .. Len(x) : i <= ps[m + 1].len => x[i] = BytesOf(ps[m + 1])[i]
<1>1. PICK front \in Seq(Packets), p \in Packets :
          /\ front = SubSeq(ps, 1, m) /\ p = ps[m + 1]
          /\ SubSeq(ps, 1, m + 1) = Append(front, p)
    BY PrefixGrows
<1>2. PICK a \in Seq(Bytes), u \in Seq(Bytes) : a = Stream(front) /\ u = BytesOf(p)
    BY StreamType, BytesOfType
<1>3. m + 1 \in 0 .. Len(ps)
    OBVIOUS
<1>4. PICK v \in Seq(Bytes) : Stream(ps) = Stream(Append(front, p)) \o v
    BY <1>1, <1>3, StreamPrefix
<1>5. (a \o x) \o y = (a \o u) \o v
    BY <1>1, <1>2, <1>4, StreamAppend
<1>6. PICK xy \in Seq(Bytes), uv \in Seq(Bytes) : xy = x \o y /\ uv = u \o v
    BY Elements
<1>7. a \o xy = a \o uv
    <2>1. (a \o x) \o y = a \o (x \o y)
        BY Regroup, ZenonT(40)
    <2>2. (a \o u) \o v = a \o (u \o v)
        BY Regroup, ZenonT(40)
    <2> QED
        BY <1>5, <1>6, <2>1, <2>2
<1>8. Len(u) = p.len /\ p.len \in Nat
    BY <1>2, BytesOfType, SizeAssumption
<1>9. ASSUME NEW i \in 1 .. Len(x), i <= p.len PROVE x[i] = u[i]
    <2>1. i \in 1 .. Len(u) /\ i \in 1 .. Len(xy) /\ i \in 1 .. Len(uv)
        <3>1. Len(xy) = Len(x) + Len(y) /\ Len(uv) = Len(u) + Len(v)
            BY <1>6, Elements
        <3>2. Len(x) \in Nat /\ Len(y) \in Nat /\ Len(u) \in Nat /\ Len(v) \in Nat
            OBVIOUS
        <3> QED
            BY <1>8, <1>9, <3>1, <3>2, SMTT(30)
    <2>2. xy[i] = x[i] /\ uv[i] = u[i]
        BY <1>6, <2>1, Elements
    <2>3. (a \o xy)[Len(a) + i] = xy[i]
        BY <2>1, Elements
    <2>4. (a \o uv)[Len(a) + i] = uv[i]
        BY <2>1, Elements
    <2> QED
        BY <1>7, <2>2, <2>3, <2>4
<1> QED
    BY <1>1, <1>2, <1>9

-----------------------------------------------------------------------------
(* MakeMessage.                                                            *)

\* W are the bytes received of a stream of packets ps: got are the packets
\* handed up, pkt what is there of the next, cur its length if it is known, and
\* buf holds the rest.
Framed(ps, W, got, cur, pkt, buf) ==
    /\ buf \in Buffers(Bytes) /\ pkt \in Seq(Bytes) /\ cur \in Nat /\ got \in Seq(Seq(Bytes))
    /\ Len(got) <= Len(ps)
    /\ \A i \in 1 .. Len(got) : got[i] = BytesOf(ps[i])
    /\ (Stream(SubSeq(ps, 1, Len(got))) \o pkt) \o Contents(buf) = W
    /\ cur = 0 => pkt = << >>
    /\ cur > 0 => Len(got) < Len(ps) /\ cur = ps[Len(got) + 1].len /\ Len(pkt) < cur

\* Moving bytes from the buffer to the packet, and handing it up when it is whole.
LEMMA PartMoves ==
    ASSUME NEW ps \in Seq(Packets), NEW W \in Seq(Bytes), NEW X \in Seq(Bytes), Stream(ps) = W \o X,
           NEW got, NEW cur, NEW pkt, NEW buf, Framed(ps, W, got, cur, pkt, buf), cur > 0,
           NEW part, part = pkt \o ReadBytes(buf, cur - Len(pkt)),
           NEW left, left = AfterRead(buf, cur - Len(pkt))
    PROVE  /\ part \in Seq(Bytes) /\ left \in Buffers(Bytes)
           /\ left.n <= buf.n /\ (buf.n > 0 => left.n < buf.n)
           /\ ~ (Len(part) >= cur) => Framed(ps, W, got, cur, part, left)
           /\ Len(part) >= cur => Framed(ps, W, Append(got, part), 0, << >>, left)
<1>1. /\ buf \in Buffers(Bytes) /\ pkt \in Seq(Bytes) /\ cur \in Nat /\ got \in Seq(Seq(Bytes))
      /\ Len(got) < Len(ps) /\ \A i \in 1 .. Len(got) : got[i] = BytesOf(ps[i])
      /\ (Stream(SubSeq(ps, 1, Len(got))) \o pkt) \o Contents(buf) = W
      /\ cur = ps[Len(got) + 1].len /\ Len(pkt) < cur
    BY DEF Framed
<1>2. PICK m \in Nat, l \in Nat : m = Len(got) /\ l = Len(pkt) /\ m < Len(ps)
    <2>1. Len(got) \in Nat
        BY <1>1
    <2>2. Len(pkt) \in Nat
        BY <1>1
    <2> QED
        BY <1>1, <2>1, <2>2
<1>3. PICK want \in Nat : want = cur - l /\ want > 0
    BY <1>1, <1>2
<1>4. /\ left \in Buffers(Bytes) /\ left.n = buf.n - ReadSize(buf, want)
      /\ ReadBytes(buf, want) \in Seq(Bytes) /\ Len(ReadBytes(buf, want)) = ReadSize(buf, want)
      /\ ReadBytes(buf, want) \o Contents(left) = Contents(buf)
    <2>1. left = AfterRead(buf, want)
        BY <1>2, <1>3
    <2> QED
        BY <1>1, <2>1, ReadKeeps
<1>5. buf.n \in Nat
    BY <1>1, BufferFacts
<1>6. PICK k \in Nat : k = ReadSize(buf, want) /\ k <= want /\ k <= buf.n /\ (buf.n > 0 => k > 0)
    <2>1. PICK h \in Nat : h = buf.n
        BY <1>5
    <2>2. ReadSize(buf, want) = IF h < want THEN h ELSE want
        BY <2>1 DEF ReadSize
    <2> QED
        BY <1>3, <2>1, <2>2, SMTT(30)
<1>7. left.n <= buf.n /\ (buf.n > 0 => left.n < buf.n)
    <2>1. left.n = buf.n - k
        BY <1>4, <1>6
    <2> QED
        BY <1>5, <1>6, <2>1
<1>8. PICK front \in Seq(Packets), p \in Packets :
          /\ front = SubSeq(ps, 1, m) /\ p = ps[m + 1]
          /\ SubSeq(ps, 1, m + 1) = Append(front, p)
    BY <1>2, PrefixGrows
<1>9. PICK a \in Seq(Bytes), x \in Seq(Bytes), y \in Seq(Bytes), z \in Seq(Bytes) :
          a = Stream(front) /\ x = pkt /\ y = ReadBytes(buf, want) /\ z = Contents(left)
    BY <1>1, <1>4, StreamType, ContentsIs
<1>10. part = x \o y /\ part \in Seq(Bytes) /\ Len(part) = l + k
    <2>1. part = x \o y
        BY <1>2, <1>3, <1>9
    <2>2. x \o y \in Seq(Bytes) /\ Len(x \o y) = Len(x) + Len(y)
        BY Elements
    <2> QED
        BY <1>2, <1>4, <1>6, <1>9, <2>1, <2>2
<1>11. (a \o part) \o z = W
    <2>1. (a \o x) \o (y \o z) = W
        BY <1>1, <1>2, <1>4, <1>8, <1>9
    <2>2. a \o (x \o y) = (a \o x) \o y
        BY Regroup, ZenonT(40)
    <2>3. PICK ax \in Seq(Bytes) : ax = a \o x
        BY Elements
    <2>4. (ax \o y) \o z = ax \o (y \o z)
        BY Regroup
    <2> QED
        BY <1>10, <2>1, <2>2, <2>3, <2>4
<1>12. ASSUME ~ (Len(part) >= cur) PROVE Framed(ps, W, got, cur, part, left)
    <2>1. (Stream(SubSeq(ps, 1, Len(got))) \o part) \o Contents(left) = W
        BY <1>2, <1>8, <1>9, <1>11
    <2>2. cur \in Nat /\ Len(part) \in Nat /\ Len(part) < cur
        <3>1. cur \in Nat
            BY <1>1
        <3> QED
            BY <1>10, <1>12, <3>1
    <2>3. Len(got) <= Len(ps) /\ ~ (cur = 0)
        BY <1>1, <2>2, <1>2, SMTT(30)
    <2> QED
        BY <1>1, <1>4, <1>10, <2>1, <2>2, <2>3 DEF Framed
<1>13. ASSUME Len(part) >= cur PROVE Framed(ps, W, Append(got, part), 0, << >>, left)
    <2>1. Len(part) = cur /\ cur = p.len
        <3>1. cur = p.len
            BY <1>1, <1>2, <1>8
        <3>2. PICK c \in Nat : c = cur
            BY <1>1
        <3>3. Len(part) = l + k /\ Len(part) >= c /\ want = c - l
            BY <1>3, <1>10, <1>13, <3>2
        <3>4. l + k = c
            BY <1>2, <1>6, <3>2, <3>3, SMTT(30)
        <3> QED
            BY <3>1, <3>2, <3>3, <3>4
    <2>2. part = BytesOf(p)
        <3>1. BytesOf(p) \in Seq(Bytes) /\ Len(BytesOf(p)) = Len(part)
            BY <2>1, BytesOfType
        <3>2. Stream(ps) = (a \o part) \o (z \o X)
            <4>1. PICK ap \in Seq(Bytes) : ap = a \o part
                BY <1>10, Elements
            <4>2. (ap \o z) \o X = ap \o (z \o X)
                BY Regroup
            <4> QED
                BY <1>11, <4>1, <4>2
        <3>3. PICK y2 \in Seq(Bytes) : y2 = z \o X
            BY Elements
        <3>4. Stream(ps) = (Stream(SubSeq(ps, 1, m)) \o part) \o y2
            BY <1>8, <1>9, <3>2, <3>3
        <3>5. \A i \in 1 .. Len(part) : i <= ps[m + 1].len => part[i] = BytesOf(ps[m + 1])[i]
            BY <1>2, <1>10, <3>4, NextPacket, ZenonT(40)
        <3>6. \A i \in 1 .. Len(part) : part[i] = BytesOf(p)[i]
            <4>1. \A i \in 1 .. Len(part) : i <= p.len
                BY <2>1
            <4> QED
                BY <1>8, <3>5, <4>1
        <3> QED
            BY <1>10, <3>1, <3>6, SeqEqual
    <2>3. Stream(SubSeq(ps, 1, m + 1)) = a \o part
        BY <1>8, <1>9, <2>2, StreamAppend
    <2>4. (a \o part) \o << >> = a \o part /\ << >> \in Seq(Bytes)
        BY <1>10, Elements, NoBytes
    <2>5. /\ Append(got, part) \in Seq(Seq(Bytes)) /\ Len(Append(got, part)) = m + 1
          /\ Append(got, part)[m + 1] = part
          /\ \A i \in 1 .. m : Append(got, part)[i] = got[i]
        <3>1. PICK S : S = Seq(Bytes)
            OBVIOUS
        <3>2. got \in Seq(S) /\ part \in S
            BY <1>1, <1>10, <3>1
        <3>3. /\ Append(got, part) \in Seq(S) /\ Len(Append(got, part)) = Len(got) + 1
              /\ Append(got, part)[Len(got) + 1] = part
              /\ \A i \in 1 .. Len(got) : Append(got, part)[i] = got[i]
            BY <3>2, AppendElements, SMTT(30)
        <3> QED
            BY <1>2, <3>1, <3>3
    <2>6. \A i \in 1 .. m + 1 : Append(got, part)[i] = BytesOf(ps[i])
        <3> SUFFICES ASSUME NEW i \in 1 .. m + 1 PROVE Append(got, part)[i] = BytesOf(ps[i])
            OBVIOUS
        <3>1. i \in 1 .. m \/ i = m + 1
            BY <1>2
        <3> QED
            BY <1>1, <1>2, <1>8, <2>2, <2>5, <3>1
    <2>7. m + 1 <= Len(ps)
        BY <1>2
    <2>8. (Stream(SubSeq(ps, 1, m + 1)) \o << >>) \o Contents(left) = W
        BY <1>9, <1>11, <2>3, <2>4
    <2> DEFINE got2 == Append(got, part)
    <2> HIDE DEF got2
    <2>9. /\ got2 \in Seq(Seq(Bytes)) /\ Len(got2) = m + 1 /\ m + 1 <= Len(ps)
          /\ \A i \in 1 .. m + 1 : got2[i] = BytesOf(ps[i])
        BY <2>5, <2>6, <2>7 DEF got2
    <2>10. (Stream(SubSeq(ps, 1, Len(got2))) \o << >>) \o Contents(left) = W
        BY <2>8, <2>9
    <2>11. Len(got2) <= Len(ps) /\ \A i \in 1 .. Len(got2) : got2[i] = BytesOf(ps[i])
        BY <2>9
    <2>12. Framed(ps, W, got2, 0, << >>, left)
        <3>1. PICK none \in Nat, e \in Seq(Bytes) : none = 0 /\ e = << >>
            BY <2>4
        <3>2. (Stream(SubSeq(ps, 1, Len(got2))) \o e) \o Contents(left) = W
            BY <2>10, <3>1
        <3>3. (none = 0 => e = << >>) /\ ~ (none > 0)
            BY <3>1
        <3>4. Framed(ps, W, got2, none, e, left)
            BY <1>4, <2>9, <2>11, <3>2, <3>3 DEF Framed
        <3> QED
            BY <3>1, <3>4
    <2> QED
        BY <2>12 DEF got2
<1> QED
    BY <1>4, <1>7, <1>10, <1>12, <1>13

\* When enough bytes are held, they begin with the length of the next packet.
LEMMA NextLength ==
    ASSUME NEW ps \in Seq(Packets), NEW W \in Seq(Bytes), NEW X \in Seq(Bytes), Stream(ps) = W \o X,
           NEW got, NEW pkt, NEW buf, Framed(ps, W, got, 0, pkt, buf), buf.n >= LenSize
    PROVE  LET y == ReadBytes(buf, LenSize)
           IN  /\ y # << >> /\ IsLength(y) /\ LengthOf(y) \in Nat /\ LengthOf(y) > 0
               /\ Framed(ps, W, got, LengthOf(y), pkt, buf)
<1>1. /\ buf \in Buffers(Bytes) /\ pkt \in Seq(Bytes) /\ got \in Seq(Seq(Bytes)) /\ pkt = << >>
      /\ Len(got) <= Len(ps) /\ \A i \in 1 .. Len(got) : got[i] = BytesOf(ps[i])
      /\ (Stream(SubSeq(ps, 1, Len(got))) \o pkt) \o Contents(buf) = W
    BY DEF Framed
<1>2. PICK m \in Nat : m = Len(got) /\ m <= Len(ps)
    <2>1. Len(got) \in Nat
        BY <1>1
    <2> QED
        BY <1>1, <2>1
<1>3. PICK k \in Nat, h \in Nat : k = LenSize /\ h = buf.n /\ k \in 1 .. SIZE /\ k <= h
    BY <1>1, BufferFacts, RecvAssumption, SizeAssumption
<1>4. ReadSize(buf, k) = k
    BY <1>3 DEF ReadSize
<1>5. /\ AfterRead(buf, k) \in Buffers(Bytes)
      /\ ReadBytes(buf, k) \in Seq(Bytes) /\ Len(ReadBytes(buf, k)) = k
      /\ ReadBytes(buf, k) \o Contents(AfterRead(buf, k)) = Contents(buf)
    BY <1>1, <1>4, ReadKeeps
<1>6. SubSeq(ps, 1, m) \in Seq(Packets)
    <2>1. m \in 0 .. Len(ps)
        BY <1>2
    <2> QED
        BY <2>1, Cut
<1>7. PICK a \in Seq(Bytes), y \in Seq(Bytes), z \in Seq(Bytes) :
          /\ a = Stream(SubSeq(ps, 1, m)) /\ y = ReadBytes(buf, k) /\ z = Contents(AfterRead(buf, k))
    BY <1>5, <1>6, StreamType, ContentsIs
<1>8. PICK zX \in Seq(Bytes) : zX = z \o X
    BY Elements
<1>9. Stream(ps) = (a \o y) \o zX
    <2>1. a \o << >> = a
        BY NoBytes
    <2>2. a \o (y \o z) = W
        BY <1>1, <1>2, <1>5, <1>7, <2>1
    <2>3. (a \o y) \o z = a \o (y \o z)
        BY Regroup, SMTT(30)
    <2>4. PICK ay \in Seq(Bytes) : ay = a \o y
        BY Elements
    <2>5. (ay \o z) \o X = ay \o (z \o X)
        BY Regroup
    <2> QED
        BY <1>8, <2>2, <2>3, <2>4, <2>5
<1>10. Len(y) = k /\ k >= 1
    BY <1>3, <1>5, <1>7
<1>11. m < Len(ps)
    <2>1. SUFFICES ASSUME m = Len(ps) PROVE FALSE
        BY <1>2
    <2>2. SubSeq(ps, 1, m) = ps
        BY <2>1
    <2>3. a = (a \o y) \o zX
        BY <1>7, <1>9, <2>2
    <2>4. a \o y \in Seq(Bytes) /\ Len(a \o y) = Len(a) + Len(y)
        BY Elements
    <2>5. Len((a \o y) \o zX) = Len(a \o y) + Len(zX)
        BY <2>4, Elements
    <2>6. Len(a) \in Nat /\ Len(zX) \in Nat
        OBVIOUS
    <2>7. Len(a) = Len(a) + Len(y) + Len(zX)
        BY <2>3, <2>4, <2>5
    <2> QED
        BY <1>10, <2>6, <2>7
<1>12. PICK p \in Packets : /\ p = ps[m + 1]
                            /\ \A i \in 1 .. Len(y) : i <= p.len => y[i] = BytesOf(p)[i]
    <2>1. Stream(ps) = (Stream(SubSeq(ps, 1, m)) \o y) \o zX
        BY <1>7, <1>9
    <2>2. ps[m + 1] \in Packets
        BY <1>11, PrefixGrows
    <2>3. \A i \in 1 .. Len(y) : i <= ps[m + 1].len => y[i] = BytesOf(ps[m + 1])[i]
        BY <1>11, <2>1, NextPacket
    <2> QED
        BY <2>2, <2>3
<1>13. PICK l \in Nat : l = p.len /\ l > k /\ Len(BytesOf(p)) = l
    <2>1. p.len \in Lengths
        BY DEF Packets
    <2>2. p.len > LenSize
        BY <2>1, RecvAssumption
    <2> QED
        BY <1>3, <2>2, BytesOfType, SizeAssumption
<1>14. \A i \in 1 .. k : y[i] = BytesOf(p)[i]
    <2>1. \A i \in 1 .. k : i <= l
        BY <1>13
    <2> QED
        BY <1>10, <1>12, <1>13, <2>1
<1>15. y = SubSeq(BytesOf(p), 1, k)
    <2>1. PICK s \in Seq(Bytes) : s = BytesOf(p)
        BY BytesOfType
    <2>2. k \in 0 .. Len(s)
        BY <1>13, <2>1
    <2>3. SubSeq(s, 1, k) \in Seq(Bytes) /\ Len(SubSeq(s, 1, k)) = k /\ \A i \in 1 .. k : SubSeq(s, 1, k)[i] = s[i]
        BY <2>2, Cut
    <2>4. \A i \in 1 .. k : y[i] = SubSeq(s, 1, k)[i]
        BY <1>14, <2>1, <2>3
    <2>5. y = SubSeq(s, 1, k)
        BY <1>10, <2>3, <2>4, SeqEqual
    <2> QED
        BY <2>1, <2>5
<1>16. y # << >> /\ y[1] = <<p, 1>>
    <2>1. 1 \in 1 .. k /\ 1 \in 1 .. p.len
        BY <1>10, <1>13
    <2>2. BytesOf(p)[1] = <<p, 1>>
        BY <2>1 DEF BytesOf
    <2>3. y # << >>
        BY <1>10, EmptySeq
    <2> QED
        BY <1>14, <2>1, <2>2, <2>3
<1>17. y[1][1] = p
    BY <1>16
<1>18. IsLength(y) /\ LengthOf(y) = l
    BY <1>3, <1>13, <1>15, <1>16, <1>17 DEF IsLength, LengthOf
<1>19. Framed(ps, W, got, l, pkt, buf)
    <2>1. Len(got) < Len(ps) /\ l = ps[Len(got) + 1].len /\ Len(pkt) < l /\ l > 0
        <3>1. Len(pkt) = 0
            BY <1>1, EmptySeq
        <3> QED
            BY <1>2, <1>11, <1>12, <1>13, <3>1
    <2> QED
        BY <1>1, <2>1 DEF Framed
<1>20. l > 0
    BY <1>13
<1> QED
    BY <1>3, <1>7, <1>16, <1>18, <1>19, <1>20

Readers ==
    [buf : Buffers(Bytes), cur : Nat, pkt : Seq(Bytes), out : Seq(Seq(Bytes)),
     mem : Int, starved : BOOLEAN, lost : BOOLEAN, stop : BOOLEAN]

\* What a reader that began with `got` handed up is after some passes, of which
\* `done` took bytes off a buffer of n.
Reading(ps, W, got, n, done, s) ==
    /\ s \in Readers
    /\ s.lost => s.stop /\ n = SIZE
    /\ ~ s.lost => Framed(ps, W, got \o s.out, s.cur, s.pkt, s.buf)
    /\ s.stop => s.lost \/ s.starved \/ s.buf.n < LenSize
    /\ ~ s.stop => s.buf.n + done <= n \/ s.buf.n = 0
    /\ s.buf.n <= n

LEMMA HandedUp ==
    ASSUME NEW got \in Seq(Seq(Bytes)), NEW out \in Seq(Seq(Bytes)), NEW pkt \in Seq(Bytes)
    PROVE  Append(out, pkt) \in Seq(Seq(Bytes)) /\ got \o Append(out, pkt) = Append(got \o out, pkt)
<1>1. PICK S : S = Seq(Bytes)
    OBVIOUS
<1>2. /\ got \in Seq(S) /\ out \in Seq(S) /\ pkt \in S
    BY <1>1
<1>3. Append(out, pkt) \in Seq(S)
    BY <1>2
<1>4. got \o Append(out, pkt) = Append(got \o out, pkt)
    BY <1>2
<1> QED
    BY <1>1, <1>3, <1>4

\* A step of the loop that moves bytes.
LEMMA TakePartReads ==
    ASSUME NEW ps \in Seq(Packets), NEW W \in Seq(Bytes), NEW X \in Seq(Bytes), Stream(ps) = W \o X,
           NEW got \in Seq(Seq(Bytes)), NEW n \in Nat, NEW done \in Nat, NEW s \in Readers,
           Framed(ps, W, got \o s.out, s.cur, s.pkt, s.buf), s.cur > 0,
           ~ s.stop, ~ s.lost, s.buf.n > 0, s.buf.n + done <= n
    PROVE  Reading(ps, W, got, n, done + 1, TakePart(s))
<1>1. PICK b \in Buffers(Bytes), c \in Nat, k \in Seq(Bytes), o \in Seq(Seq(Bytes)), m \in Int,
           st \in BOOLEAN, l \in BOOLEAN, sp \in BOOLEAN :
          s = [buf |-> b, cur |-> c, pkt |-> k, out |-> o, mem |-> m, starved |-> st, lost |-> l, stop |-> sp]
    BY DEF Readers
<1>2. /\ s.buf = b /\ s.cur = c /\ s.pkt = k /\ s.out = o /\ s.mem = m
      /\ s.starved = st /\ s.lost = l /\ s.stop = sp
    BY <1>1
<1>3. l = FALSE /\ sp = FALSE /\ c > 0
    BY <1>2
<1>4. PICK part, left : part = k \o ReadBytes(b, c - Len(k)) /\ left = AfterRead(b, c - Len(k))
    OBVIOUS
<1>5. /\ part \in Seq(Bytes) /\ left \in Buffers(Bytes) /\ left.n <= b.n /\ (b.n > 0 => left.n < b.n)
      /\ ~ (Len(part) >= c) => Framed(ps, W, got \o o, c, part, left)
      /\ Len(part) >= c => Framed(ps, W, Append(got \o o, part), 0, << >>, left)
    BY <1>2, <1>3, <1>4, PartMoves, ZenonT(40)
<1>6. PICK h \in Nat, q \in Nat : h = b.n /\ q = left.n /\ q < h /\ h + done <= n
    BY <1>2, <1>5, BufferFacts
<1>7. PICK mem \in Int : mem = IF k = << >> THEN m - 1 ELSE m
    OBVIOUS
<1>8. CASE k = << >> /\ m = 0
    <2>1. TakePart(s) = [buf |-> b, cur |-> c, pkt |-> k, out |-> o, mem |-> m,
                         starved |-> TRUE, lost |-> l, stop |-> TRUE]
        <3>1. TakePart(s) = [s EXCEPT !.starved = TRUE, !.stop = TRUE]
            BY <1>2, <1>8 DEF TakePart
        <3> QED
            BY <1>1, <3>1
    <2>2. h <= n
        BY <1>6
    <2> QED
        BY <1>2, <1>3, <1>6, <2>1, <2>2 DEF Reading, Readers
<1>9. CASE ~ (k = << >> /\ m = 0)
    <2>1. PICK t : t = [s EXCEPT !.pkt = part, !.buf = left, !.mem = mem]
        OBVIOUS
    <2>2. TakePart(s) = IF Len(part) >= c THEN HandUp(t) ELSE t
        BY <1>2, <1>4, <1>7, <1>9, <2>1 DEF TakePart
    <2>6. /\ t \in Readers
          /\ t.buf = left /\ t.cur = c /\ t.pkt = part /\ t.out = o
          /\ t.stop = FALSE /\ t.lost = FALSE
        BY <1>2, <1>3, <1>5, <2>1 DEF Readers
    <2>3. q + (done + 1) <= n /\ q <= n
        BY <1>6, SMTT(30)
    <2>4. CASE Len(part) >= c
        <3>1. PICK o2 \in Seq(Seq(Bytes)), e \in Seq(Bytes), none \in Nat :
                  o2 = Append(o, part) /\ e = << >> /\ none = 0 /\ got \o o2 = Append(got \o o, part)
            <4>1. Append(o, part) \in Seq(Seq(Bytes)) /\ got \o Append(o, part) = Append(got \o o, part)
                BY <1>5, HandedUp
            <4>2. << >> \in Seq(Bytes) /\ 0 \in Nat
                OBVIOUS
            <4> QED
                BY <4>1, <4>2
        <3>2. PICK v : v = [t EXCEPT !.out = o2, !.pkt = e, !.cur = none]
            OBVIOUS
        <3>4. TakePart(s) = v
            BY <2>2, <2>4, <2>6, <3>1, <3>2 DEF HandUp
        <3>5. /\ v \in Readers
              /\ v.buf = left /\ v.cur = none /\ v.pkt = e /\ v.out = o2
              /\ v.stop = FALSE /\ v.lost = FALSE
            BY <2>6, <3>2 DEF Readers
        <3>3. Framed(ps, W, got \o o2, none, e, left)
            BY <1>5, <2>4, <3>1
        <3> QED
            BY <1>6, <2>3, <3>3, <3>4, <3>5 DEF Reading
    <2>5. CASE ~ (Len(part) >= c)
        BY <1>5, <1>6, <2>2, <2>3, <2>5, <2>6 DEF Reading
    <2> QED
        BY <2>4, <2>5
<1> QED
    BY <1>8, <1>9

LEMMA PassReads ==
    ASSUME NEW ps \in Seq(Packets), NEW W \in Seq(Bytes), NEW X \in Seq(Bytes), Stream(ps) = W \o X,
           NEW got \in Seq(Seq(Bytes)), NEW n \in Nat, n <= SIZE, NEW done \in Nat, NEW s,
           Reading(ps, W, got, n, done, s)
    PROVE  Reading(ps, W, got, n, done + 1, Pass(s))
<1>1. PICK b \in Buffers(Bytes), c \in Nat, k \in Seq(Bytes), o \in Seq(Seq(Bytes)), m \in Int,
           st \in BOOLEAN, l \in BOOLEAN, sp \in BOOLEAN :
          s = [buf |-> b, cur |-> c, pkt |-> k, out |-> o, mem |-> m, starved |-> st, lost |-> l, stop |-> sp]
    BY DEF Reading, Readers
<1>2. /\ s.buf = b /\ s.cur = c /\ s.pkt = k /\ s.out = o /\ s.mem = m
      /\ s.starved = st /\ s.lost = l /\ s.stop = sp
    BY <1>1
<1>8. s \in Readers
    BY DEF Reading
<1>3. PICK h \in Nat : h = b.n /\ h <= n /\ (~ sp => h + done <= n \/ h = 0)
    BY <1>2, BufferFacts DEF Reading
<1>4. l => sp
    BY <1>2 DEF Reading
<1>5. ~ l => Framed(ps, W, got \o o, c, k, b)
    BY <1>2 DEF Reading
<1>6. CASE h = 0 \/ sp
    <2>1. Pass(s) = s
        BY <1>2, <1>3, <1>6 DEF Pass
    <2> QED
        BY <1>2, <1>3, <1>6, <2>1 DEF Reading
<1>7. CASE h # 0 /\ ~ sp
    <2>1. ~ l /\ Framed(ps, W, got \o o, c, k, b) /\ h + done <= n /\ h > 0
        BY <1>3, <1>4, <1>5, <1>7
    <2>2. CASE c > 0
        <3>1. Pass(s) = TakePart(s)
            BY <1>2, <1>3, <1>7, <2>2 DEF Pass
        <3> QED
            <4>1. /\ Framed(ps, W, got \o s.out, s.cur, s.pkt, s.buf) /\ s.cur > 0
                  /\ ~ s.stop /\ ~ s.lost /\ s.buf.n > 0 /\ s.buf.n + done <= n
                BY <1>2, <1>3, <1>7, <2>1, <2>2
            <4> QED
                BY <1>8, <3>1, <4>1, TakePartReads
    <2>3. CASE c = 0 /\ h < LenSize
        <3>1. PICK t : t = [s EXCEPT !.stop = TRUE]
            OBVIOUS
        <3>2. Pass(s) = t
            BY <1>2, <1>3, <1>7, <2>3, <3>1 DEF Pass
        <3>3. /\ t \in Readers /\ t.buf = b /\ t.cur = c /\ t.pkt = k /\ t.out = o
              /\ t.stop = TRUE /\ t.lost = l
            BY <1>2, <1>8, <3>1 DEF Readers
        <3> QED
            BY <1>3, <2>1, <2>3, <3>2, <3>3 DEF Reading
    <2>4. CASE c = 0 /\ ~ (h < LenSize)
        <3>1. PICK y : y = ReadBytes(b, LenSize)
            OBVIOUS
        <3>2. b.n >= LenSize
            BY <1>3, <2>4, RecvAssumption, SizeAssumption
        <3>3. /\ y # << >> /\ IsLength(y) /\ LengthOf(y) \in Nat /\ LengthOf(y) > 0
              /\ Framed(ps, W, got \o o, LengthOf(y), k, b)
            BY <2>1, <2>4, <3>1, <3>2, NextLength
        <3>4. CASE b.r # b.w
            <4>1. PICK len \in Nat : len = LengthOf(y) /\ len > 0
                BY <3>3
            <4>2. PICK t : t = [s EXCEPT !.cur = len]
                OBVIOUS
            <4>3. PeekBytes(s.buf, LenSize) = y
                BY <1>2, <3>1, <3>4 DEF PeekBytes
            <4>4. /\ t \in Readers /\ t.buf = b /\ t.cur = len /\ t.pkt = k /\ t.out = o
                  /\ t.stop = sp /\ t.lost = l
                BY <1>2, <1>8, <4>1, <4>2 DEF Readers
            <4>5. Pass(s) = TakePart(t)
                BY <1>2, <1>3, <1>7, <2>4, <3>3, <4>1, <4>2, <4>3 DEF Pass
            <4>6. /\ Framed(ps, W, got \o t.out, t.cur, t.pkt, t.buf) /\ t.cur > 0
                  /\ ~ t.stop /\ ~ t.lost /\ t.buf.n > 0 /\ t.buf.n + done <= n
                BY <1>3, <1>7, <2>1, <3>3, <4>1, <4>4
            <4> QED
                BY <4>4, <4>5, <4>6, TakePartReads
        <3>5. CASE b.r = b.w
            <4>1. h = SIZE /\ n = SIZE
                <5>1. Agree(b.r, b.w, b.n)
                    BY BufferFacts
                <5> QED
                    BY <1>3, <1>7, <3>5, <5>1, SizeAssumption DEF Agree
            <4>2. PeekBytes(s.buf, LenSize) = << >>
                BY <1>2, <3>5 DEF PeekBytes
            <4>3. PICK t : t = [s EXCEPT !.lost = TRUE, !.stop = TRUE]
                OBVIOUS
            <4>4. Pass(s) = t
                BY <1>2, <1>3, <1>7, <2>4, <4>2, <4>3 DEF Pass, IsLength
            <4>5. t \in Readers /\ t.buf = b /\ t.stop = TRUE /\ t.lost = TRUE
                BY <1>2, <1>8, <4>3 DEF Readers
            <4> QED
                BY <1>3, <4>1, <4>4, <4>5 DEF Reading
        <3> QED
            BY <3>4, <3>5
    <2>5. c > 0 \/ c = 0
        OBVIOUS
    <2> QED
        BY <2>2, <2>3, <2>4, <2>5
<1> QED
    BY <1>6, <1>7

\* g is the sequence of the sets of readers after 0 to k passes.
Runs(start, k, g) == g = [i \in 0 .. k |-> IF i = 0 THEN start ELSE {Pass(s) : s \in g[i - 1]}]

LEMMA RunsExist ==
    ASSUME NEW start, NEW k \in Nat
    PROVE  \E g : Runs(start, k, g)
<1> DEFINE T == {n \in Nat : ~ \E g : Runs(start, n, g)}
<1>1. ASSUME NEW t \in T PROVE FALSE
    <2>1. T \in SUBSET Nat
        BY DEF T
    <2>2. PICK n \in T : \A m \in Nat : m < n => m \notin T
        BY <2>1, <1>1, SmallestExists
    <2>3. n \in Nat /\ ~ \E g : Runs(start, n, g)
        OBVIOUS
    <2>4. CASE n = 0
        <3> DEFINE g == [i \in 0 .. 0 |-> start]
        <3>1. Runs(start, 0, g)
            BY DEF Runs
        <3> QED
            BY <2>3, <2>4, <3>1
    <2>5. CASE n # 0
        <3>1. PICK m \in Nat : m = n - 1 /\ n = m + 1 /\ m < n
            BY <2>3, <2>5
        <3>2. PICK f : Runs(start, m, f)
            BY <2>2, <3>1
        <3> DEFINE g == [i \in 0 .. m + 1 |-> IF i = m + 1 THEN {Pass(s) : s \in f[m]} ELSE f[i]]
        <3>3. f[0] = start /\ \A i \in 1 .. m : f[i] = {Pass(s) : s \in f[i - 1]}
            BY <3>2 DEF Runs
        <3>4. g = [i \in 0 .. m + 1 |-> g[i]] /\ \A i \in 0 .. m + 1 : g[i] = IF i = m + 1 THEN {Pass(s) : s \in f[m]} ELSE f[i]
            OBVIOUS
        <3> HIDE DEF g
        <3>5. \A i \in 0 .. m : g[i] = f[i]
            <4>1. \A i \in 0 .. m : i \in 0 .. m + 1 /\ i # m + 1
                OBVIOUS
            <4> QED
                BY <3>4, <4>1
        <3>6. g[m + 1] = {Pass(s) : s \in f[m]}
            <4>1. m + 1 \in 0 .. m + 1
                OBVIOUS
            <4> QED
                BY <3>4, <4>1
        <3>7. ASSUME NEW i \in 0 .. m + 1
              PROVE  g[i] = IF i = 0 THEN start ELSE {Pass(s) : s \in g[i - 1]}
            <4>1. CASE i = 0
                BY <3>3, <3>5, <4>1
            <4>2. CASE i \in 1 .. m
                <5>1. g[i] = f[i] /\ g[i - 1] = f[i - 1] /\ i # 0
                    BY <3>5, <4>2
                <5> QED
                    BY <3>3, <4>2, <5>1
            <4>3. CASE i = m + 1
                <5>1. i - 1 = m /\ i # 0 /\ g[m] = f[m]
                    BY <3>5, <4>3
                <5> QED
                    BY <3>6, <4>3, <5>1
            <4>4. i = 0 \/ i \in 1 .. m \/ i = m + 1
                OBVIOUS
            <4> QED
                BY <4>1, <4>2, <4>3, <4>4
        <3>8. Runs(start, m + 1, g)
            BY <3>4, <3>7 DEF Runs
        <3> QED
            BY <2>3, <3>1, <3>8
    <2> QED
        BY <2>4, <2>5
<1> QED
    BY <1>1

\* What OnRead's loop ends with: the framing is kept, and nothing is left
\* undone that the bytes at hand allow.
LEMMA MakeMessageReads ==
    ASSUME NEW ps \in Seq(Packets), NEW W \in Seq(Bytes), NEW X \in Seq(Bytes), Stream(ps) = W \o X,
           NEW b, Framed(ps, W, received, m_nCurPacketSize, m_pPacket, b),
           NEW s \in MakeMessage(b)
    PROVE  Reading(ps, W, received, b.n, SIZE, s)
<1> DEFINE start == {Reader(b, grants) : grants \in {0, 1, SIZE}}
<1>1. SIZE \in Nat
    BY SizeAssumption
<1>2. MakeMessage(b) = (CHOOSE g : Runs(start, SIZE, g))[SIZE]
    BY DEF MakeMessage, Runs
<1>3. PICK g : Runs(start, SIZE, g) /\ MakeMessage(b) = g[SIZE]
    <2> HIDE DEF start
    <2>1. \E g : Runs(start, SIZE, g)
        BY <1>1, RunsExist
    <2>2. Runs(start, SIZE, CHOOSE g : Runs(start, SIZE, g))
        BY <2>1, Zenon
    <2> QED
        BY <1>2, <2>2
<1>4. g[0] = start /\ \A i \in 1 .. SIZE : g[i] = {Pass(x) : x \in g[i - 1]}
    <2> HIDE DEF start
    <2>1. g = [i \in 0 .. SIZE |-> IF i = 0 THEN start ELSE {Pass(x) : x \in g[i - 1]}]
        BY <1>3 DEF Runs
    <2>2. g[0] = start
        BY <1>1, <2>1
    <2>3. ASSUME NEW i \in 1 .. SIZE PROVE g[i] = {Pass(x) : x \in g[i - 1]}
        <3>1. i \in 0 .. SIZE /\ i # 0
            BY <1>1
        <3> QED
            BY <2>1, <3>1
    <2> QED
        BY <2>2, <2>3
<1>5. /\ b \in Buffers(Bytes) /\ m_pPacket \in Seq(Bytes) /\ m_nCurPacketSize \in Nat
      /\ received \in Seq(Seq(Bytes))
    BY DEF Framed
<1>6. PICK n \in Nat : n = b.n /\ n <= SIZE
    BY <1>5, BufferFacts
<1>7. PICK got \in Seq(Seq(Bytes)) : got = received
    BY <1>5
<1>8. ASSUME NEW x \in g[0] PROVE Reading(ps, W, got, n, 0, x)
    <2>1. PICK grants \in {0, 1, SIZE} : x = Reader(b, grants)
        BY <1>4
    <2>2. grants \in Int
        BY <1>1
    <2>3. PICK none \in Seq(Seq(Bytes)) : none = << >> /\ got \o none = got
        <3>1. PICK S : S = Seq(Bytes)
            OBVIOUS
        <3>2. << >> \in Seq(S) /\ got \in Seq(S)
            BY <3>1
        <3>3. got \o << >> = got
            BY <3>2, ConcatEmptySeq
        <3> QED
            BY <3>1, <3>2, <3>3
    <2>4. x = [buf |-> b, cur |-> m_nCurPacketSize, pkt |-> m_pPacket, out |-> none,
               mem |-> grants, starved |-> FALSE, lost |-> FALSE, stop |-> FALSE]
        BY <2>1, <2>3 DEF Reader
    <2>5. x \in Readers
        BY <1>5, <2>2, <2>4 DEF Readers
    <2>6. Framed(ps, W, got \o x.out, x.cur, x.pkt, x.buf)
        BY <1>7, <2>3, <2>4
    <2>7. x.buf.n = n /\ n + 0 <= n /\ x.lost = FALSE /\ x.stop = FALSE
        BY <1>6, <2>4
    <2> QED
        BY <2>5, <2>6, <2>7 DEF Reading
<1> HIDE DEF start
<1> DEFINE T == {i \in Nat : i <= SIZE /\ \E x \in g[i] : ~ Reading(ps, W, got, n, i, x)}
<1>9. ASSUME NEW t \in T PROVE FALSE
    <2>1. T \in SUBSET Nat
        BY DEF T
    <2>2. PICK i \in T : \A j \in Nat : j < i => j \notin T
        BY <2>1, <1>9, SmallestExists
    <2>3. i \in Nat /\ i <= SIZE
        OBVIOUS
    <2>4. PICK x \in g[i] : ~ Reading(ps, W, got, n, i, x)
        OBVIOUS
    <2>5. CASE i = 0
        BY <1>8, <2>4, <2>5
    <2>6. CASE i # 0
        <3>1. PICK j \in Nat : j = i - 1 /\ i = j + 1 /\ j < i /\ j <= SIZE /\ i \in 1 .. SIZE
            BY <1>1, <2>3, <2>6
        <3>2. PICK y \in g[j] : x = Pass(y)
            <4>1. g[i] = {Pass(z) : z \in g[i - 1]}
                BY <1>4, <3>1
            <4> QED
                BY <2>4, <3>1, <4>1
        <3>3. Reading(ps, W, got, n, j, y)
            <4>1. j \notin T
                BY <2>2, <3>1
            <4> QED
                BY <3>1, <4>1
        <3>4. Reading(ps, W, got, n, j + 1, Pass(y))
            BY <1>6, <3>3, PassReads
        <3> QED
            BY <2>4, <3>1, <3>2, <3>4
    <2> QED
        BY <2>5, <2>6
<1>10. s \in g[SIZE] /\ SIZE <= SIZE
    BY <1>1, <1>3
<1>11. Reading(ps, W, got, n, SIZE, s)
    <2>1. SIZE \notin T
        BY <1>9
    <2> QED
        BY <1>1, <1>10, <2>1
<1> QED
    BY <1>6, <1>7, <1>11

-----------------------------------------------------------------------------
(* The receiving side.                                                     *)

RecvInv ==
    ~ lost =>
        /\ Framed(taken, SubSeq(wire, 1, arrived), received, m_nCurPacketSize, m_pPacket, m_stRecvBuffer)
        /\ ~ starved => m_stRecvBuffer.n < LenSize

LEMMA NothingFramed == Framed(<< >>, << >>, << >>, 0, << >>, EmptyBuffer) /\ EmptyBuffer.n < LenSize
<1>1. EmptyBuffer \in Buffers(Bytes) /\ EmptyBuffer.n = 0
    BY EmptyIsBuffer DEF Bytes
<1>2. Contents(EmptyBuffer) = << >>
    BY <1>1, EmptyHolds
<1>3. << >> \in Seq(Bytes) /\ << >> \in Seq(Seq(Bytes)) /\ << >> \in Seq(Packets) /\ Len(<< >>) = 0
    OBVIOUS
<1>4. SubSeq(<< >>, 1, Len(<< >>)) = << >>
    <2>1. PICK e \in Seq(Packets) : e = << >> /\ Len(e) = 0
        BY <1>3
    <2>2. SubSeq(e, 1, 0) \in Seq(Packets) /\ Len(SubSeq(e, 1, 0)) = 0
        BY <2>1, Cut
    <2> QED
        BY <2>1, <2>2, EmptySeq
<1>5. (Stream(SubSeq(<< >>, 1, Len(<< >>))) \o << >>) \o Contents(EmptyBuffer) = << >>
    BY <1>2, <1>3, <1>4, StreamEmpty, NoBytes
<1>6. 0 < LenSize
    BY RecvAssumption, SizeAssumption
<1>7. Framed(<< >>, << >>, << >>, 0, << >>, EmptyBuffer)
    <2>1. PICK none \in Nat : none = 0
        OBVIOUS
    <2>2. PICK e \in Seq(Bytes), g \in Seq(Seq(Bytes)), q \in Seq(Packets) :
              e = << >> /\ g = << >> /\ q = << >> /\ Len(g) = 0 /\ Len(q) = 0
        BY <1>3
    <2>3. (Stream(SubSeq(q, 1, Len(g))) \o e) \o Contents(EmptyBuffer) = e
        BY <1>3, <1>5, <2>2
    <2>4. Len(g) <= Len(q) /\ \A i \in 1 .. Len(g) : g[i] = BytesOf(q[i])
        BY <2>2
    <2>5. Framed(q, e, g, none, e, EmptyBuffer)
        BY <1>1, <2>1, <2>2, <2>3, <2>4 DEF Framed
    <2> QED
        BY <2>1, <2>2, <2>5
<1> QED
    BY <1>1, <1>6, <1>7

LEMMA RecvCleared ==
    ASSUME wire' = << >>, taken' = << >>, RecvClear
    PROVE  RecvInv'
<1>1. SubSeq(<< >>, 1, 0) = << >>
    <2>1. PICK e \in Seq(Bytes) : e = << >> /\ Len(e) = 0
        BY EmptySeq
    <2>2. SubSeq(e, 1, 0) \in Seq(Bytes) /\ Len(SubSeq(e, 1, 0)) = 0
        BY <2>1, Cut
    <2> QED
        BY <2>1, <2>2, EmptySeq
<1> QED
    BY <1>1, NothingFramed DEF RecvClear, RecvInv

\* The bytes received stay framed when the sender takes a packet.
LEMMA FramedGrows ==
    ASSUME NEW ps \in Seq(Packets), NEW p \in Packets, NEW W, NEW got, NEW cur, NEW pkt, NEW buf,
           Framed(ps, W, got, cur, pkt, buf)
    PROVE  Framed(Append(ps, p), W, got, cur, pkt, buf)
<1>1. PICK qs \in Seq(Packets) : /\ qs = Append(ps, p) /\ Len(qs) = Len(ps) + 1
                                 /\ \A i \in 1 .. Len(ps) : qs[i] = ps[i]
    <2>1. /\ Append(ps, p) \in Seq(Packets) /\ Len(Append(ps, p)) = Len(ps) + 1
          /\ \A i \in 1 .. Len(ps) : Append(ps, p)[i] = ps[i]
        BY AppendElements
    <2> QED
        BY <2>1
<1>2. PICK m \in Nat, l \in Nat : m = Len(got) /\ l = Len(ps) /\ m <= l
    <2>1. got \in Seq(Seq(Bytes)) /\ Len(got) <= Len(ps)
        BY DEF Framed
    <2>2. Len(got) \in Nat /\ Len(ps) \in Nat
        BY <2>1
    <2> QED
        BY <2>1, <2>2
<1>3. SubSeq(qs, 1, m) = SubSeq(ps, 1, m)
    <2>1. m \in 0 .. Len(ps) /\ m \in 0 .. Len(qs)
        BY <1>1, <1>2
    <2>2. SubSeq(ps, 1, m) \in Seq(Packets) /\ Len(SubSeq(ps, 1, m)) = m /\ \A i \in 1 .. m : SubSeq(ps, 1, m)[i] = ps[i]
        BY <2>1, Cut
    <2>3. SubSeq(qs, 1, m) \in Seq(Packets) /\ Len(SubSeq(qs, 1, m)) = m /\ \A i \in 1 .. m : SubSeq(qs, 1, m)[i] = qs[i]
        BY <2>1, Cut
    <2>4. \A i \in 1 .. m : SubSeq(qs, 1, m)[i] = SubSeq(ps, 1, m)[i]
        <3>1. \A i \in 1 .. m : i \in 1 .. Len(ps)
            BY <1>2
        <3> QED
            BY <1>1, <2>2, <2>3, <3>1
    <2> QED
        BY <2>2, <2>3, <2>4, SeqEqual
<1>4. /\ buf \in Buffers(Bytes) /\ pkt \in Seq(Bytes) /\ cur \in Nat /\ got \in Seq(Seq(Bytes))
      /\ cur = 0 => pkt = << >>
    BY DEF Framed
<1>5. Len(got) <= Len(qs)
    BY <1>1, <1>2
<1>6. \A i \in 1 .. Len(got) : got[i] = BytesOf(qs[i])
    <2>1. \A i \in 1 .. Len(got) : got[i] = BytesOf(ps[i]) /\ i \in 1 .. Len(ps)
        BY <1>2 DEF Framed
    <2> QED
        BY <1>1, <2>1
<1>7. (Stream(SubSeq(qs, 1, Len(got))) \o pkt) \o Contents(buf) = W
    BY <1>2, <1>3 DEF Framed
<1>8. ASSUME cur > 0 PROVE Len(got) < Len(qs) /\ cur = qs[Len(got) + 1].len /\ Len(pkt) < cur
    <2>1. Len(got) < Len(ps) /\ cur = ps[Len(got) + 1].len /\ Len(pkt) < cur
        BY <1>8 DEF Framed
    <2>2. m + 1 \in 1 .. Len(ps) /\ Len(got) < Len(qs)
        BY <1>1, <1>2, <2>1
    <2> QED
        BY <1>1, <1>2, <2>1, <2>2
<1>9. Framed(qs, W, got, cur, pkt, buf)
    BY <1>4, <1>5, <1>6, <1>7, <1>8 DEF Framed
<1> QED
    BY <1>1, <1>9

LEMMA PrefixStays ==
    ASSUME NEW w \in Seq(Bytes), NEW bytes \in Seq(Bytes), NEW a \in Nat, a <= Len(w)
    PROVE  SubSeq(w \o bytes, 1, a) = SubSeq(w, 1, a)
<1>1. PICK v \in Seq(Bytes) : /\ v = w \o bytes /\ Len(v) = Len(w) + Len(bytes)
                              /\ \A i \in 1 .. Len(w) : v[i] = w[i]
    BY Elements
<1>2. a \in 0 .. Len(w) /\ a \in 0 .. Len(v)
    <2>1. Len(w) \in Nat /\ Len(bytes) \in Nat
        OBVIOUS
    <2> QED
        BY <1>1, <2>1
<1>3. SubSeq(w, 1, a) \in Seq(Bytes) /\ Len(SubSeq(w, 1, a)) = a /\ \A i \in 1 .. a : SubSeq(w, 1, a)[i] = w[i]
    BY <1>2, Cut
<1>4. SubSeq(v, 1, a) \in Seq(Bytes) /\ Len(SubSeq(v, 1, a)) = a /\ \A i \in 1 .. a : SubSeq(v, 1, a)[i] = v[i]
    BY <1>2, Cut
<1>5. \A i \in 1 .. a : SubSeq(v, 1, a)[i] = SubSeq(w, 1, a)[i]
    <2>1. \A i \in 1 .. a : i \in 1 .. Len(w)
        BY <1>2
    <2> QED
        BY <1>1, <1>3, <1>4, <2>1
<1> QED
    BY <1>1, <1>3, <1>4, <1>5, SeqEqual

\* A prefix grows by the bytes that follow it.
LEMMA PrefixTakes ==
    ASSUME NEW w \in Seq(Bytes), NEW a \in Nat, NEW k \in Nat, a + k <= Len(w)
    PROVE  /\ SubSeq(w, 1, a) \in Seq(Bytes) /\ SubSeq(w, a + 1, a + k) \in Seq(Bytes)
           /\ Len(SubSeq(w, a + 1, a + k)) = k
           /\ SubSeq(w, 1, a + k) = SubSeq(w, 1, a) \o SubSeq(w, a + 1, a + k)
           /\ \E rest \in Seq(Bytes) : w = SubSeq(w, 1, a + k) \o rest
<1>1. a \in 0 .. Len(w) /\ a + k \in 0 .. Len(w) /\ Len(w) \in Nat
    OBVIOUS
<1>2. PICK v \in Seq(Bytes) : /\ v = SubSeq(w, 1, a + k) /\ Len(v) = a + k
                              /\ \A i \in 1 .. a + k : v[i] = w[i]
    <2>1. /\ SubSeq(w, 1, a + k) \in Seq(Bytes) /\ Len(SubSeq(w, 1, a + k)) = a + k
          /\ \A i \in 1 .. a + k : SubSeq(w, 1, a + k)[i] = w[i]
        BY <1>1, Cut
    <2> QED
        BY <2>1
<1>3. \E rest \in Seq(Bytes) : w = SubSeq(w, 1, a + k) \o rest
    BY <1>1, Cut
<1>4. PICK x \in Seq(Bytes) : x = SubSeq(w, 1, a) /\ Len(x) = a /\ \A i \in 1 .. a : x[i] = w[i]
    <2>1. /\ SubSeq(w, 1, a) \in Seq(Bytes) /\ Len(SubSeq(w, 1, a)) = a
          /\ \A i \in 1 .. a : SubSeq(w, 1, a)[i] = w[i]
        BY <1>1, Cut
    <2> QED
        BY <2>1
<1>5. PICK y \in Seq(Bytes) : y = SubSeq(w, a + 1, a + k) /\ Len(y) = k /\ \A i \in 1 .. k : y[i] = w[a + i]
    <2>1. \A i \in a + 1 .. a + k : w[i] \in Bytes
        BY <1>1
    <2> DEFINE y == SubSeq(w, a + 1, a + k)
    <2>2. /\ y \in Seq(Bytes)
          /\ Len(y) = IF a + 1 <= a + k THEN (a + k) - (a + 1) + 1 ELSE 0
          /\ \A i \in 1 .. (a + k) - (a + 1) + 1 : y[i] = w[a + 1 + i - 1]
        BY <2>1, SubSeqProperties
    <2> HIDE DEF y
    <2>3. Len(y) = k
        BY <2>2
    <2>4. ASSUME NEW i \in 1 .. k PROVE y[i] = w[a + i]
        <3>1. i \in 1 .. (a + k) - (a + 1) + 1 /\ a + 1 + i - 1 = a + i
            OBVIOUS
        <3> QED
            BY <2>2, <3>1
    <2> QED
        BY <2>2, <2>3, <2>4 DEF y
<1>6. /\ x \o y \in Seq(Bytes) /\ Len(x \o y) = a + k
      /\ \A i \in 1 .. a : (x \o y)[i] = x[i]
      /\ \A i \in 1 .. k : (x \o y)[a + i] = y[i]
    BY <1>4, <1>5, Elements
<1>7. ASSUME NEW i \in 1 .. a + k PROVE v[i] = (x \o y)[i]
    <2>1. CASE i \in 1 .. a
        BY <1>2, <1>4, <1>6, <2>1
    <2>2. CASE i \in a + 1 .. a + k
        <3>1. PICK j \in 1 .. k : i = a + j
            <4>1. i - a \in 1 .. k /\ i = a + (i - a)
                BY <2>2
            <4> QED
                BY <4>1
        <3> QED
            BY <1>2, <1>5, <1>6, <3>1
    <2>3. i \in 1 .. a \/ i \in a + 1 .. a + k
        OBVIOUS
    <2> QED
        BY <2>1, <2>2, <2>3
<1>8. v = x \o y
    BY <1>2, <1>6, <1>7, SeqEqual
<1> QED
    BY <1>2, <1>3, <1>4, <1>5, <1>8

\* The bytes received stay framed when more are put behind those buffered.
LEMMA FramedTakes ==
    ASSUME NEW ps \in Seq(Packets), NEW W, NEW fresh \in Seq(Bytes), NEW got, NEW cur, NEW pkt, NEW b,
           Framed(ps, W, got, cur, pkt, b),
           NEW b2 \in Buffers(Bytes), Contents(b2) = Contents(b) \o fresh
    PROVE  Framed(ps, W \o fresh, got, cur, pkt, b2)
<1>1. PICK m : m = Len(got)
    OBVIOUS
<1>2. /\ b \in Buffers(Bytes) /\ pkt \in Seq(Bytes) /\ got \in Seq(Seq(Bytes))
      /\ (Stream(SubSeq(ps, 1, m)) \o pkt) \o Contents(b) = W /\ m <= Len(ps)
    BY <1>1 DEF Framed
<1>3. SubSeq(ps, 1, m) \in Seq(Packets)
    <2>1. m \in Nat
        BY <1>1, <1>2
    <2>2. m \in 0 .. Len(ps)
        BY <1>2, <2>1
    <2> QED
        BY <2>2, Cut
<1>4. PICK f \in Seq(Bytes), c \in Seq(Bytes) : f = Stream(SubSeq(ps, 1, m)) /\ c = Contents(b)
    BY <1>2, <1>3, StreamType, ContentsIs
<1>5. f \o pkt \in Seq(Bytes)
    BY <1>2, Elements
<1>6. ((f \o pkt) \o c) \o fresh = (f \o pkt) \o (c \o fresh)
    BY <1>5, Regroup
<1>7. (Stream(SubSeq(ps, 1, Len(got))) \o pkt) \o Contents(b2) = W \o fresh
    BY <1>1, <1>2, <1>4, <1>6
<1> QED
    BY <1>7 DEF Framed

\* An OnRead keeps the framing, and loses it only as LostOnlyByBurst allows.
LEMMA OnReadFrames ==
    ASSUME SendInv, Balance, RecvInv, OnRead
    PROVE  RecvInv' /\ (~ lost /\ lost' => arrived' - arrived > SIZE - LenSize \/ starved)
<1>1. CASE lost
    <2>1. lost' = lost
        BY <1>1 DEF OnRead, Recv
    <2> QED
        BY <1>1, <2>1 DEF RecvInv
<1>2. CASE ~ lost
    <2> DEFINE fits(x) == HasRoom(m_stRecvBuffer, x)
    <2> DEFINE reads(k, x) ==
          /\ arrived' = arrived + k
          /\ \E s \in MakeMessage(IF fits(x) THEN Write(m_stRecvBuffer, x) ELSE m_stRecvBuffer) :
                /\ m_stRecvBuffer' = s.buf /\ m_nCurPacketSize' = s.cur /\ m_pPacket' = s.pkt
                /\ received' = received \o s.out
                /\ starved' = (starved \/ s.starved)
                /\ lost' = (s.lost \/ ~ fits(x))
    <2>0. PICK k \in 1 .. (IF InFlight < SIZE THEN InFlight ELSE SIZE) :
              reads(k, SubSeq(wire, arrived + 1, arrived + k))
        BY <1>2 DEF OnRead, Recv
    <2>1. PICK fresh : fresh = SubSeq(wire, arrived + 1, arrived + k) /\ reads(k, fresh)
        BY <2>0
    <2>2. PICK a \in Nat, l \in Nat, size \in Nat : a = arrived /\ l = Len(wire) /\ a <= l /\ size = SIZE
        BY WireType, SizeAssumption DEF Balance
    <2>3. k \in Nat /\ 1 <= k /\ a + k <= l
        BY <2>1, <2>2 DEF InFlight
    <2>4. PICK w \in Seq(Bytes) : w = wire
        BY WireType
    <2>5. /\ SubSeq(w, 1, a) \in Seq(Bytes) /\ fresh \in Seq(Bytes) /\ Len(fresh) = k
          /\ SubSeq(w, 1, a + k) = SubSeq(w, 1, a) \o fresh
          /\ \E rest \in Seq(Bytes) : w = SubSeq(w, 1, a + k) \o rest
        <3>1. a + k <= Len(w) /\ fresh = SubSeq(w, a + 1, a + k)
            BY <2>1, <2>2, <2>3, <2>4
        <3> QED
            BY <2>3, <3>1, PrefixTakes, ZenonT(40)
    <2>6. PICK W \in Seq(Bytes), W2 \in Seq(Bytes), rest \in Seq(Bytes) :
              /\ W = SubSeq(w, 1, a) /\ W2 = SubSeq(w, 1, a + k) /\ w = W2 \o rest /\ W2 = W \o fresh
        BY <2>5, Elements
    <2>7. UNCHANGED <<wire, taken>>
        BY DEF OnRead
    <2>8. SubSeq(wire', 1, arrived') = W2
        BY <2>1, <2>2, <2>4, <2>6, <2>7
    <2>9. PICK ps \in Seq(Packets) : ps = taken
        BY DEF SendInv
    <2>10. PICK X \in Seq(Bytes) : Stream(ps) = W2 \o X
        <3>1. PICK c \in Seq(Bytes) : c = Contents(m_stSendBuffer)
            BY ContentsIs DEF SendInv
        <3>2. Stream(ps) = (W2 \o rest) \o c
            BY <2>4, <2>6, <2>9, <3>1 DEF SendInv, StreamIntact
        <3>3. (W2 \o rest) \o c = W2 \o (rest \o c)
            BY Regroup, ZenonT(40)
        <3>4. rest \o c \in Seq(Bytes)
            BY Elements
        <3> QED
            BY <3>2, <3>3, <3>4
    <2>11. Framed(ps, W, received, m_nCurPacketSize, m_pPacket, m_stRecvBuffer)
        BY <1>2, <2>2, <2>4, <2>6, <2>9 DEF RecvInv
    <2>12. PICK b \in Buffers(Bytes), n \in Nat : b = m_stRecvBuffer /\ n = b.n /\ n <= size
        <3>1. m_stRecvBuffer \in Buffers(Bytes)
            BY <2>11 DEF Framed
        <3> QED
            BY <2>2, <3>1, BufferFacts
    <2>13. PICK len \in Nat : len = LenSize /\ len <= size /\ (~ starved => n < len)
        BY <1>2, <2>2, <2>12, RecvAssumption DEF RecvInv
    <2>14. CASE ~ fits(fresh)
        <3>1. lost' = TRUE
            BY <2>1, <2>14
        <3>2. RecvInv'
            BY <3>1 DEF RecvInv
        <3>3. ~ (n + k <= size)
            BY <2>2, <2>5, <2>12, <2>14 DEF HasRoom
        <3>4. ~ starved => k > size - len
            BY <2>3, <2>13, <3>3
        <3>5. arrived' - arrived = k
            BY <2>1, <2>2, <2>3
        <3> QED
            BY <2>2, <2>13, <3>2, <3>4, <3>5
    <2>15. CASE fits(fresh)
        <3>1. PICK b2 : b2 = Write(b, fresh)
            OBVIOUS
        <3>2. /\ b2 \in Buffers(Bytes) /\ b2.n = n + k /\ n + k <= size
              /\ Contents(b2) = Contents(b) \o fresh
            <4>1. HasRoom(b, fresh)
                BY <2>12, <2>15
            <4>2. b2 \in Buffers(Bytes) /\ b2.n = b.n + Len(fresh) /\ Contents(b2) = Contents(b) \o fresh
                BY <2>5, <3>1, <4>1, WriteAppends
            <4>3. b.n + Len(fresh) <= SIZE
                BY <4>1 DEF HasRoom
            <4> QED
                BY <2>2, <2>5, <2>12, <4>2, <4>3
        <3>3. Framed(ps, W2, received, m_nCurPacketSize, m_pPacket, b2)
            BY <2>5, <2>6, <2>9, <2>11, <2>12, <3>2, FramedTakes
        <3>4. PICK s \in MakeMessage(b2) :
                  /\ m_stRecvBuffer' = s.buf /\ m_nCurPacketSize' = s.cur /\ m_pPacket' = s.pkt
                  /\ received' = received \o s.out
                  /\ starved' = (starved \/ s.starved)
                  /\ lost' = (s.lost \/ ~ fits(fresh))
            BY <2>1, <2>12, <2>15, <3>1
        <3>5. Reading(ps, W2, received, b2.n, SIZE, s)
            BY <2>10, <3>3, <3>4, MakeMessageReads
        <3>6. s \in Readers
            BY <3>5 DEF Reading
        <3>7. lost' = s.lost
            BY <2>15, <3>4, <3>6 DEF Readers
        <3>8. s.lost => (~ starved => k > size - len)
            <4>1. s.lost => n + k = size
                BY <2>2, <3>2, <3>5 DEF Reading
            <4> QED
                BY <2>3, <2>13, <4>1
        <3>9. arrived' - arrived = k
            BY <2>1, <2>2, <2>3
        <3>10. ASSUME ~ s.lost
               PROVE  Framed(taken', SubSeq(wire', 1, arrived'), received', m_nCurPacketSize', m_pPacket', m_stRecvBuffer')
            BY <2>7, <2>8, <2>9, <3>4, <3>5, <3>10 DEF Reading
        <3>11. ASSUME ~ s.lost, ~ starved' PROVE m_stRecvBuffer'.n < LenSize
            <4>1. s.buf \in Buffers(Bytes) /\ ~ s.starved
                BY <3>4, <3>6, <3>11 DEF Readers
            <4>2. PICK h \in Nat : h = s.buf.n
                BY <4>1, BufferFacts
            <4>3. CASE s.stop
                BY <3>4, <3>5, <3>11, <4>1, <4>3 DEF Reading
            <4>4. CASE ~ s.stop
                <5>1. h + size <= n + k \/ h = 0
                    BY <2>2, <3>2, <3>5, <4>2, <4>4 DEF Reading
                <5>2. h = 0
                    BY <2>3, <3>2, <5>1
                <5>3. 0 < LenSize
                    BY RecvAssumption, SizeAssumption
                <5> QED
                    BY <3>4, <4>2, <5>2, <5>3
            <4> QED
                BY <4>3, <4>4
        <3>12. RecvInv'
            BY <3>7, <3>10, <3>11 DEF RecvInv
        <3> QED
            BY <2>2, <2>13, <3>7, <3>8, <3>9, <3>12
    <2> QED
        BY <2>14, <2>15
<1> QED
    BY <1>1, <1>2

LEMMA RecvInvNext ==
    ASSUME SendInv, Balance, RecvInv, Closes \/ Grows \/ OnRead
    PROVE  RecvInv' /\ (~ lost /\ lost' => arrived' - arrived > SIZE - LenSize \/ starved)
<1>1. CASE Closes
    BY <1>1, RecvCleared DEF Closes, CloseSocket, RecvClear
<1>2. CASE Grows
    <2>1. UNCHANGED <<m_stRecvBuffer, m_nCurPacketSize, m_pPacket, arrived, received, starved, lost>>
        BY <1>2 DEF Grows, recvVars
    <2>2. SubSeq(wire', 1, arrived') = SubSeq(wire, 1, arrived)
        <3>1. arrived \in Nat /\ arrived <= Len(wire)
            BY DEF Balance
        <3>2. CASE wire' = wire
            BY <2>1, <3>2
        <3>3. CASE \E bytes \in Seq(Bytes) : wire' = wire \o bytes
            BY <2>1, <3>1, <3>3, WireType, PrefixStays
        <3> QED
            BY <1>2, <3>2, <3>3 DEF Grows
    <2>3. taken' = taken \/ \E p \in Packets : taken' = Append(taken, p)
        BY <1>2 DEF Grows
    <2>4. ASSUME ~ lost'
          PROVE  Framed(taken', SubSeq(wire', 1, arrived'), received', m_nCurPacketSize', m_pPacket', m_stRecvBuffer')
        <3>1. Framed(taken, SubSeq(wire, 1, arrived), received, m_nCurPacketSize, m_pPacket, m_stRecvBuffer)
            BY <2>1, <2>4 DEF RecvInv
        <3>2. taken \in Seq(Packets)
            BY DEF SendInv
        <3> QED
            BY <2>1, <2>2, <2>3, <3>1, <3>2, FramedGrows
    <2> QED
        BY <2>1, <2>4 DEF RecvInv
<1>3. CASE OnRead
    BY <1>3, OnReadFrames
<1> QED
    BY <1>1, <1>2, <1>3

\* The invariant of both ends.
EndsInv == SendInv /\ Balance /\ RecvInv

LEMMA EndsStart == StreamInit => EndsInv
<1>1. StreamInit => RecvInv
    <2> SUFFICES ASSUME StreamInit PROVE RecvInv
        OBVIOUS
    <2>1. SubSeq(<< >>, 1, 0) = << >>
        <3>1. PICK e \in Seq(Bytes) : e = << >> /\ Len(e) = 0
            BY EmptySeq
        <3>2. SubSeq(e, 1, 0) \in Seq(Bytes) /\ Len(SubSeq(e, 1, 0)) = 0
            BY <3>1, Cut
        <3> QED
            BY <3>1, <3>2, EmptySeq
    <2> QED
        BY <2>1, NothingFramed DEF StreamInit, Init, RecvInit, RecvInv
<1> QED
    BY <1>1, StreamStart DEF EndsInv

LEMMA EndsNext ==
    ASSUME EndsInv, [StreamNext]_streamVars
    PROVE  EndsInv' /\ (~ lost /\ lost' => arrived' - arrived > SIZE - LenSize \/ starved)
BY StreamStep, SendInvNext, BalanceNext, RecvInvNext DEF EndsInv

LEMMA EndsAlways == StreamSpec => []EndsInv
<1>1. EndsInv /\ [StreamNext]_streamVars => EndsInv'
    BY EndsNext
<1> QED
    BY <1>1, EndsStart, PTL DEF StreamSpec

\* While framing is not lost, the packets handed up are the first of those the
\* sender took, whole, and with the packet being read and the bytes buffered
\* they are exactly the bytes received: however the kernel cuts the stream,
\* OnRead and MakeMessage neither join nor split nor skip a packet.
THEOREM FramesStayIntact == StreamSpec => []FramesIntact
<1>1. EndsInv => FramesIntact
    <2> SUFFICES ASSUME EndsInv, ~ lost PROVE FramesIntact
        BY DEF FramesIntact
    <2>1. /\ Framed(taken, SubSeq(wire, 1, arrived), received, m_nCurPacketSize, m_pPacket, m_stRecvBuffer)
          /\ ~ starved => m_stRecvBuffer.n < LenSize
        BY DEF EndsInv, RecvInv
    <2>2. Consistent(m_stRecvBuffer)
        BY <2>1 DEF Framed, Buffers
    <2> QED
        BY <2>1, <2>2 DEF Framed, FramesIntact
<1> QED
    BY <1>1, EndsAlways, PTL

\* Framing is lost only by a read that delivers more than SIZE - LenSize bytes at
\* once, or after memory ran out.
THEOREM FramingSurvivesSmallReads == StreamSpec => LostOnlyByBurst
<1>1. EndsInv /\ [StreamNext]_streamVars
          => [~ lost /\ lost' => arrived' - arrived > SIZE - LenSize \/ starved]_streamVars
    BY EndsNext
<1> QED
    BY <1>1, EndsAlways, PTL DEF StreamSpec, LostOnlyByBurst
=============================================================================
