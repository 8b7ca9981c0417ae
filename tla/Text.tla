------------------------------- MODULE Text ---------------------------------
(***************************************************************************)
(* Texts (src/common/common_api.cpp): UTF-8, base64, numbers, ports and    *)
(* the age in an identity card, which the framework offers to the          *)
(* application.  A text is the sequence of its bytes.  A function that     *)
(* fills an array yields all that it writes, also behind the array's end,  *)
(* and whether it says that it succeeded.                                  *)
(***************************************************************************)
EXTENDS Integers, Sequences, FiniteSets, SequencesExt, TLC

UIntRange == 65536          \* 2^32, smaller

Nothing == [out |-> << >>, ok |-> TRUE]
Fails(r) == [r EXCEPT !.ok = FALSE]
Adds(r, bytes) == [r EXCEPT !.out = @ \o bytes]

\* The bytes of a code.
Utf8(u) ==
    IF u >= 2048 THEN <<224 + (u \div 4096), 128 + ((u % 4096) \div 64), 128 + (u % 64)>>
    ELSE IF u >= 128 THEN <<192 + (u \div 64), 128 + (u % 64)>> ELSE <<u>>

\* The count is compared with the size less the bytes, as unsigned numbers: one byte is
\* kept free, and a size below that of a code is very large.
UnicodeToUTF8(codes, size) ==
    LET Code(r, u) == IF ~r.ok THEN r
                      ELSE IF Len(r.out) >= (size - Len(Utf8(u))) % UIntRange THEN Fails(r) ELSE Adds(r, Utf8(u))
    IN  FoldLeft(Code, Nothing, codes)

\* The length of the code a byte begins; 0: none.
Lead(b) == IF b \div 16 = 14 THEN 3 ELSE IF b \div 32 = 6 THEN 2 ELSE IF b <= 127 THEN 1 ELSE 0
CodeAt(s, i) == LET n == Lead(s[i]) IN
    IF n = 3 THEN (s[i] % 16) * 4096 + (s[i + 1] % 64) * 64 + (s[i + 2] % 64)
    ELSE IF n = 2 THEN (s[i] % 32) * 64 + (s[i + 1] % 64) ELSE s[i]

\* Each byte where a code begins is visited; the last code must be there as a whole.  The
\* count is compared with the size after it has reached it.
Walk(s, Visit(_, _), start) ==
    LET At(r, i) == IF ~r.ok \/ i # r.next THEN r
                    ELSE LET n == Lead(s[i])
                             v == Visit(r, i)
                         IN  IF n = 0 \/ i + n > Len(s) + 1 \/ ~v.ok THEN Fails(r) ELSE [v EXCEPT !.next = i + n]
    IN  FoldLeft(At, start, [i \in 1 .. Len(s) |-> i])
UTF8ToUnicode(s, size) ==
    Walk(s, LAMBDA r, i : IF Len(r.out) > size THEN Fails(r) ELSE IF i + Lead(s[i]) > Len(s) + 1 THEN r ELSE Adds(r, <<CodeAt(s, i)>>),
         [next |-> 1] @@ Nothing)
GetUnicodeLengthFromUTF8Buffer(s) ==
    LET r == Walk(s, LAMBDA t, i : [t EXCEPT !.count = @ + 1], [next |-> 1, count |-> 0, ok |-> TRUE]) IN IF r.ok THEN r.count ELSE -1

\* Two bytes of a code page for all that is not ASCII; 127 is taken for that, too.
AnsiCodeLengthFromUnicodeBuffer(codes) == FoldLeft(LAMBDA n, u : n + IF u < 127 THEN 1 ELSE 2, 0, codes)
-----------------------------------------------------------------------------
\* base64: a digit is its value, "=" is Pad.
Pad == 64
Group(s, k) == LET At(i) == IF i <= Len(s) THEN s[i] ELSE 0
                   a == At(3 * k - 2)  b == At(3 * k - 1)  c == At(3 * k)
                   left == Len(s) - 3 * (k - 1)
               IN  <<a \div 4, (a % 4) * 16 + (b \div 16),
                     IF left > 1 THEN (b % 16) * 4 + (c \div 64) ELSE Pad, IF left > 2 THEN c % 64 ELSE Pad>>
base64_encode(s, size) ==
    IF ((Len(s) + 3) \div 3) * 4 >= size THEN Fails(Nothing)
    ELSE Adds(Nothing, FlattenSeq([k \in 1 .. (Len(s) + 2) \div 3 |-> Group(s, k)]))

\* A group yields three bytes, and counts those that "=" does not stand for.
Bytes(t, k) == LET D(i) == LET d == t[4 * k - 4 + i] IN IF d = Pad THEN 0 ELSE d
               IN  <<(D(1) * 4 + (D(2) \div 16)) % 256, (D(2) * 16 + (D(3) \div 4)) % 256, (D(3) * 64 + D(4)) % 256>>
Flags(t, k) == Cardinality({i \in 1 .. 4 : t[4 * k - 4 + i] = Pad})
\* The length is added to what the caller had in destlen.
base64_decode(t, size, destlen) ==
    LET n == Len(t) \div 4
    IN  IF Len(t) % 4 # 0 \/ n * 3 > size THEN [out |-> << >>, ok |-> FALSE, len |-> destlen]
        ELSE [out |-> FlattenSeq([k \in 1 .. n |-> Bytes(t, k)]), ok |-> TRUE,
              len |-> FoldLeft(LAMBDA l, k : l + 3 - Flags(t, k), destlen, [k \in 1 .. n |-> k])]
-----------------------------------------------------------------------------
\* Numbers: a digit is its value, anything else is Other.
Other == 99
Minus == 98
Prefix(s, limit) == LET bad == {k \in DOMAIN s : s[k] >= limit}
                    IN  SubSeq(s, 1, IF bad = {} THEN Len(s) ELSE (CHOOSE k \in bad : \A j \in bad : k <= j) - 1)
Suffix(s, limit) == Reverse(Prefix(Reverse(s), limit))
Value(digits, base) == FoldLeft(LAMBDA v, d : v * base + d, 0, digits)
atoi64(s) == IF s # << >> /\ Head(s) = Minus THEN 0 - Value(Prefix(Tail(s), 10), 10) ELSE Value(Prefix(s, 10), 10)
\* "0x" and at most eight digits, read from the right up to one that is none.
HexToInt32(s) == IF Len(s) \notin 1 .. 8 THEN -1 ELSE Value(Suffix(s, 16), 16)
\* Numbers with a separator between them.
StringToPorts(numbers) == [k \in DOMAIN numbers |-> atoi64(numbers[k]) % 65536]
GetBitNum(u) == FoldLeft(LAMBDA n, i : n + ((u \div (2 ^ i)) % 2), 0, <<0, 1, 2, 3, 4, 5, 6, 7>>)

\* IsPupil: a card has the date of birth, with a year of two digits if it is of the old
\* form; a card that is none makes a pupil, as does a month or a day that is none.
IsPupil(card, today) ==
    LET year == IF card.old THEN 1900 + (card.year % 100) ELSE card.year
    IN  \/ ~card.complete
        \/ year + 18 > today.year
        \/ /\ year + 18 = today.year
           /\ \/ card.month \notin 1 .. 12
              \/ card.month > today.month
              \/ card.month = today.month /\ (card.day \notin 1 .. 31 \/ card.day > today.day)
=============================================================================
