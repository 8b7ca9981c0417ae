------------------------------- MODULE Crypt --------------------------------
(***************************************************************************)
(* Encryption: CXTEA of src/auth/Crypt.cpp and of src/common/              *)
(* common_crypt.cpp (the same code, there with 32 rounds fixed), and       *)
(* CFrameCrypt (src/frame_crypt.cpp), which takes the session key of a     *)
(* connection out of the token of its first message.                       *)
(*                                                                         *)
(* Bytes have four bits, so words of four bytes have sixteen; a number     *)
(* wraps there.  A buffer is a sequence of bytes, << >> is the return      *)
(* value zero.  noise stands for rand().                                   *)
(***************************************************************************)
EXTENDS Integers, Sequences, SequencesExt, Bitwise

CONSTANTS
    Rounds,         \* ENCRYPT_ROUNDS, fewer
    BitMapSize      \* sizeof(m_arrServerBitMap), shorter

B == 16
W == B ^ 4
DELTA == 40503      \* 2^16 over the golden ratio, as 0x9e3779b9 is 2^32 over it
Cell == 8           \* ENCRYPT_BLOCK_LENGTH_IN_BYTE
Zeros == 7          \* ZERO_LENGTH

\* A buffer of four bytes read as an int32_t, and written.
Word(b, at) == b[at] + B * b[at + 1] + B * B * b[at + 2] + B * B * B * b[at + 3]
BytesOf(w) == [k \in 1 .. 4 |-> (w \div (B ^ (k - 1))) % B]

Mix(w, sum, k, n) == (((((w * 16) % W) ^^ (w \div 32)) + w) % W) ^^ ((sum + Word(k, 1 + 4 * n)) % W)
Low(sum) == sum % 4
High(sum) == (sum \div 2048) % 4

\* One block: N rounds forth, or -N back.
Written(s) == BytesOf(s.y) \o BytesOf(s.z)
xtea(v, k, N) ==
    LET Forth(s, i) == LET sum == (s.sum + DELTA) % W
                           y == (s.y + Mix(s.z, s.sum, k, Low(s.sum))) % W
                       IN  [sum |-> sum, y |-> y, z |-> (s.z + Mix(y, sum, k, High(sum))) % W]
        Back(s, i) == LET sum == (s.sum + W - DELTA) % W
                          z == (s.z + W - Mix(s.y, s.sum, k, High(s.sum))) % W
                      IN  [sum |-> sum, z |-> z, y |-> (s.y + W - Mix(z, sum, k, Low(sum))) % W]
        start(sum) == [sum |-> sum, y |-> Word(v, 1), z |-> Word(v, 5)]
    IN  IF N > 0 THEN Written(FoldLeft(Forth, start(0), [i \in 1 .. N |-> i]))
        ELSE Written(FoldLeft(Back, start((DELTA * (0 - N)) % W), [i \in 1 .. 0 - N |-> i]))

XorCell(a, b) == [i \in 1 .. Cell |-> a[i] ^^ b[i]]
Cells(b) == [k \in 1 .. Len(b) \div Cell |-> SubSeq(b, Cell * (k - 1) + 1, Cell * k)]

\* The bytes that fill the first block, so that one byte of data is left for the last.
PadLength(n) == (Cell - ((1 + n + Zeros) % Cell)) % Cell

\* A block is combined with the block before it, encrypted and plain.
Link(s, crypted, plain, out) == [out |-> s.out \o out, crypted |-> crypted, plain |-> plain]
Begun(crypted, plain, out) == Link([out |-> << >>], crypted, plain, out)

EncryptFrom(first, rest, key, N) ==
    LET Add(s, p, e) == Link(s, e, p, e)
        Chain(s, p) == Add(s, p, XorCell(xtea(XorCell(p, s.crypted), key, N), s.plain))
        Begin(e) == Begun(e, first, e)
    IN  FoldLeft(Chain, Begin(xtea(first, key, N)), Cells(rest)).out
EncryptRoundN(text, room, key, N, noise) ==
    LET n == Len(text)
        pad == PadLength(n)
        first == <<8 * (noise \div 8) + pad>> \o [k \in 1 .. pad |-> noise] \o SubSeq(text, 1, Zeros - pad)
        rest == SubSeq(text, Zeros - pad + 1, n) \o [k \in 1 .. Zeros |-> 0]
    IN  IF n = 0 \/ 1 + n + Zeros + pad > room THEN << >> ELSE EncryptFrom(first, rest, key, N)

\* The zeros at the end tell whether it is the text that was encrypted.
Whole(all, n) == IF \E i \in 2 .. Cell : all.plain[i] # 0 THEN << >> ELSE SubSeq(all.out, 1, n)
DecryptFrom(first, pad, text, room, key, N) ==
    LET n == Len(text) - 1 - pad - Zeros
        Add(s, e, p) == Link(s, e, p, p)
        Chain(s, e) == Add(s, e, XorCell(xtea(XorCell(e, s.plain), key, N), s.crypted))
        begin == Begun(SubSeq(text, 1, Cell), first, SubSeq(first, 2 + pad, Cell))
    IN  IF n > room THEN << >> ELSE Whole(FoldLeft(Chain, begin, Tail(Cells(text))), n)
DecryptRoundN(text, room, key, N) ==
    LET Open(first) == DecryptFrom(first, first[1] % 8, text, room, key, N)
    IN  IF Len(text) % Cell # 0 \/ Len(text) <= Cell THEN << >> ELSE Open(xtea(SubSeq(text, 1, Cell), key, N))

\* CXTEA of src/auth, and of src/common.
AuthEncrypt(text, room, key, noise) == EncryptRoundN(text, room, key, Rounds, noise)
AuthDecrypt(text, room, key) == DecryptRoundN(text, room, key, 0 - Rounds)
Encrypt(text, room, key, noise) == EncryptRoundN(text, room, key, Rounds, noise)
Decrypt(text, room, key) == DecryptRoundN(text, room, key, 0 - Rounds)
GetSafeEncryptOutBufferLength(n) == n + 16
GetSafeDecryptOutBufferLength(n) == n
-----------------------------------------------------------------------------
(* CFrameCrypt.  conn is a CFrameConnection: initialised or not, the key,  *)
(* role and time of the player, the account type.                          *)

KeyLength == 16         \* crypt_key_length
g_arrTokeKey == [k \in 1 .. KeyLength |-> (5 * k) % B]
NoKey == [k \in 1 .. KeyLength |-> 0]
Connection == [init |-> FALSE, key |-> NoKey, role |-> 0, map |-> << >>, time |-> 0, account |-> 0]

\* Integers in a packet have the high byte first.
Coded(w, n) == [k \in 1 .. n |-> (w \div (B ^ (n - k))) % B]
Decoded(b, at, n) == FoldLeft(LAMBDA w, d : B * w + d, 0, SubSeq(b, at, at + n - 1))
Stack == -1             \* what happens to be on the stack

EncryptBody(conn, body, room, noise) == Encrypt(body, room, conn.key, noise)

Failed(conn, body) == [conn |-> conn, body |-> body, ok |-> FALSE]

\* The token: key, role, bit map and time, each taken as far as the token goes.
TakeToken(conn, token, account) ==
    LET keyed == [conn EXCEPT !.key = SubSeq(token, 1, KeyLength)]
        role == [keyed EXCEPT !.role = Decoded(token, KeyLength + 1, 4)]
        timeAt == KeyLength + 4 + BitMapSize
        mapped == [role EXCEPT !.map = SubSeq(token, KeyLength + 5, timeAt)]
    IN  IF Len(token) < KeyLength + 4 THEN [conn |-> keyed, ok |-> FALSE]
        ELSE IF Len(token) < timeAt + 4 THEN [conn |-> mapped, ok |-> FALSE]
        ELSE [conn |-> [mapped EXCEPT !.time = Decoded(token, timeAt + 1, 4), !.account = account, !.init = TRUE], ok |-> TRUE]

\* The first message of a connection: account type, size of the token, the token under
\* the key of the servers, the text under the key in the token.  The token stays in the
\* body, as long as it was encrypted; the connection keeps what a failure leaves in it.
TakeText(conn, body, token, text) ==
    IF text = << >> THEN Failed(conn, body)
    ELSE [conn |-> conn, ok |-> TRUE,
          body |-> SubSeq(body, 1, 3) \o token \o [k \in 1 .. Decoded(body, 2, 2) - Len(token) |-> Stack] \o text]
WithToken(body, room, token, taken) ==
    IF ~taken.ok THEN Failed(taken.conn, body)
    ELSE TakeText(taken.conn, body, token,
                  Decrypt(SubSeq(body, 4 + Decoded(body, 2, 2), Len(body)), room, taken.conn.key))
DecryptFirst(conn, body, room) ==
    LET Take(token) == IF token = << >> THEN Failed(conn, body)
                       ELSE WithToken(body, room, token, TakeToken(conn, token, body[1]))
    IN  IF Len(body) < 3 THEN Failed(conn, body)
        ELSE Take(Decrypt(SubSeq(body, 4, 3 + Decoded(body, 2, 2)), room, g_arrTokeKey))

DecryptBody(conn, body, room) ==
    IF ~conn.init THEN DecryptFirst(conn, body, room)
    ELSE LET text == Decrypt(body, room, conn.key)
         IN  IF text = << >> THEN Failed(conn, body) ELSE [conn |-> conn, ok |-> TRUE, body |-> text]
=============================================================================
