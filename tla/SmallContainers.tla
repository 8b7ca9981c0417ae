-------------------------- MODULE SmallContainers --------------------------
(***************************************************************************)
(* The containers of src/common that keep their objects in a plain array:  *)
(* CSet (common_set.h), CSafeArray and CSafeArrayP (common_safearray.h),   *)
(* CSList (common_list.h), a list linked through the array, and CString    *)
(* (common_string.h), a text of bounded length.  A set is the sequence of  *)
(* its objects, an array a function from positions.                        *)
(***************************************************************************)
EXTENDS Integers, Sequences, SequencesExt

CONSTANT SmallCapacity      \* CAPACITY

Nil == -1                   \* enmInvalidNodeIndex
-----------------------------------------------------------------------------
EmptySet == << >>
Check(s, object) == object \in Range(s)
\* A full set is full for an object it has, too.
SetInsert(s, object) == IF Len(s) = SmallCapacity \/ Check(s, object) THEN s ELSE Append(s, object)
\* The last object takes the place of the first that is equal.
SetRemove(s, object) ==
    IF ~Check(s, object) THEN s
    ELSE LET at == CHOOSE k \in DOMAIN s : s[k] = object /\ \A j \in 1 .. k - 1 : s[j] # object
         IN  Front([s EXCEPT ![at] = Last(s)])
SetObjects(s, objects) == IF Len(objects) > SmallCapacity THEN s ELSE objects
GetObjects(s, size) == SubSeq(s, 1, IF size < Len(s) THEN size ELSE Len(s))
SetClear(s) == << >>
-----------------------------------------------------------------------------
NewArray == [i \in 0 .. SmallCapacity - 1 |-> 0]
ArraySet(a, i, x) == IF i \in DOMAIN a THEN [a EXCEPT ![i] = x] ELSE a
ArrayCopy(a, values) == [i \in DOMAIN a |-> IF i < Len(values) THEN values[i + 1] ELSE a[i]]
Copied(values) == IF Len(values) < SmallCapacity THEN Len(values) ELSE SmallCapacity
ArraySetP(a, i, x) == ArraySet(a, i, x)
ArrayCopyP(a, values) == ArrayCopy(a, values)
-----------------------------------------------------------------------------
\* CSList: the objects are in the nodes from head on, and tail is the node behind the
\* last one.  There is a spare node in front of the first.
SListNodes == 0 .. SmallCapacity + 1
SListInitialize == [head |-> 1, tail |-> 1, used |-> 0, data |-> [i \in SListNodes |-> 0],
                    prev |-> [i \in SListNodes |-> i - 1],
                    next |-> [i \in SListNodes |-> IF i = SmallCapacity + 1 THEN Nil ELSE i + 1]]
SListIsFull(s) == s.next[s.tail] = Nil
SListPushBack(s, data) ==
    IF SListIsFull(s) THEN s
    ELSE [s EXCEPT !.data[s.tail] = data, !.tail = s.next[s.tail], !.used = @ + 1]

\* Equal compares the node's object with itself in its second half, so that it means
\* "not less": the first object that is not greater is found.
Equal(data, object) == data >= object
RECURSIVE FindFrom(_, _, _)
FindFrom(s, i, data) == IF i = s.tail THEN Nil ELSE IF Equal(data, s.data[i]) THEN i ELSE FindFrom(s, s.next[i], data)
SListGetIndex(s, data) == FindFrom(s, s.head, data)

\* Remove: the node goes behind the tail.  The node that follows it there keeps its old
\* link back, and the node in front of the tail is known by such a link alone.
SListRemove(s, data) ==
    LET i == SListGetIndex(s, data)
        p == s.prev[i]
        n == s.next[i]
        m == [s EXCEPT !.used = @ - 1, !.head = IF @ = i THEN n ELSE @]
        out == [m EXCEPT !.next[p] = n, !.prev[n] = p]
    IN  IF i = Nil THEN s
        ELSE IF s.prev[s.tail] = i THEN [m EXCEPT !.tail = i]
        ELSE [out EXCEPT !.prev[i] = s.tail, !.next[i] = out.next[s.tail], !.next[s.tail] = i]

GetFirstIndex(s) == IF s.head = s.tail THEN Nil ELSE s.head
GetPrexIndex(s, i) == IF i \in SListNodes THEN s.prev[i] ELSE Nil
GetNextIndex(s, i) == IF i \in SListNodes THEN s.next[i] ELSE Nil
-----------------------------------------------------------------------------
\* The nodes from the first on, by GetNextIndex.
RECURSIVE Walk(_, _, _)
Walk(s, i, n) == IF i \in {s.tail, Nil} \/ n = 0 THEN << >> ELSE <<i>> \o Walk(s, GetNextIndex(s, i), n - 1)
SListOrder(s) == Walk(s, GetFirstIndex(s), SmallCapacity + 2)
SListContents(s) == [k \in DOMAIN SListOrder(s) |-> s.data[SListOrder(s)[k]]]

\* A Remove that takes the last node for another, or the only one, breaks the list.
RemovesRightly(s, data) ==
    LET i == SListGetIndex(s, data)
    IN  i = Nil \/ s.prev[s.tail] # i \/ (i = Last(SListOrder(s)) /\ i # s.head)
-----------------------------------------------------------------------------
\* CString: m_char has one cell more than SIZE, for the zero behind a full text.  A char*
\* is a sequence of numbers other than zero.  A store outside m_char is noted.
SIZE == SmallCapacity
ZeroString == [len |-> 0, m_char |-> [k \in 1 .. SIZE + 1 |-> 0], outside |-> FALSE]
GetString(s) == SelectInSeq(s.m_char, LAMBDA ch : ch = 0) - 1
CText(s) == SubSeq(s.m_char, 1, GetString(s))

\* strncpy fills up with zeros to n; strncat adds up to n and a zero.
strncpy(s, text, n) == [s EXCEPT !.m_char = [k \in DOMAIN @ |-> IF k > n THEN @[k] ELSE IF k <= Len(text) THEN text[k] ELSE 0],
                                 !.outside = @ \/ n > SIZE + 1]
strncat(s, text, n) ==
    LET at == GetString(s)
        m == IF Len(text) < n THEN Len(text) ELSE n
    IN  [s EXCEPT !.m_char = [k \in DOMAIN @ |-> IF k - at \in 1 .. m THEN text[k - at] ELSE IF k = at + m + 1 THEN 0 ELSE @[k]],
                  !.outside = @ \/ at + m > SIZE]

\* What does not fit is cut off.
SetString(text) ==
    IF Len(text) < SIZE THEN [strncpy(ZeroString, text, Len(text)) EXCEPT !.len = Len(text)]
    ELSE [strncpy(ZeroString, text, SIZE) EXCEPT !.len = SIZE]
Construct(text) == SetString(text)
StringClear(s) == [s EXCEPT !.len = 0, !.m_char = ZeroString.m_char]
\* What is behind the zero stays.
AssignString(s, t) ==
    LET n == IF t.len < SIZE THEN t.len ELSE SIZE
        copied == [strncpy(s, CText(t), n) EXCEPT !.len = n]
    IN  [copied EXCEPT !.m_char[n + 1] = 0]

\* +, of two objects and of an object and a char*.  The char* in front is taken whole; what
\* is left of SIZE then is a number without a sign.
Joined(first, n, text) ==
    LET copied == strncpy(ZeroString, first, n)
    IN  IF n + Len(text) >= SIZE
        THEN [strncat(copied, text, IF n > SIZE THEN Len(text) ELSE SIZE - n) EXCEPT !.len = SIZE]
        ELSE [strncat(copied, text, Len(text)) EXCEPT !.len = n + Len(text)]
AddString(s, t) == Joined(CText(s), s.len, CText(t))
AddText(s, text) == Joined(CText(s), s.len, text)
TextAdd(text, s) == Joined(text, Len(text), CText(s))
=============================================================================
