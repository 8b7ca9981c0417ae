---------------------------- MODULE MsgEventMgt -----------------------------
(***************************************************************************)
(* The tables of handlers (src/frame_msgevent_mgt.h) and the choice of the *)
(* handlers a message is given to (CFrameMainThread::OnMessageEvent,       *)
(* OnSystemEvent).  s is the object: its tables for messages, for default  *)
(* messages and for system events, arrays with a count.  The bindings of   *)
(* sessions, the fourth table, are part of SessionMgt.                     *)
(*                                                                         *)
(* An entry has a handler for messages of servers ("SS") or one for those  *)
(* of clients ("CS"); the other pointer is NULL.  What is called is a pair *)
(* of the way and the handler.                                             *)
(***************************************************************************)
EXTENDS Integers, Sequences

CONSTANTS
    MaxMsgEvents, MaxDefEvents, MaxSysEvents,  \* MAX_MSGEVENT_COUNT and its like
    CloseNotify                                 \* CLOSE_NOTIFY_EVENT

Null == 0
Garbage == [id |-> "garbage", handler |-> Null]

\* The constructor sets nothing: n is what m_nSysEventCount happens to be.
New(n) == [msg |-> << >>, def |-> << >>, sys |-> [k \in 1 .. n |-> Garbage]]

\* Whatever was registered before is gone, but for the system events.
Initialize(s) == [s EXCEPT !.msg = << >>, !.def = << >>]

Append1(table, entry, max) ==
    IF entry.handler # Null /\ Len(table) < max THEN Append(table, entry) ELSE table

\* AddMsgEvent for a handler of either side; proc: it is called by a method of its own.
AddMsgEventSS(s, id, handler, proc) ==
    [s EXCEPT !.msg = Append1(@, [id |-> id, side |-> "SS", handler |-> handler, proc |-> proc], MaxMsgEvents)]
AddMsgEventCS(s, id, handler, proc) ==
    [s EXCEPT !.msg = Append1(@, [id |-> id, side |-> "CS", handler |-> handler, proc |-> proc], MaxMsgEvents)]

AddDefEventSS(s, id, handler) ==
    [s EXCEPT !.def = Append1(@, [id |-> id, side |-> "SS", handler |-> handler], MaxDefEvents)]
AddDefEventCS(s, id, handler) ==
    [s EXCEPT !.def = Append1(@, [id |-> id, side |-> "CS", handler |-> handler], MaxDefEvents)]

AddSysEvent(s, id, handler) ==
    [s EXCEPT !.sys = Append1(@, [id |-> id, handler |-> handler], MaxSysEvents)]
-----------------------------------------------------------------------------
\* All the entries of a message.
GetMessageEvent(s, id) == SelectSeq(s.msg, LAMBDA e : e.id = id)
GetDefEvent(s, id) == SelectSeq(s.def, LAMBDA e : e.id = id)

\* The first entry of an event, as a sequence of at most one.
GetSystemEventProc(s, id) ==
    LET all == SelectSeq(s.sys, LAMBDA e : e.id = id) IN IF all = << >> THEN << >> ELSE <<Head(all)>>

OfSide(entries, side) == SelectSeq(entries, LAMBDA e : e.side = side)
Called(how, entries) == [k \in DOMAIN entries |-> <<how, entries[k].handler>>]

OnSystemEvent(s, id) == Called("event", GetSystemEventProc(s, id))

DefaultsOf(s, id, side) == Called("default", OfSide(GetDefEvent(s, id), side))

\* Each handler is given the body decoded anew: none if there is no body for the
\* message (declared) or it cannot be decoded.
Procs(entries) == [k \in DOMAIN entries |-> <<IF entries[k].proc THEN "proc" ELSE "message", entries[k].handler>>]
HandlersOf(s, id, side, readable) ==
    IF readable THEN Procs(OfSide(GetMessageEvent(s, id), side)) ELSE << >>

\* (mutant) the defaults of a client's message do not keep it from the handlers
OnMessageEventCS_Both(s, id, readable) == DefaultsOf(s, id, "CS") \o HandlersOf(s, id, "CS", readable)

\* A message of a client: to the defaults or, if it has none, to the handlers.
OnMessageEventCS(s, id, readable) ==
    IF DefaultsOf(s, id, "CS") # << >> THEN DefaultsOf(s, id, "CS") ELSE HandlersOf(s, id, "CS", readable)

\* The notice that a connection closed has no body, and goes to pHandleSS of every
\* entry, NULL though it may be.
ClosedTo(entries) == [k \in DOMAIN entries |->
    IF entries[k].side = "SS" THEN <<"message", entries[k].handler>> ELSE <<"message", Null>>]

\* A message of a server: to the defaults, and then to the session that waits for it
\* if it answers one, to the handlers if not.
OnMessageEventSS(s, head, bound, readable) ==
    DefaultsOf(s, head.id, "SS") \o
    (IF head.answers THEN IF bound THEN << <<"session", head.session>> >> ELSE << >>
     ELSE IF head.id = CloseNotify THEN ClosedTo(GetMessageEvent(s, head.id))
     ELSE HandlersOf(s, head.id, "SS", readable))
=============================================================================
