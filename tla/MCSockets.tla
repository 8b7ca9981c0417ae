----------------------------- MODULE MCSockets -----------------------------
(***************************************************************************)
(* Instances of Sockets for TLC: a server for clients with one and with    *)
(* two application threads, one that other servers connect to, and ones    *)
(* that connect to servers, alone or beside others, with few descriptors.  *)
(***************************************************************************)
EXTENDS Sockets

GameServer == <<1, 1>>
Store == <<2, 1>>
OtherStore == <<2, 2>>
Base == [inside |-> 0, outside |-> 0, peers |-> << >>, callers |-> {}, threads |-> 1,
         links |-> 2, msgs |-> 2, failures |-> 2]
Servers ==
    { [Base EXCEPT !.outside = 2],
      [Base EXCEPT !.outside = 2, !.threads = 2, !.failures = 1],
      [Base EXCEPT !.inside = 2, !.callers = {GameServer, Store}, !.links = 3, !.failures = 1],
      [Base EXCEPT !.peers = <<GameServer, Store>>, !.links = 0, !.msgs = 1, !.failures = 1],
      [Base EXCEPT !.peers = <<Store, OtherStore>>, !.links = 0, !.msgs = 1, !.failures = 1],
      [Base EXCEPT !.outside = 1, !.peers = <<Store>>, !.links = 1, !.msgs = 1, !.failures = 1],
      [Base EXCEPT !.inside = 1, !.peers = <<Store>>, !.callers = {GameServer}, !.links = 1, !.msgs = 1, !.failures = 1] }
=============================================================================
