----------------------------- MODULE MCLibrary -----------------------------
EXTENDS Library
\* The containers, with the number of operations tried on each.
MCOps == [pool |-> 8, hash |-> 6, tree |-> 7, heap |-> 6, cache |-> 9, rank |-> 6, list |-> 5, set |-> 4, array |-> 2, slist |-> 8, string |-> 4,
          events |-> 4, config |-> 2, logs |-> 6, crypt |-> 3, calendar |-> 2,
          posting |-> 3, routing |-> 6, handlers |-> 7, shared |-> 7]
MCKinds == DOMAIN MCOps \cup {"memory", "codec", "text"}
\* A complete configuration, and what can be missing or wrong in one.
MCListeners == <<[type |-> "inside", address |-> "any", port |-> 1, desc |-> <<1>>],
                 [type |-> "outside", address |-> "host", port |-> 2, desc |-> <<1, 2>>]>>
MCPeers == <<[address |-> "host", port |-> 3, id |-> 5], [address |-> "other", port |-> 4, id |-> 6]>>
MCCommon == [level |-> "info", zone |-> 1, server |-> 7, netType |-> 1, threads |-> 2]
MCBase == [common |-> MCCommon, fileSize |-> 9, net |-> MCListeners, peers |-> MCPeers]
MCBases == {MCBase, Missing} \cup
    {[MCBase EXCEPT !.common = n] : n \in {Missing, [MCCommon EXCEPT !.server = Missing],
        [level |-> "error", zone |-> Missing, server |-> 7, netType |-> Missing, threads |-> Missing],
        [MCCommon EXCEPT !.level = Missing], [MCCommon EXCEPT !.level = "loud"]}} \cup
    {[MCBase EXCEPT !.fileSize = Missing]} \cup
    {[MCBase EXCEPT !.net = n] : n \in {Missing, << >>, <<MCListeners[2]>>,
        [MCListeners EXCEPT ![2].type = "other"], [MCListeners EXCEPT ![2].address = Missing],
        [MCListeners EXCEPT ![1].port = Missing], [MCListeners EXCEPT ![2].desc = Missing]}} \cup
    {[MCBase EXCEPT !.peers = n] : n \in {Missing, << >>, <<MCPeers[2]>>, [MCPeers EXCEPT ![1].address = Missing],
        [MCPeers EXCEPT ![2].port = Missing], [MCPeers EXCEPT ![2].id = Missing]}}
MCRequest == [id |-> 1, source |-> 1, dest |-> 2, type |-> "req", trans |-> "p2p", timeout |-> 5, resp |-> 2, noti |-> 3]
MCResponse == [id |-> 2, source |-> 2, dest |-> 1, type |-> "resp", trans |-> "regist"]
MCFiles == {Missing, << >>, <<MCRequest, MCResponse>>, <<MCResponse, [MCRequest EXCEPT !.id = 2]>>,
            <<MCResponse, [MCRequest EXCEPT !.noti = Missing]>>, <<[MCResponse EXCEPT !.trans = "mail"]>>}
MCUsers == {[text |-> "first", ok |-> TRUE], [text |-> "second", ok |-> TRUE], [text |-> "third", ok |-> FALSE]}
MCKey == [k \in 1 .. 16 |-> (3 * k) % 16]
MCSessionKeys == {MCKey, [k \in 1 .. 16 |-> 15 - MCKey[k]]}
\* Days of eight seconds; some at the ends of months and years, and at the switches.
MCDay(y, m, d) == Dates!DayNumber(y, m, d) * 8
MCSummer == {<<794 * 8 + 2, 1032 * 8 + 4>>}    \* 5 March and 29 October 1972
MCInstants == {MCDay(1971, 2, 27), MCDay(1971, 12, 30) + 3, MCDay(1972, 2, 28), MCDay(1972, 3, 4), MCDay(1972, 4, 29) + 7,
               MCDay(1972, 10, 28), MCDay(1972, 12, 30) + 5}
MCToday == [year |-> 2012, month |-> 2, day |-> 2]
MCSizes == 0 .. 6 \cup {9, 10, 13}
MCThreadLogs == <<"_netio", "_main">>
MCUserLogs == <<"user">>

MCLists == {"a", "b"}
MCKeys == 1 .. 4
MCThreads == {"net", "app"}
MCWants == {1, 2, 3, 5}
MCSeeds == 1 .. 3
=============================================================================
