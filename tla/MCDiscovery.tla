---------------------------- MODULE MCDiscovery ----------------------------
(* Instances of Discovery for TLC *)
EXTENDS Discovery

OneDevice == << [s |-> "IGD", ver |-> 1, uuid |-> "igd", device |-> TRUE] >>
OneUuid == <<"igd">>
OneGroup == << <<"v4">> >>
St(base, ver) == [base |-> base, ver |-> ver]
Searches == {<<St("IGD", 2), St("igd", 0)>>, <<St("ssdp:all", 0)>>}
Setup(strict, failing, n, searches) ==
  [strict |-> strict, delayed |-> strict, failing |-> failing, faults |-> n, searches |-> searches]
Builds == {Setup(strict, {"again", "error"}, 3, {}) : strict \in BOOLEAN}
          \cup {Setup(TRUE, {"error"}, 0, Searches), Setup(FALSE, {"again", "error"}, 1, Searches)}
OtherPackets == {[kind |-> "M-SEARCH", st |-> St("IGD", 0), mx |-> 0, from |-> "other", lan |-> FALSE]}
=============================================================================
