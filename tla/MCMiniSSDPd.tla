---------------------------- MODULE MCMiniSSDPd ----------------------------
(* Instances of MiniSSDPd for TLC *)
EXTENDS MiniSSDPd

MCTypeOf == [x \in Devices \cup Services |-> [base |-> "urn", ver |-> 1]]
TwoLengths == {<<"a">>, <<"b", "b">>}
Programs == [c \in Clients |-> IF c = "f" THEN {"follow"} ELSE {"lookup", "submit"}]
OneService == <<[id |-> "s1", loc |-> <<"a">>]>>
TwoServices == <<[id |-> "s1", loc |-> <<"a">>], [id |-> "s2", loc |-> <<"a">>]>>
=============================================================================
