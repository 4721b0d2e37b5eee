------------------------- MODULE MCVendorScheduler -------------------------
(* The mixes of requests, and of cancels and policy changes, that TLC explores. *)
EXTENDS VendorScheduler

Fast == [every |-> 1, background |-> 2]
Slow == [every |-> 2, background |-> 3]
Rates == {Fast, Slow}
Waits == <<3, 4>>
Mix(prio, p, ops) == [prio |-> prio, policy |-> p, ops |-> ops]
AllMixes == {
  Mix(<<0, 1, 1, 2>>, Fast, {}),
  Mix(<<0, 1, 0>>, Fast, {"cancel"}),
  Mix(<<1, 2, 3>>, Slow, {"configure"}) }
=============================================================================
