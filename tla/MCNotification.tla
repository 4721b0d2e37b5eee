--------------------------- MODULE MCNotification ---------------------------
(* Values for TLC: what a behaviour may meet, kept apart where the requests   *)
(* do not touch the same state.                                               *)
EXTENDS Notification

\* The submitter's mail, and a rule that informs the submitter on the same
\* channel.
Mail == [ch |-> "c", personal |-> TRUE, routed |-> FALSE]
Inform == [ch |-> "c", personal |-> TRUE, routed |-> TRUE]
AllTargets == {Mail, Inform}

Mode(ops, max, fan, crew, jobs) ==
    [ops |-> ops, max |-> max, fan |-> fan, crew |-> crew, jobs |-> jobs]

Mixes == {Mode({}, 0, {Mail, Inform}, {"w1"}, {1}),
          Mode({"account", "replay"}, 2, {Inform}, {"w1"}, {1}),
          Mode({"channel", "panic"}, 1, {Mail}, {"w1", "w2"}, {1}),
          Mode({"route", "channel"}, 2, {Inform}, {"w1"}, {1}),
          Mode({"panic", "test"}, 2, {Inform}, {"w1"}, {1}),
          Mode({"dispatch", "crash"}, 2, {Mail}, {"w1"}, {1}),
          Mode({"review", "replay"}, 2, {Inform}, {"w1"}, {1}),
          Mode({"job", "account"}, 2, {Mail}, {"w1"}, {1}),
          Mode({"settings", "account"}, 2, {Mail}, {"w1"}, {1}),
          Mode({"cleanup", "crash", "job"}, 3, {Mail}, {"w1"}, {1})}

\* Completions behind one another, with room for one delivery; and the faults
\* that leave a delivery to the recovery.
InformOnly == {Inform}
LiveMixes == {Mode({"settings", "job"}, 2, {Inform}, {}, {1, 2, 3}),
              Mode({"settings", "crash"}, 2, {Inform}, {"w1"}, {1}),
              Mode({"channel", "panic"}, 2, {Inform}, {"w1"}, {1}),
              Mode({"dispatch", "account"}, 2, {Inform}, {"w1"}, {1})}
=============================================================================
