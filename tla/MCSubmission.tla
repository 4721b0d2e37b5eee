---------------------------- MODULE MCSubmission ----------------------------
(* Values for TLC: a calendar small enough for every kind of occurrence to    *)
(* wrap, with months shorter than the days anchors name.                      *)
EXTENDS Submission

Calendar == [m \in 0..12 |-> IF m % 2 = 0 THEN (m \div 2) * 3 ELSE (m \div 2) * 3 + 2]

Anchors(ds) == [d : ds, h : 0..HoursPerDay - 1]
Intervals(ds) == [start : Anchors(ds), stop : Anchors(ds)]
Preset(f, ds) == {[freq |-> f, ivs |-> {iv}, invert |-> b] : iv \in Intervals(ds), b \in BOOLEAN}
Split == {[freq |-> "daily", ivs |-> {v, w}, invert |-> b] :
             v, w \in Intervals({0}), b \in BOOLEAN}
AllPresets == Split \cup Preset("weekly", 0..DaysPerWeek - 1) \cup Preset("monthly", 1..3)

AllCadences == {[freq |-> "daily", d |-> 0, h |-> 0], [freq |-> "daily", d |-> 0, h |-> 1],
                [freq |-> "weekly", d |-> 1, h |-> 0]}

Both == {"r1", "r2"}
Mix(ops, crew, rows, n) == [ops |-> ops, crew |-> crew, rows |-> rows, jobs |-> n]
Mixes == {Mix({"submit", "urgent"}, {"r1", "r2"}, {1}, 3),
          Mix({"submit", "urgent", "status"}, {"r1"}, {1}, 3),
          Mix({"submit", "finish", "clear", "crash"}, {"r1", "r2"}, {1, 2}, 3),
          Mix({"submit", "preset"}, {"r1"}, {1}, 1),
          Mix({"task", "edit", "runnow", "crash"}, {}, {}, 2)}
=============================================================================
