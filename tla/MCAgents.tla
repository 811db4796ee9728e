------------------------------- MODULE MCAgents -------------------------------
(* The calculations of a run and the agents' loop, one at a time: focus is   *)
(* what is explored, the others stay in their initial state.  The worlds of  *)
(* Analysis have two lines, three slots and two materials: the capacities    *)
(* vary over one set of materials, then the materials over one set of slots. *)
EXTENDS Agents, TLC

VARIABLE focus

Slot(l, d, raw, booked) == [line |-> l, day |-> d, shift |-> 1, raw |-> raw, booked |-> booked]
Mat(per, onHand, reserved, own, receipts, balance, convertible) ==
    [per |-> per, onHand |-> onHand, reserved |-> reserved, own |-> own,
     receipts |-> receipts, balance |-> balance, convertible |-> convertible]

\* Line 1 can sew and, like line 2, finish.
World(units, due, skills, slots, risky, mats) ==
    [units |-> units, due |-> due, skills |-> skills,
     lines |-> (1 :> {"sew", "finish"} @@ 2 :> {"finish"}), slots |-> slots,
     risky |-> risky, mats |-> mats]

Plenty == Mat(1, 9, 0, 0, {}, TRUE, TRUE)

\* Minutes in quarters of a Step: capacities that are not storable, an order of
\* 9 that ends in a Step's quarter (a sliver), its half or more.
ByCapacity ==
    {World(3, due, skills, {Slot(1, 0, a, 0), Slot(2, 0, b, 4), Slot(1, 1, c, 0)}, risky,
           ("cloth" :> Mat(2, have, 0, 0, {}, TRUE, TRUE) @@ "thread" :> Plenty)) :
        due \in {0, 1}, skills \in {{}, {"sew"}, {"finish"}}, a \in {0, 7, 8}, b \in {4, 10, 13},
        c \in {6, 12}, risky \in {{}, {1}}, have \in {1, 3, 7}}

ByMaterial ==
    {World(3, due, {"finish"}, {Slot(1, 0, 5, 0), Slot(2, 0, 7, 0), Slot(1, 1, 4, 0)}, {},
           ("cloth" :> Mat(1, have, usage[1], usage[2], receipts, TRUE, TRUE) @@
            "thread" :> Mat(1, 2, 0, 0, {}, stocked, convertible))) :
        due \in {-1, 1}, have \in {1, 3}, usage \in {<<0, 0>>, <<1, 0>>, <<1, 1>>},
        receipts \in {{}, {<<1, 2>>}, {<<2, 2>>}}, stocked \in BOOLEAN, convertible \in BOOLEAN}

\* What the quotients lose depends on the rows; a target that one slot met is
\* a whole number of units and loses nothing.
residue(rows) == Len(rows) > 1 /\ rows[1].minutes = 4
shortfall(rows) == Len(rows) > 1 /\ Last(rows).minutes # 1

worlds == ByCapacity \cup ByMaterial

base == {<<"ev-order", 0>>}
candidates == <<<<"act", 1>>, <<"act", 2>>>>

\* Three operations, the second with two operators; a median of one to three samples.
operators == <<1, 2, 1>>

FocusInit ==
  /\ focus \in {"analysis", "loop", "lines"}
  /\ focus # "analysis" => world = (CHOOSE w \in worlds : TRUE)
  /\ AgentsInit

FocusNext ==
  /\ \/ focus = "analysis" /\ AnalysisStep
     \/ focus = "loop" /\ LoopStep
     \/ focus = "lines" /\ LineStep
  /\ UNCHANGED focus

FocusSpec == FocusInit /\ [][FocusNext]_<<focus, AgentsVars>>
===============================================================================
