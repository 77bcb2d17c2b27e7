---------------------------- MODULE PowerSwitches ----------------------------
(* What hw_mgr promises of the switches it controls: every order to put a     *)
(* switch in a state is obeyed at most once, alone, or not at all, and no     *)
(* switch moves without an order for it.                                      *)

CONSTANTS
    Switches,   \* Everything that is on or off.
    Sources     \* Whoever gives orders.

Orders == [by : Sources, pin : Switches, state : {"on", "off"}]

VARIABLES
    lit,        \* The switches that are on.
    orders      \* The orders given and neither obeyed nor dropped.

Put(S, pin, state) == IF state = "on" THEN S \cup {pin} ELSE S \ {pin}

Init == lit \subseteq Switches /\ orders = {}

Give ==
    /\ orders \subseteq orders' /\ orders' \subseteq Orders
    /\ UNCHANGED lit

Obey(o) ==
    /\ lit' = Put(lit, o.pin, o.state)
    /\ orders' = orders \ {o}

Drop ==
    /\ orders' \subseteq orders
    /\ UNCHANGED lit

Next == Give \/ (\E o \in orders : Obey(o)) \/ Drop

Spec == Init /\ [][Next]_<<lit, orders>>
=============================================================================
