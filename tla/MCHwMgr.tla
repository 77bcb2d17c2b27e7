------------------------------- MODULE MCHwMgr -------------------------------
(* Small instances of HwMgr for TLC. *)
EXTENDS HwMgr, TLC

Plain(kinds) == [kind : kinds, dev : {NoDevice}, state : {"off"}]

\* A device on DIO1 that needs the bus, so that two bits are written for it, one
\* in the bus's register going the other way, and all other writing commands.
Switching ==
    {[kind |-> "set_power", dev |-> "irid", state |-> "on"],
     [kind |-> "set_power", dev |-> "usb", state |-> "off"]} \cup
    Plain({"refresh", "reset_overcurrent"})

\* The commands of utils, which are tried twice, and one that can lose the lock.
Retried ==
    {[kind |-> "set_power", dev |-> "irid", state |-> "on"]} \cup
    Plain({"get_status", "help"})

HwSymmetry == Permutations(Clients) \cup Permutations(Threads)
=============================================================================
