----------------------------- MODULE MCRuntime -----------------------------
(***************************************************************************)
(* A small Runtime: two profiles, and the configurations an administrator  *)
(* may commit: the first or the second profile active, the legacy one by   *)
(* default, one that needs a restart, and four that must be refused.       *)
(***************************************************************************)
EXTENDS Runtime

CONSTANTS a, b, phone, tablet, ether

Text1(active, own) ==
  [ok |-> TRUE, enabled |-> TRUE, own |-> own,
   profile |-> [p \in Profile |-> [set |-> TRUE, active |-> p \in active]]]

Good == Text1({"home"}, 1)
Legacy == Text1({}, 1)
Restart == Text1({"home"}, 2)

SomeEdits ==
  {Good, Legacy, Restart, [Good EXCEPT !.ok = FALSE], Text1({"home", "location"}, 1),
   [Legacy EXCEPT !.profile = [p \in Profile |-> [set |-> FALSE, active |-> FALSE]]],
   [Good EXCEPT !.enabled = FALSE]}

Budget(edit, reload, service, activate, record, fault) ==
  [edit |-> edit, reload |-> reload, service |-> service, activate |-> activate,
   record |-> record, fault |-> fault]

Together == {Budget(2, 2, 1, 0, 0, 1), Budget(1, 1, 2, 0, 0, 2), Budget(0, 1, 1, 1, 0, 1),
             Budget(1, 0, 0, 1, 0, 1), Budget(0, 0, 2, 0, 3, 2)}
=============================================================================
