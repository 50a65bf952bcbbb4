---------------------------- MODULE MCLifecycle ----------------------------
(***************************************************************************)
(* The disturbances the runs of Lifecycle combine.  The watchdog alone     *)
(* meets two faults with an edit of the configuration or a bypass request; *)
(* two commands, at most one of them a start, run one after the other      *)
(* beside the watchdog.                                                    *)
(***************************************************************************)
EXTENDS Lifecycle

Budget(edit, start, command, request, fault) ==
  [edit |-> edit, start |-> start, command |-> command, request |-> request, fault |-> fault]

Together == {Budget(1, 0, 0, 0, 2), Budget(0, 0, 0, 1, 2), Budget(0, 1, 1, 0, 0),
             Budget(0, 0, 2, 0, 0)}

OneCommand == {Budget(0, 0, 1, 0, 0)}
=============================================================================
