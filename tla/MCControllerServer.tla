------------------------ MODULE MCControllerServer ------------------------
(* Small instances of ControllerServer. *)
EXTENDS ControllerServer, TLC

CONSTANTS g1, g2, c1, k1, k2, otherName

(* One client names its plugins, one leaves the controller to the server,    *)
(* one asks for a goal checker the server does not have.                     *)
MCRequests ==
  {[controller |-> c1, checker |-> k1],
   [controller |-> EmptyName, checker |-> k2],
   [controller |-> c1, checker |-> otherName]}

GoalSymmetry == Permutations(Goal)
=============================================================================
