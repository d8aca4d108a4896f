----------------------- MODULE FollowPathContract -----------------------
(***************************************************************************)
(* What the FollowPath action server promises its clients and the drone,   *)
(* without plugins, map, threads or lock: goals are admitted one at a      *)
(* time, only the admitted goal moves the drone, a goal is told that it    *)
(* succeeded or was aborted only when the drone has been stopped, and the  *)
(* next goal is admitted only after the verdict and the stop.  Nothing is  *)
(* promised once the process goes down.                                    *)
(***************************************************************************)
CONSTANTS
  Goal,
  None    \* not a goal

VARIABLES
  state,      \* what the client of each goal has been told
  commander,  \* the admitted goal
  commanded,  \* the goal whose velocity the drone follows; None: zero velocity
  up          \* is the server process still serving?

contractVars == <<state, commander, commanded, up>>

Live == {"executing", "canceling"}
Verdicts == {"canceled", "aborted", "succeeded"}

ContractTypeOK ==
  /\ state \in [Goal -> {"idle", "rejected"} \cup Live \cup Verdicts]
  /\ commander \in Goal \cup {None}
  /\ commanded \in Goal \cup {None}
  /\ up \in BOOLEAN

ContractInit ==
  /\ state = [g \in Goal |-> "idle"]
  /\ commander = None
  /\ commanded = None
  /\ up = TRUE

Tell(g, s) == state' = [state EXCEPT ![g] = s]

Refuse(g) ==
  /\ state[g] = "idle"
  /\ Tell(g, "rejected")
  /\ UNCHANGED <<commander, commanded>>

Admit(g) ==
  /\ state[g] = "idle"
  /\ commander = None
  /\ Tell(g, "executing")
  /\ commander' = g
  /\ UNCHANGED commanded

RequestCancel(g) ==
  /\ state[g] = "executing"
  /\ Tell(g, "canceling")
  /\ UNCHANGED <<commander, commanded>>

Fly(g) ==
  /\ commander = g
  /\ state[g] \in Live
  /\ commanded' = g
  /\ UNCHANGED <<state, commander>>

Halt(g) ==
  /\ commander = g
  /\ commanded' = None
  /\ UNCHANGED <<state, commander>>

(* A cancel is confirmed only if asked for, and may precede the stop. *)
Conclude(g, verdict) ==
  /\ commander = g
  /\ state[g] \in Live
  /\ IF verdict = "canceled" THEN state[g] = "canceling" ELSE commanded = None
  /\ Tell(g, verdict)
  /\ UNCHANGED <<commander, commanded>>

Release(g) ==
  /\ commander = g
  /\ state[g] \in Verdicts
  /\ commanded = None
  /\ commander' = None
  /\ UNCHANGED <<state, commanded>>

Serve ==
  /\ up /\ UNCHANGED up
  /\ \E g \in Goal :
       \/ Refuse(g) \/ Admit(g) \/ RequestCancel(g)
       \/ Fly(g) \/ Halt(g) \/ Release(g)
       \/ \E verdict \in Verdicts : Conclude(g, verdict)

GoDown == up /\ ~up' /\ UNCHANGED <<state, commander, commanded>>

Down == ~up /\ ~up'

ContractNext == Serve \/ GoDown \/ Down

ContractSpec == ContractInit /\ [][ContractNext]_contractVars
=============================================================================
