-------------------------- MODULE CostmapPublisher --------------------------
(***************************************************************************)
(* CostmapPublisher of nav2_drone_costmap_3d: the node that keeps the last *)
(* octomap and publishes the meta data of the costmap every 100 ms.        *)
(*                                                                         *)
(* Its callbacks hold costmap_mutex_ and run one at a time, so that each   *)
(* is a step; NodeThread says when they run.  The map itself, and Costmap3D *)
(* whose methods are empty, are left out.                                  *)
(***************************************************************************)

VARIABLES
  octree_,           \* does octree_ point to a map?
  octomap_received_,
  map_message,       \* history: what the last message on "octomap" held
  map_seen           \* history: has there been an OcTree?

costmapVars == <<octree_, octomap_received_, map_message, map_seen>>

(* octomap_msgs::msgToMap() makes a tree of the type the message names; a  *)
(* tree of another class, or none at all, is no octomap::OcTree.           *)
MapMessages == {"OcTree", "other"}

CostmapTypeOK ==
  /\ octree_ \in BOOLEAN
  /\ octomap_received_ \in BOOLEAN
  /\ map_message \in MapMessages \cup {"none"}
  /\ map_seen \in BOOLEAN

CostmapInit ==
  /\ octree_ = FALSE
  /\ octomap_received_ = FALSE
  /\ map_message = "none"
  /\ map_seen = FALSE

(* Faulty: the flag is set whatever the message held. *)
handle_octomap_Unchecked(message) ==
  /\ octree_' = (message = "OcTree")
  /\ octomap_received_' = TRUE
  /\ map_message' = message
  /\ map_seen' = (map_seen \/ message = "OcTree")

handle_octomap(message) ==
  /\ octree_' = (message = "OcTree")
  /\ octomap_received_' = (octomap_received_ \/ octree_')
  /\ map_message' = message
  /\ map_seen' = (map_seen \/ message = "OcTree")

(* get_drone_pose() returns false when tf knows no transform. *)
get_drone_pose == BOOLEAN

(* The early returns of handle_timer(), and the publication at its end. *)
handle_timer(published) ==
  /\ \E posed \in get_drone_pose : published = (octomap_received_ /\ posed)
  /\ UNCHANGED costmapVars
=============================================================================
