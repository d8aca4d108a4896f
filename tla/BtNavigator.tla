---------------------------- MODULE BtNavigator ----------------------------
(***************************************************************************)
(* BtNavigator of nav2_drone_bt_navigator: a lifecycle node that keeps a   *)
(* vector of navigator plugins (BehaviorTreeNavigator of nav2_drone_core), *)
(* each with the action server it offers its goals on.                     *)
(*                                                                         *)
(* The lifecycle callbacks run one at a time on the executor; each is a    *)
(* step.  Within a callback a loop goes over the navigators and ends at    *)
(* the first one that refuses; which one that is, and how, is any.         *)
(*                                                                         *)
(* External: the lifecycle states (rclcpp_lifecycle: after a FAILURE the   *)
(* node stays in the state it came from), createBond and destroyBond of    *)
(* LifecycleNode, and BtActionServer.                                      *)
(***************************************************************************)
EXTENDS Naturals, Sequences

CONSTANTS
  NavigatorCount,  \* the length of the parameter "navigators"
  MaxConfigures    \* bound: how often the node may be configured

ASSUME BtNavigatorAssumption == NavigatorCount \in Nat /\ MaxConfigures \in Nat

VARIABLES
  lifecycle,    \* the primary state of the node; "gone": the process has ended
  navigators_,  \* the action server of each navigator of the vector
  tf_,          \* is there a tf buffer?
  bond,         \* does the lifecycle manager see a bond?
  configures,   \* how often the node was configured, for the bound
  faults        \* history: what was refused, or thrown, and not made up for

vars == <<lifecycle, navigators_, tf_, bond, configures, faults>>

Primary == {"unconfigured", "inactive", "active", "finalized"}
Faults  == {"construct", "configure", "deactivate", "cleanup"}

(* bt_action_server_ is null, or there and not active, or serves goals. *)
Servers == {"null", "configured", "active"}

Init ==
  /\ lifecycle = "unconfigured"
  /\ navigators_ = <<>>
  /\ tf_ = FALSE
  /\ bond = FALSE
  /\ configures = 0
  /\ faults = {}

(***************************************************************************)
(* The navigators.                                                         *)
(***************************************************************************)
Usable(navs) == \A i \in DOMAIN navs : navs[i] # "null"

Reaches(navs, k) == \A i \in 1..k : navs[i] # "null"

(* The vector once a loop has made those before k `done` and left k as `last`. *)
LoopTo(navs, k, done, last) ==
  [i \in DOMAIN navs |-> IF i < k THEN done ELSE IF i = k THEN last ELSE navs[i]]

LoopOver(navs, done) == [i \in DOMAIN navs |-> done]

New(n) == [i \in 1..n |-> "configured"]

(* What a navigator leaves when its on_configure() throws, or was not      *)
(* created at all: nothing, one without a server, or one with a server.    *)
HalfBuilt == {<<>>, <<"null">>, <<"configured">>}

(* A server that was switched, or not, when on_activate() returns false. *)
ActivateRefused(server)   == {server, "active"}
DeactivateRefused(server) == {server, "configured"}

(* A method called on a null bt_action_server_. *)
Crash(navs) ==
  /\ ~Usable(navs)
  /\ lifecycle' = "gone"
  /\ navigators_' = navs
  /\ UNCHANGED bond

(***************************************************************************)
(* The callbacks.  on_cleanup() is also called by on_configure(), and      *)
(* on_deactivate() by on_activate(), with the vector as it is then.        *)
(***************************************************************************)
(* Faulty: the vector is not cleared. *)
CleanupAll_KeepsVector(navs, to) ==
  /\ Usable(navs)
  /\ navigators_' = LoopOver(navs, "null")
  /\ lifecycle' = to
  /\ UNCHANGED bond

CleanupAll(navs, to) ==
  /\ Usable(navs)
  /\ navigators_' = <<>>
  /\ lifecycle' = to
  /\ UNCHANGED bond

on_cleanup(navs, seen, onSuccess, onFailure) ==
  /\ tf_' = FALSE
  /\ \/ /\ CleanupAll(navs, onSuccess)
        /\ faults' = seen \ {"configure", "deactivate"}
     \/ \E k \in DOMAIN navs :
          /\ Reaches(navs, k)
          /\ navigators_' = LoopTo(navs, k, "null", "null")
          /\ lifecycle' = onFailure
          /\ faults' = seen \cup {"cleanup"}
          /\ UNCHANGED bond
     \/ Crash(navs) /\ faults' = seen

CreateAll ==
  /\ navigators_' = navigators_ \o New(NavigatorCount)
  /\ tf_' = TRUE
  /\ lifecycle' = "inactive"
  /\ UNCHANGED <<bond, faults>>

(* on_configure() of the k-th navigator returns false: FAILURE at once. *)
CreateRefused(k) ==
  /\ navigators_' = navigators_ \o New(k)
  /\ tf_' = TRUE
  /\ faults' = faults \cup {"configure"}
  /\ UNCHANGED <<lifecycle, bond>>

(* Faulty: the catch clause does not clean up. *)
CreateThrows_NoCleanup(k) ==
  /\ navigators_' = navigators_ \o New(k - 1)
  /\ tf_' = TRUE
  /\ UNCHANGED <<lifecycle, bond, faults>>

(* An exception of the k-th navigator: on_cleanup(), then FAILURE. *)
CreateThrows(k) ==
  \E half \in HalfBuilt :
    on_cleanup(navigators_ \o New(k - 1) \o half,
               IF half = <<"null">> THEN faults \cup {"construct"} ELSE faults,
               "unconfigured", "unconfigured")

on_configure ==
  /\ lifecycle = "unconfigured"
  /\ configures < MaxConfigures
  /\ configures' = configures + 1
  /\ \/ CreateAll
     \/ \E k \in 1..NavigatorCount : CreateRefused(k) \/ CreateThrows(k)

on_deactivate(navs, onFailure) ==
  \/ /\ Usable(navs)
     /\ navigators_' = LoopOver(navs, "configured")
     /\ bond' = FALSE
     /\ lifecycle' = "inactive"
     /\ faults' = faults \ {"deactivate"}
  \/ \E k \in DOMAIN navs, last \in Servers :
       /\ Reaches(navs, k)
       /\ last \in DeactivateRefused(navs[k])
       /\ navigators_' = LoopTo(navs, k, "configured", last)
       /\ lifecycle' = onFailure
       /\ faults' = faults \cup {"deactivate"}
       /\ UNCHANGED bond
  \/ Crash(navs) /\ UNCHANGED faults

ActivateAll ==
  /\ Usable(navigators_)
  /\ navigators_' = LoopOver(navigators_, "active")
  /\ bond' = TRUE
  /\ lifecycle' = "active"
  /\ faults' = faults \ {"deactivate"}

(* Faulty: FAILURE at once. *)
ActivateFails_NoDeactivate(k, last) ==
  /\ Reaches(navigators_, k)
  /\ last \in ActivateRefused(navigators_[k])
  /\ navigators_' = LoopTo(navigators_, k, "active", last)
  /\ UNCHANGED <<lifecycle, bond, faults>>

(* Faulty: a navigator that refuses is passed over. *)
ActivateFails_GoesOn(k, last) ==
  /\ Reaches(navigators_, k)
  /\ last \in ActivateRefused(navigators_[k])
  /\ navigators_' = [LoopOver(navigators_, "active") EXCEPT ![k] = last]
  /\ bond' = TRUE
  /\ lifecycle' = "active"
  /\ faults' = faults \ {"deactivate"}

(* The k-th navigator refuses: on_deactivate() of all, then FAILURE. *)
ActivateFails(k, last) ==
  /\ Reaches(navigators_, k)
  /\ last \in ActivateRefused(navigators_[k])
  /\ on_deactivate(LoopTo(navigators_, k, "active", last), "inactive")

on_activate ==
  /\ lifecycle = "inactive"
  /\ UNCHANGED <<tf_, configures>>
  /\ \/ ActivateAll
     \/ \E k \in DOMAIN navigators_, last \in Servers : ActivateFails(k, last)
     \/ Crash(navigators_) /\ UNCHANGED faults

Deactivate ==
  /\ lifecycle = "active"
  /\ UNCHANGED <<tf_, configures>>
  /\ on_deactivate(navigators_, "active")

Cleanup ==
  /\ lifecycle = "inactive"
  /\ UNCHANGED configures
  /\ on_cleanup(navigators_, faults, "unconfigured", "inactive")

(* on_shutdown() does nothing: the navigators stay as they are. *)
on_shutdown ==
  /\ lifecycle \in Primary \ {"finalized"}
  /\ lifecycle' = "finalized"
  /\ UNCHANGED <<navigators_, tf_, bond, configures, faults>>

Next == on_configure \/ on_activate \/ Deactivate \/ Cleanup \/ on_shutdown

Spec == Init /\ [][Next]_vars

-----------------------------------------------------------------------------
TypeOK ==
  /\ lifecycle \in Primary \cup {"gone"}
  /\ navigators_ \in Seq(Servers)
  /\ tf_ \in BOOLEAN
  /\ bond \in BOOLEAN
  /\ configures \in 0..MaxConfigures
  /\ faults \subseteq Faults

(* A node that is active has its bond and serves with every navigator it   *)
(* was configured with, once each, unless on_deactivate() was refused on   *)
(* the way; after a refused on_configure() those of the failed attempt     *)
(* serve beside them (on_configure at bt_navigator.cpp:119, on_activate at *)
(* 137, createBond at 145).                                                *)
ActiveMeansServing ==
  lifecycle = "active" =>
    /\ bond /\ tf_
    /\ "deactivate" \notin faults => \A i \in DOMAIN navigators_ : navigators_[i] = "active"
    /\ IF "configure" \in faults
         THEN Len(navigators_) > NavigatorCount
         ELSE Len(navigators_) = NavigatorCount

(* A node that is not active shows the lifecycle manager no bond, whatever *)
(* the navigators refused (bt_navigator.cpp:145, 161), and takes no goals: *)
(* an activation that failed half way has switched off the navigators it   *)
(* had switched on (bt_navigator.cpp:139), unless one refused that too.    *)
QuietUnlessActive ==
  lifecycle \in {"unconfigured", "inactive"} =>
    /\ ~bond
    /\ "deactivate" \notin faults => \A i \in DOMAIN navigators_ : navigators_[i] # "active"

(* What an unconfigured node was configured with is gone, so that it can   *)
(* be configured again; the exceptions are a navigator that refused to be  *)
(* configured, which is left in the vector (bt_navigator.cpp:119), and one *)
(* that refused to be cleaned up.                                          *)
CleanSlate ==
  lifecycle = "unconfigured" /\ "cleanup" \notin faults =>
    /\ navigators_ = <<>> <=> "configure" \notin faults
    /\ tf_ => "configure" \in faults

(* The process dies of a null bt_action_server_ only if a navigator threw  *)
(* before it made one, whose on_configure() is then cleaned up             *)
(* (bt_navigator.cpp:125), or after a cleanup that was refused half way    *)
(* (bt_navigator.cpp:177).                                                 *)
DiesOfHalfBuilt ==
  lifecycle = "gone" => faults \cap {"construct", "cleanup"} # {}
=============================================================================
