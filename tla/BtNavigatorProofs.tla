------------------------- MODULE BtNavigatorProofs -------------------------
(***************************************************************************)
(* The properties of BtNavigator hold for any number of navigators and of  *)
(* attempts to configure the node.                                         *)
(*                                                                         *)
(* What the invariants rest on is who may leave a navigator without its    *)
(* server: a vector with a null server waits in an unconfigured or         *)
(* inactive node only after a cleanup that was refused (NullPlace), and    *)
(* such a node never gets to be active again.                              *)
(***************************************************************************)
EXTENDS BtNavigator, TLAPS

NullPlace ==
  /\ lifecycle = "active" => "cleanup" \notin faults
  /\ lifecycle \in {"unconfigured", "inactive"} =>
       ("cleanup" \in faults <=> ~Usable(navigators_))

(* An inactive node whose cleanup was not refused can be activated. *)
InactivePlace ==
  lifecycle = "inactive" /\ "cleanup" \notin faults =>
    /\ tf_
    /\ IF "configure" \in faults
         THEN Len(navigators_) > NavigatorCount
         ELSE Len(navigators_) = NavigatorCount

ActivePlace == lifecycle = "active" => Usable(navigators_)

IInv ==
  /\ TypeOK
  /\ ActiveMeansServing
  /\ QuietUnlessActive
  /\ CleanSlate
  /\ DiesOfHalfBuilt
  /\ NullPlace
  /\ InactivePlace
  /\ ActivePlace

-----------------------------------------------------------------------------
(* The vectors the loops leave. *)
LEMMA LoopToVector ==
  ASSUME NEW navs \in Seq(Servers), NEW k \in DOMAIN navs,
         NEW done \in Servers, NEW last \in Servers
  PROVE  /\ LoopTo(navs, k, done, last) \in Seq(Servers)
         /\ Len(LoopTo(navs, k, done, last)) = Len(navs)
         /\ DOMAIN LoopTo(navs, k, done, last) = DOMAIN navs
         /\ \A i \in DOMAIN navs : LoopTo(navs, k, done, last)[i] =
              IF i < k THEN done ELSE IF i = k THEN last ELSE navs[i]
<1>1. DOMAIN navs = 1..Len(navs) /\ Len(navs) \in Nat OBVIOUS
<1>2. \A i \in 1..Len(navs) : navs[i] \in Servers OBVIOUS
<1>3. LoopTo(navs, k, done, last) \in [1..Len(navs) -> Servers]
  BY <1>1, <1>2 DEF LoopTo
<1>4. QED BY <1>1, <1>3 DEF LoopTo

LEMMA LoopOverVector ==
  ASSUME NEW navs \in Seq(Servers), NEW done \in Servers
  PROVE  /\ LoopOver(navs, done) \in Seq(Servers)
         /\ Len(LoopOver(navs, done)) = Len(navs)
         /\ DOMAIN LoopOver(navs, done) = DOMAIN navs
         /\ \A i \in DOMAIN navs : LoopOver(navs, done)[i] = done
<1>1. DOMAIN navs = 1..Len(navs) /\ Len(navs) \in Nat OBVIOUS
<1>2. LoopOver(navs, done) \in [1..Len(navs) -> Servers]
  BY <1>1 DEF LoopOver
<1>3. QED BY <1>1, <1>2 DEF LoopOver

LEMMA NewVector ==
  ASSUME NEW n \in Nat
  PROVE  /\ New(n) \in Seq(Servers)
         /\ Len(New(n)) = n
         /\ \A i \in 1..n : New(n)[i] = "configured"
<1>1. New(n) \in [1..n -> Servers] BY DEF New, Servers
<1>2. QED BY <1>1 DEF New

LEMMA Joined ==
  ASSUME NEW a \in Seq(Servers), NEW b \in Seq(Servers)
  PROVE  /\ a \o b \in Seq(Servers)
         /\ Len(a \o b) = Len(a) + Len(b)
         /\ \A i \in 1..Len(a) : (a \o b)[i] = a[i]
         /\ \A i \in 1..Len(b) : (a \o b)[Len(a) + i] = b[i]
         /\ \A i \in 1..(Len(a) + Len(b)) :
              (a \o b)[i] = IF i <= Len(a) THEN a[i] ELSE b[i - Len(a)]
OBVIOUS

-----------------------------------------------------------------------------
(* What on_cleanup() makes of a vector without active servers. *)
LEMMA CleanupLeaves ==
  ASSUME NEW navs \in Seq(Servers), NEW seen \in SUBSET Faults,
         NEW onFailure \in {"unconfigured", "inactive"},
         TypeOK, on_cleanup(navs, seen, "unconfigured", onFailure),
         configures' \in 0..MaxConfigures,
         ~bond,
         "deactivate" \notin seen => \A i \in DOMAIN navs : navs[i] # "active",
         ~Usable(navs) => seen \cap {"construct", "cleanup"} # {},
         "cleanup" \in seen => ~Usable(navs)
  PROVE  IInv'
<1> USE DEF Faults, Primary
<1>0. tf_' = FALSE BY DEF on_cleanup
<1>1. CASE CleanupAll(navs, "unconfigured") /\ faults' = seen \ {"configure", "deactivate"}
  <2>1. /\ navigators_' = <<>> /\ lifecycle' = "unconfigured" /\ bond' = FALSE
        /\ "cleanup" \notin faults' /\ "configure" \notin faults'
    BY <1>1 DEF CleanupAll
  <2>2. navigators_' \in Seq(Servers) /\ DOMAIN navigators_' = {} BY <2>1
  <2>3. Usable(navigators_)' BY <2>1, <2>2 DEF Usable
  <2>4. TypeOK' BY <1>0, <1>1, <2>1, <2>2 DEF TypeOK
  <2>5. QED
    BY <1>0, <2>1, <2>2, <2>3, <2>4
    DEF IInv, ActiveMeansServing, QuietUnlessActive, CleanSlate,
        DiesOfHalfBuilt, NullPlace, InactivePlace, ActivePlace
<1>2. ASSUME NEW k \in DOMAIN navs, Reaches(navs, k),
             navigators_' = LoopTo(navs, k, "null", "null"),
             lifecycle' = onFailure, faults' = seen \cup {"cleanup"}, bond' = bond
      PROVE  IInv'
  <2>1. /\ navigators_' \in Seq(Servers)
        /\ DOMAIN navigators_' = DOMAIN navs
        /\ \A i \in DOMAIN navs :
             navigators_'[i] = IF i < k THEN "null" ELSE IF i = k THEN "null" ELSE navs[i]
    BY <1>2, LoopToVector DEF Servers
  <2>2. k \in Nat BY <1>2
  <2>3. navigators_'[k] = "null" BY <2>1, <2>2
  <2>4. ~Usable(navigators_)' BY <2>1, <2>3 DEF Usable
  <2>5. "deactivate" \notin faults' => \A i \in DOMAIN navigators_' : navigators_'[i] # "active"
    BY <1>2, <2>1
  <2>6. TypeOK' BY <1>0, <1>2, <2>1 DEF TypeOK
  <2>7. QED
    BY <1>0, <1>2, <2>4, <2>5, <2>6
    DEF IInv, ActiveMeansServing, QuietUnlessActive, CleanSlate,
        DiesOfHalfBuilt, NullPlace, InactivePlace, ActivePlace
<1>3. CASE Crash(navs) /\ faults' = seen
  <2>1. lifecycle' = "gone" /\ navigators_' = navs /\ bond' = bond /\ ~Usable(navs)
    BY <1>3 DEF Crash
  <2>2. TypeOK' BY <1>0, <1>3, <2>1 DEF TypeOK
  <2>3. QED
    BY <1>3, <2>1, <2>2
    DEF IInv, ActiveMeansServing, QuietUnlessActive, CleanSlate,
        DiesOfHalfBuilt, NullPlace, InactivePlace, ActivePlace
<1>4. QED BY <1>1, <1>2, <1>3 DEF on_cleanup

(* What on_deactivate() makes of a vector, called by on_activate() without *)
(* a bond, or by itself of an active node.                                 *)
LEMMA DeactivateLeaves ==
  ASSUME NEW navs \in Seq(Servers), NEW onFailure \in {"inactive", "active"},
         TypeOK, on_deactivate(navs, onFailure), UNCHANGED <<tf_, configures>>,
         bond <=> onFailure = "active",
         onFailure = "active" => "cleanup" \notin faults,
         "cleanup" \in faults <=> ~Usable(navs),
         "cleanup" \notin faults =>
           /\ tf_
           /\ IF "configure" \in faults
                THEN Len(navs) > NavigatorCount
                ELSE Len(navs) = NavigatorCount
  PROVE  IInv'
<1> USE DEF Faults, Primary
<1> DEFINE Counted(n) == IF "configure" \in faults THEN n > NavigatorCount ELSE n = NavigatorCount
<1>1. ASSUME Usable(navs), navigators_' = LoopOver(navs, "configured"), bond' = FALSE,
             lifecycle' = "inactive", faults' = faults \ {"deactivate"}
      PROVE  IInv'
  <2>1. /\ navigators_' \in Seq(Servers) /\ Len(navigators_') = Len(navs)
        /\ DOMAIN navigators_' = DOMAIN navs
        /\ \A i \in DOMAIN navs : navigators_'[i] = "configured"
    BY <1>1, LoopOverVector DEF Servers
  <2>2. Usable(navigators_)' BY <2>1 DEF Usable
  <2>3. TypeOK' BY <1>1, <2>1 DEF TypeOK
  <2>4. QED
    BY <1>1, <2>1, <2>2, <2>3
    DEF IInv, ActiveMeansServing, QuietUnlessActive, CleanSlate,
        DiesOfHalfBuilt, NullPlace, InactivePlace, ActivePlace
<1>2. ASSUME NEW k \in DOMAIN navs, NEW last \in Servers, Reaches(navs, k),
             last \in DeactivateRefused(navs[k]),
             navigators_' = LoopTo(navs, k, "configured", last),
             lifecycle' = onFailure, faults' = faults \cup {"deactivate"}, bond' = bond
      PROVE  IInv'
  <2>1. /\ navigators_' \in Seq(Servers) /\ Len(navigators_') = Len(navs)
        /\ DOMAIN navigators_' = DOMAIN navs
        /\ \A i \in DOMAIN navs : navigators_'[i] =
             IF i < k THEN "configured" ELSE IF i = k THEN last ELSE navs[i]
    <3>1. "configured" \in Servers BY DEF Servers
    <3>2. QED BY <1>2, <3>1, LoopToVector
  <2>2. k \in Nat /\ k >= 1 /\ DOMAIN navs = 1..Len(navs) BY <1>2
  <2>3. \A i \in 1..k : navs[i] # "null" BY <1>2 DEF Reaches
  <2>4. last # "null" BY <1>2, <2>2, <2>3 DEF DeactivateRefused
  <2>5. \A i \in DOMAIN navs : navigators_'[i] = "null" <=> navs[i] = "null"
    <3> TAKE i \in DOMAIN navs
    <3>1. CASE i < k BY <2>1, <2>2, <2>3, <3>1
    <3>2. CASE i = k BY <2>1, <2>2, <2>3, <2>4, <3>2
    <3>3. CASE i > k BY <2>1, <2>2, <3>3
    <3>4. QED BY <2>2, <3>1, <3>2, <3>3
  <2>6. Usable(navigators_)' <=> Usable(navs) BY <2>1, <2>5 DEF Usable
  <2>7. TypeOK' BY <1>2, <2>1 DEF TypeOK
  <2>8. QED
    BY <1>2, <2>1, <2>6, <2>7
    DEF IInv, ActiveMeansServing, QuietUnlessActive, CleanSlate,
        DiesOfHalfBuilt, NullPlace, InactivePlace, ActivePlace
<1>3. CASE Crash(navs) /\ UNCHANGED faults
  <2>1. lifecycle' = "gone" /\ navigators_' = navs /\ bond' = bond /\ ~Usable(navs)
    BY <1>3 DEF Crash
  <2>2. TypeOK' BY <1>3, <2>1 DEF TypeOK
  <2>3. QED
    BY <1>3, <2>1, <2>2
    DEF IInv, ActiveMeansServing, QuietUnlessActive, CleanSlate,
        DiesOfHalfBuilt, NullPlace, InactivePlace, ActivePlace
<1>4. QED BY <1>1, <1>2, <1>3 DEF on_deactivate

-----------------------------------------------------------------------------
LEMMA Initially == Init => IInv
<1> SUFFICES ASSUME Init PROVE IInv OBVIOUS
<1>1. navigators_ \in Seq(Servers) /\ DOMAIN navigators_ = {} BY DEF Init
<1>2. TypeOK
  <2>1. 0 \in 0..MaxConfigures BY BtNavigatorAssumption
  <2>2. faults \subseteq Faults BY DEF Init
  <2>3. QED BY <1>1, <2>1, <2>2 DEF Init, TypeOK, Primary
<1>3. Usable(navigators_) BY <1>1 DEF Usable
<1>4. QED
  BY <1>1, <1>2, <1>3
  DEF Init, IInv, ActiveMeansServing, QuietUnlessActive, CleanSlate,
      DiesOfHalfBuilt, NullPlace, InactivePlace, ActivePlace

(* An unconfigured node gets n new navigators. *)
LEMMA Appended ==
  ASSUME NEW n \in Nat, IInv, lifecycle = "unconfigured"
  PROVE  /\ navigators_ \o New(n) \in Seq(Servers)
         /\ Len(navigators_ \o New(n)) = Len(navigators_) + n
         /\ Usable(navigators_ \o New(n)) <=> Usable(navigators_)
         /\ "deactivate" \notin faults =>
              \A i \in DOMAIN (navigators_ \o New(n)) : (navigators_ \o New(n))[i] # "active"
<1> DEFINE navs == navigators_ \o New(n)
<1>1. navigators_ \in Seq(Servers) BY DEF IInv, TypeOK
<1>2. /\ New(n) \in Seq(Servers) /\ Len(New(n)) = n
      /\ \A i \in 1..n : New(n)[i] = "configured"
  BY NewVector
<1>3. /\ navs \in Seq(Servers) /\ Len(navs) = Len(navigators_) + n
      /\ \A i \in 1..(Len(navigators_) + n) :
           navs[i] = IF i <= Len(navigators_) THEN navigators_[i] ELSE New(n)[i - Len(navigators_)]
  <2> DEFINE b == New(n)
  <2>1. b \in Seq(Servers) /\ Len(b) = n BY <1>2
  <2> DEFINE a == navigators_
  <2>2. a \in Seq(Servers) BY <1>1
  <2> HIDE DEF a, b
  <2>3. /\ a \o b \in Seq(Servers) /\ Len(a \o b) = Len(a) + n
        /\ \A i \in 1..(Len(a) + n) :
             (a \o b)[i] = IF i <= Len(a) THEN a[i] ELSE b[i - Len(a)]
    BY <2>1, <2>2, Joined
  <2>4. QED BY <2>3 DEF a, b
<1> DEFINE L == Len(navigators_)
<1>4. L \in Nat /\ DOMAIN navigators_ = 1..L /\ DOMAIN navs = 1..(L + n) BY <1>1, <1>3
<1>5. \A i \in 1..L : navs[i] = navigators_[i]
  <2> TAKE i \in 1..L
  <2>1. i \in 1..(L + n) /\ i <= L BY <1>4
  <2>2. QED BY <1>3, <2>1
<1>6. \A i \in 1..(L + n) : i > L => navs[i] = "configured"
  <2> TAKE i \in 1..(L + n)
  <2> HAVE i > L
  <2>1. i - L \in 1..n /\ ~(i <= L) BY <1>4
  <2>2. QED BY <1>2, <1>3, <2>1
<1>7. 1..L \subseteq 1..(L + n) BY <1>4
<1>8. Usable(navs) <=> Usable(navigators_)
  <2> HIDE DEF navs, L
  <2>1. ASSUME Usable(navs) PROVE Usable(navigators_)
    BY <1>4, <1>5, <1>7, <2>1 DEF Usable
  <2>2. ASSUME Usable(navigators_) PROVE Usable(navs)
    <3> SUFFICES ASSUME NEW i \in 1..(L + n) PROVE navs[i] # "null" BY <1>4 DEF Usable
    <3>1. CASE i > L BY <1>6, <3>1
    <3>2. CASE i <= L
      <4>1. i \in 1..L BY <1>4, <3>2
      <4>2. QED BY <1>4, <1>5, <2>2, <4>1 DEF Usable
    <3>3. QED BY <1>4, <3>1, <3>2
  <2>3. QED BY <2>1, <2>2
<1>9. ASSUME "deactivate" \notin faults
      PROVE  \A i \in DOMAIN navs : navs[i] # "active"
  <2>1. \A i \in 1..L : navigators_[i] # "active"
    BY <1>4, <1>9 DEF IInv, QuietUnlessActive
  <2> HIDE DEF navs, L
  <2> SUFFICES ASSUME NEW i \in 1..(L + n) PROVE navs[i] # "active" BY <1>4
  <2>2. CASE i > L BY <1>6, <2>2
  <2>3. CASE i <= L
    <3>1. i \in 1..L BY <1>4, <2>3
    <3>2. QED BY <1>5, <2>1, <3>1
  <2>4. QED BY <1>4, <2>2, <2>3
<1>10. QED BY <1>3, <1>8, <1>9

(* ... and the half of one that threw. *)
LEMMA HalfAppended ==
  ASSUME NEW navs \in Seq(Servers), NEW half \in HalfBuilt
  PROVE  /\ navs \o half \in Seq(Servers)
         /\ Usable(navs \o half) <=> Usable(navs) /\ half # <<"null">>
         /\ (\A i \in DOMAIN navs : navs[i] # "active") =>
              \A i \in DOMAIN (navs \o half) : (navs \o half)[i] # "active"
<1>1. CASE half = <<>>
  <2>1. navs \o half = navs BY <1>1
  <2>2. half # <<"null">> BY <1>1
  <2>3. QED BY <2>1, <2>2
<1>2. ASSUME NEW server \in {"null", "configured"}, half = <<server>>
      PROVE  /\ navs \o half \in Seq(Servers)
             /\ Usable(navs \o half) <=> Usable(navs) /\ half # <<"null">>
             /\ (\A i \in DOMAIN navs : navs[i] # "active") =>
                  \A i \in DOMAIN (navs \o half) : (navs \o half)[i] # "active"
  <2> DEFINE both == navs \o half
  <2>1. half \in Seq(Servers) /\ Len(half) = 1 /\ half[1] = server BY <1>2 DEF Servers
  <2>2. /\ both \in Seq(Servers) /\ Len(both) = Len(navs) + 1
        /\ \A i \in 1..Len(navs) : both[i] = navs[i]
        /\ \A i \in 1..Len(half) : both[Len(navs) + i] = half[i]
    BY <2>1, Joined
  <2>3. both[Len(navs) + 1] = server BY <2>1, <2>2
  <2>4. /\ Len(navs) \in Nat /\ DOMAIN navs = 1..Len(navs)
        /\ DOMAIN both = 1..Len(navs) \cup {Len(navs) + 1}
    BY <2>2
  <2>5. half # <<"null">> <=> server # "null" BY <1>2
  <2> HIDE DEF both
  <2>6. Usable(both) <=> Usable(navs) /\ server # "null"
    BY <2>2, <2>3, <2>4 DEF Usable
  <2>7. (\A i \in DOMAIN navs : navs[i] # "active") => \A i \in DOMAIN both : both[i] # "active"
    BY <2>2, <2>3, <2>4
  <2>8. QED BY <2>2, <2>5, <2>6, <2>7 DEF both
<1>3. QED BY <1>1, <1>2 DEF HalfBuilt

LEMMA ConfigureStep == IInv /\ on_configure => IInv'
<1> SUFFICES ASSUME IInv, on_configure PROVE IInv' OBVIOUS
<1> USE BtNavigatorAssumption
<1>0. /\ TypeOK /\ lifecycle = "unconfigured" /\ bond = FALSE
      /\ configures' \in 0..MaxConfigures
      /\ "cleanup" \in faults <=> ~Usable(navigators_)
  BY DEF IInv, TypeOK, on_configure, QuietUnlessActive, NullPlace
<1>1. "cleanup" \notin faults => (navigators_ = <<>> <=> "configure" \notin faults)
  BY <1>0 DEF IInv, CleanSlate
<1>2. navigators_ \in Seq(Servers) BY <1>0 DEF TypeOK
<1>3. CASE CreateAll
  <2>1. /\ navigators_' = navigators_ \o New(NavigatorCount) /\ tf_' = TRUE
        /\ lifecycle' = "inactive" /\ bond' = bond /\ faults' = faults
    BY <1>3 DEF CreateAll
  <2>2. /\ navigators_' \in Seq(Servers) /\ Len(navigators_') = Len(navigators_) + NavigatorCount
        /\ Usable(navigators_)' <=> Usable(navigators_)
        /\ "deactivate" \notin faults => \A i \in DOMAIN navigators_' : navigators_'[i] # "active"
    BY <1>0, <2>1, Appended DEF Usable
  <2>3. TypeOK' BY <1>0, <2>1, <2>2 DEF TypeOK, Primary
  <2>4. "cleanup" \notin faults =>
          IF "configure" \in faults THEN Len(navigators_') > NavigatorCount
                                    ELSE Len(navigators_') = NavigatorCount
    BY <1>1, <1>2, <2>2
  <2>5. QED
    BY <1>0, <2>1, <2>2, <2>3, <2>4
    DEF IInv, ActiveMeansServing, QuietUnlessActive, CleanSlate,
        DiesOfHalfBuilt, NullPlace, InactivePlace, ActivePlace
<1>4. ASSUME NEW k \in 1..NavigatorCount, CreateRefused(k) PROVE IInv'
  <2>1. /\ navigators_' = navigators_ \o New(k) /\ tf_' = TRUE
        /\ lifecycle' = lifecycle /\ bond' = bond /\ faults' = faults \cup {"configure"}
    BY <1>4 DEF CreateRefused
  <2>2. /\ navigators_' \in Seq(Servers) /\ Len(navigators_') = Len(navigators_) + k
        /\ Usable(navigators_)' <=> Usable(navigators_)
        /\ "deactivate" \notin faults => \A i \in DOMAIN navigators_' : navigators_'[i] # "active"
    <3>1. k \in Nat OBVIOUS
    <3>2. QED BY <1>0, <2>1, <3>1, Appended DEF Usable
  <2>3. navigators_' # <<>> BY <1>2, <2>2
  <2>4. TypeOK' BY <1>0, <2>1, <2>2 DEF TypeOK, Primary, Faults
  <2>5. QED
    BY <1>0, <2>1, <2>2, <2>3, <2>4
    DEF IInv, ActiveMeansServing, QuietUnlessActive, CleanSlate,
        DiesOfHalfBuilt, NullPlace, InactivePlace, ActivePlace
<1>5. ASSUME NEW k \in 1..NavigatorCount, CreateThrows(k) PROVE IInv'
  <2> PICK half \in HalfBuilt :
        on_cleanup(navigators_ \o New(k - 1) \o half,
                   IF half = <<"null">> THEN faults \cup {"construct"} ELSE faults,
                   "unconfigured", "unconfigured")
    BY <1>5 DEF CreateThrows
  <2> DEFINE before == navigators_ \o New(k - 1)
             navs == before \o half
             seen == IF half = <<"null">> THEN faults \cup {"construct"} ELSE faults
  <2>1. /\ before \in Seq(Servers)
        /\ Usable(before) <=> Usable(navigators_)
        /\ "deactivate" \notin faults => \A i \in DOMAIN before : before[i] # "active"
    <3>1. k - 1 \in Nat OBVIOUS
    <3>2. QED BY <1>0, <3>1, Appended
  <2>2. /\ navs \in Seq(Servers)
        /\ Usable(navs) <=> Usable(before) /\ half # <<"null">>
        /\ "deactivate" \notin faults => \A i \in DOMAIN navs : navs[i] # "active"
    <3> HIDE DEF before
    <3>1. QED BY <2>1, HalfAppended
  <2>3. seen \in SUBSET Faults BY <1>0 DEF TypeOK, Faults
  <2>4. /\ "deactivate" \notin seen => "deactivate" \notin faults
        /\ ~Usable(navs) => seen \cap {"construct", "cleanup"} # {}
        /\ "cleanup" \in seen => ~Usable(navs)
    BY <1>0, <2>1, <2>2
  <2>5. on_cleanup(navs, seen, "unconfigured", "unconfigured") OBVIOUS
  <2> HIDE DEF navs, seen
  <2>6. QED BY <1>0, <2>2, <2>3, <2>4, <2>5, CleanupLeaves
<1>6. QED BY <1>3, <1>4, <1>5 DEF on_configure

LEMMA ActivateStep == IInv /\ on_activate => IInv'
<1> SUFFICES ASSUME IInv, on_activate PROVE IInv' OBVIOUS
<1>0. /\ TypeOK /\ lifecycle = "inactive" /\ bond = FALSE
      /\ tf_' = tf_ /\ configures' = configures
      /\ "cleanup" \in faults <=> ~Usable(navigators_)
      /\ navigators_ \in Seq(Servers)
      /\ "cleanup" \notin faults =>
           /\ tf_
           /\ IF "configure" \in faults
                THEN Len(navigators_) > NavigatorCount
                ELSE Len(navigators_) = NavigatorCount
  BY DEF IInv, TypeOK, on_activate, QuietUnlessActive, NullPlace, InactivePlace
<1>1. CASE ActivateAll
  <2>1. /\ Usable(navigators_) /\ navigators_' = LoopOver(navigators_, "active")
        /\ bond' = TRUE /\ lifecycle' = "active" /\ faults' = faults \ {"deactivate"}
    BY <1>1 DEF ActivateAll
  <2>2. "active" \in Servers BY DEF Servers
  <2>3. /\ navigators_' \in Seq(Servers) /\ Len(navigators_') = Len(navigators_)
        /\ DOMAIN navigators_' = DOMAIN navigators_
        /\ \A i \in DOMAIN navigators_ : navigators_'[i] = "active"
    BY <1>0, <2>1, <2>2, LoopOverVector
  <2>4. Usable(navigators_)' BY <2>3 DEF Usable
  <2>5. TypeOK' BY <1>0, <2>1, <2>3 DEF TypeOK, Primary
  <2>6. QED
    BY <1>0, <2>1, <2>3, <2>4, <2>5
    DEF IInv, ActiveMeansServing, QuietUnlessActive, CleanSlate,
        DiesOfHalfBuilt, NullPlace, InactivePlace, ActivePlace
<1>2. ASSUME NEW k \in DOMAIN navigators_, NEW last \in Servers, ActivateFails(k, last)
      PROVE  IInv'
  <2> DEFINE navs == LoopTo(navigators_, k, "active", last)
  <2>1. /\ Reaches(navigators_, k) /\ last \in ActivateRefused(navigators_[k])
        /\ on_deactivate(navs, "inactive")
    BY <1>2 DEF ActivateFails
  <2>2. "active" \in Servers BY DEF Servers
  <2>3. /\ navs \in Seq(Servers) /\ Len(navs) = Len(navigators_)
        /\ DOMAIN navs = DOMAIN navigators_
        /\ \A i \in DOMAIN navigators_ :
             navs[i] = IF i < k THEN "active" ELSE IF i = k THEN last ELSE navigators_[i]
    BY <1>0, <2>2, LoopToVector
  <2>4. k \in Nat /\ k >= 1 /\ DOMAIN navigators_ = 1..Len(navigators_) BY <1>0
  <2>5. \A i \in 1..k : navigators_[i] # "null" BY <2>1 DEF Reaches
  <2>6. last # "null" BY <2>1, <2>4, <2>5 DEF ActivateRefused
  <2> HIDE DEF navs
  <2>7. \A i \in DOMAIN navigators_ : navs[i] = "null" <=> navigators_[i] = "null"
    <3> TAKE i \in DOMAIN navigators_
    <3>1. CASE i < k BY <2>3, <2>4, <2>5, <3>1
    <3>2. CASE i = k BY <2>3, <2>4, <2>5, <2>6, <3>2
    <3>3. CASE i > k BY <2>3, <2>4, <3>3
    <3>4. QED BY <2>4, <3>1, <3>2, <3>3
  <2>8. Usable(navs) <=> Usable(navigators_) BY <2>3, <2>7 DEF Usable
  <2>9. QED BY <1>0, <2>1, <2>3, <2>8, DeactivateLeaves
<1>3. CASE Crash(navigators_) /\ UNCHANGED faults
  <2>1. /\ lifecycle' = "gone" /\ navigators_' = navigators_ /\ bond' = bond
        /\ ~Usable(navigators_)
    BY <1>3 DEF Crash
  <2>2. TypeOK' BY <1>0, <1>3, <2>1 DEF TypeOK
  <2>3. QED
    BY <1>0, <1>3, <2>1, <2>2
    DEF IInv, ActiveMeansServing, QuietUnlessActive, CleanSlate,
        DiesOfHalfBuilt, NullPlace, InactivePlace, ActivePlace
<1>4. QED BY <1>1, <1>2, <1>3 DEF on_activate

LEMMA DeactivateStep == IInv /\ Deactivate => IInv'
<1> SUFFICES ASSUME IInv, Deactivate PROVE IInv' OBVIOUS
<1>1. /\ TypeOK /\ lifecycle = "active" /\ bond = TRUE
      /\ tf_' = tf_ /\ configures' = configures
      /\ on_deactivate(navigators_, "active")
      /\ "cleanup" \notin faults /\ Usable(navigators_)
      /\ navigators_ \in Seq(Servers)
      /\ tf_
      /\ IF "configure" \in faults
           THEN Len(navigators_) > NavigatorCount
           ELSE Len(navigators_) = NavigatorCount
  BY DEF IInv, TypeOK, Deactivate, NullPlace, ActivePlace, ActiveMeansServing
<1>2. QED BY <1>1, DeactivateLeaves

LEMMA CleanupStep == IInv /\ Cleanup => IInv'
<1> SUFFICES ASSUME IInv, Cleanup PROVE IInv' OBVIOUS
<1>1. /\ TypeOK /\ lifecycle = "inactive" /\ bond = FALSE
      /\ navigators_ \in Seq(Servers) /\ faults \in SUBSET Faults
      /\ configures' \in 0..MaxConfigures
      /\ on_cleanup(navigators_, faults, "unconfigured", "inactive")
      /\ "deactivate" \notin faults => \A i \in DOMAIN navigators_ : navigators_[i] # "active"
      /\ "cleanup" \in faults <=> ~Usable(navigators_)
  BY DEF IInv, TypeOK, Cleanup, NullPlace, QuietUnlessActive
<1>2. QED BY <1>1, CleanupLeaves

LEMMA ShutdownStep == IInv /\ on_shutdown => IInv'
<1> SUFFICES ASSUME IInv, on_shutdown PROVE IInv' OBVIOUS
<1>1. TypeOK' BY DEF IInv, TypeOK, on_shutdown, Primary
<1>2. QED
  BY <1>1
  DEF IInv, on_shutdown, ActiveMeansServing, QuietUnlessActive, CleanSlate,
      DiesOfHalfBuilt, NullPlace, InactivePlace, ActivePlace

LEMMA StutterStep == IInv /\ UNCHANGED vars => IInv'
BY DEF vars, IInv, TypeOK, ActiveMeansServing, QuietUnlessActive, CleanSlate,
       DiesOfHalfBuilt, NullPlace, InactivePlace, ActivePlace, Usable

LEMMA Inductive == Spec => []IInv
<1>1. IInv /\ [Next]_vars => IInv'
  BY ConfigureStep, ActivateStep, DeactivateStep, CleanupStep, ShutdownStep, StutterStep DEF Next
<1>2. QED BY <1>1, Initially, PTL DEF Spec

-----------------------------------------------------------------------------
(* Every variable keeps its type. *)
THEOREM TypeCorrect == Spec => []TypeOK
BY Inductive, PTL DEF IInv

(* An active node has its bond and serves with each navigator          *)
(* (bt_navigator.cpp:137, 145).                                        *)
THEOREM ActiveServes == Spec => []ActiveMeansServing
BY Inductive, PTL DEF IInv

(* A node that is not active has no bond and serves with none           *)
(* (bt_navigator.cpp:139, 161).                                         *)
THEOREM InactiveIsQuiet == Spec => []QuietUnlessActive
BY Inductive, PTL DEF IInv

(* A failed attempt to configure the node leaves nothing behind, except for *)
(* navigators that refused (bt_navigator.cpp:119, 125).                     *)
THEOREM Reconfigurable == Spec => []CleanSlate
BY Inductive, PTL DEF IInv

(* A null server is called only after a constructor threw or a cleanup was *)
(* refused (bt_navigator.cpp:125, 177).                                    *)
THEOREM CrashExplained == Spec => []DiesOfHalfBuilt
BY Inductive, PTL DEF IInv
=============================================================================
