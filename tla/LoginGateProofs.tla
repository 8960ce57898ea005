-------------------------- MODULE LoginGateProofs --------------------------
(***************************************************************************)
(* Theorems of the login gate, for any limit, users, logins and toggles.    *)
(***************************************************************************)
EXTENDS LoginGate, FiniteSetTheorems, TLAPS

-----------------------------------------------------------------------------
(* The rate limit.  Its bound is what gives the counter its type, so both   *)
(* are one invariant.                                                       *)

Binding == {p \in Logins : login[p] = "bind"}
Room == maxLoginAttempts - 1 + Cardinality(Logins)

RateInv == TypeOK /\ RateBound

LEMMA BindingSize ==
    ASSUME LoginGateAssumption, NEW B, B \subseteq Logins
    PROVE  /\ IsFiniteSet(B)
           /\ Cardinality(B) \in Nat /\ Cardinality(Logins) \in Nat
           /\ Cardinality(B) <= Cardinality(Logins)
           /\ maxLoginAttempts \in Nat /\ maxLoginAttempts >= 1
<1>1. IsFiniteSet(Logins) /\ maxLoginAttempts \in Nat \ {0}
  BY DEF LoginGateAssumption
<1>2. IsFiniteSet(B) /\ Cardinality(B) <= Cardinality(Logins)
  BY <1>1, FS_Subset
<1> QED
  BY <1>1, <1>2, FS_CardinalityType

\* The bound holds of a new entry, and then the entry has its type.
LEMMA EntryInv ==
    ASSUME LoginGateAssumption, NEW a \in Nat, NEW o \in BOOLEAN,
           login' \in [Logins -> {"idle", "bind", "bound"}],
           entry' = [attempts |-> a, old |-> o],
           a + Cardinality(Binding') <= Room
    PROVE  entry' \in Entry \cup {NoEntry} /\ RateBound'
<1>1. Binding' \subseteq Logins
  BY DEF Binding
<1>2. Cardinality(Binding') \in Nat /\ Room \in Nat
  BY <1>1, BindingSize DEF Room
<1>3. a \in 0..Room
  BY <1>2
<1>4. entry' \in Entry
  BY <1>3 DEF Entry, Room
<1>5. RateBound'
  BY DEF RateBound, Binding, Room
<1> QED
  BY <1>4, <1>5

LEMMA NoEntryInv ==
    ASSUME entry' = NoEntry
    PROVE  entry' \in Entry \cup {NoEntry} /\ RateBound'
BY DEF RateBound

LEMMA GotoLogin ==
    ASSUME TypeOK, NEW p \in Logins, NEW pc \in {"idle", "bind", "bound"}, Goto(p, pc)
    PROVE  /\ login' \in [Logins -> {"idle", "bind", "bound"}]
           /\ pc # "bind" => Binding' = Binding \ {p}
BY DEF TypeOK, Goto, Binding

\* What a login does to the counter leaves its bound.
LEMMA LimitStep ==
    ASSUME LoginGateAssumption, RateInv, NEW p \in Logins,
           CheckRateLimit(p) \/ Bind(p) \/ Refused(p) \/ TurnedAway(p) \/ LoggedIn(p)
    PROVE  /\ entry' \in Entry \cup {NoEntry} /\ RateBound'
           /\ login' \in [Logins -> {"idle", "bind", "bound"}]
<1>0. TypeOK /\ RateBound
  BY DEF RateInv
<1>t. login \in [Logins -> {"idle", "bind", "bound"}] /\ entry \in Entry \cup {NoEntry}
  BY <1>0 DEF TypeOK
<1>n. /\ Cardinality(Binding) \in Nat /\ Cardinality(Logins) \in Nat
      /\ maxLoginAttempts \in Nat /\ maxLoginAttempts >= 1
  <2>1. Binding \subseteq Logins
    BY DEF Binding
  <2> QED
    BY <2>1, BindingSize
<1>e. ASSUME entry # NoEntry
      PROVE  /\ entry.attempts \in Nat /\ entry.old \in BOOLEAN
             /\ entry = [attempts |-> entry.attempts, old |-> entry.old]
             /\ entry.attempts + Cardinality(Binding) <= Room
  BY <1>0, <1>t, <1>e, <1>n DEF Entry, RateBound, Binding, Room
<1>1. CASE CheckRateLimit(p)
  <2>1. login' \in [Logins -> {"idle", "bind", "bound"}]
    BY <1>0, <1>1, <1>t, GotoLogin DEF CheckRateLimit
  <2>2. Binding' \subseteq Logins
    BY DEF Binding
  <2>3. Cardinality(Binding') \in Nat /\ Cardinality(Binding') <= Cardinality(Logins)
    BY <2>2, BindingSize
  <2>4. CASE entry = NoEntry \/ entry.old
    <3>1. entry' = [attempts |-> 0, old |-> FALSE]
      BY <1>1, <2>4 DEF CheckRateLimit
    <3>2. 0 + Cardinality(Binding') <= Room
      BY <1>n, <2>3 DEF Room
    <3> QED
      BY <2>1, <3>1, <3>2, EntryInv
  <2>5. CASE ~(entry = NoEntry \/ entry.old)
    <3>1. ~Exhausted(entry) /\ entry' = entry
      BY <1>1, <2>5 DEF CheckRateLimit
    <3>2. entry.attempts + Cardinality(Binding') <= Room
      BY <1>e, <1>n, <2>3, <2>5, <3>1 DEF Room, Exhausted
    <3> QED
      BY <1>e, <2>1, <2>5, <3>1, <3>2, EntryInv
  <2> QED
    BY <2>4, <2>5
<1>2. CASE Bind(p) \/ TurnedAway(p)
  <2>1. /\ login' \in [Logins -> {"idle", "bind", "bound"}]
        /\ Binding' = Binding \ {p} /\ entry' = entry
    BY <1>0, <1>2, GotoLogin DEF Bind, TurnedAway
  <2>2. Binding' \subseteq Binding /\ Binding \subseteq Logins
    BY <2>1 DEF Binding
  <2>3. Cardinality(Binding') \in Nat /\ Cardinality(Binding') <= Cardinality(Binding)
    BY <2>2, BindingSize, FS_Subset
  <2>4. CASE entry = NoEntry
    BY <2>1, <2>4, NoEntryInv
  <2>5. CASE entry # NoEntry
    <3>1. entry.attempts + Cardinality(Binding') <= Room
      BY <1>e, <1>n, <2>3, <2>5 DEF Room
    <3> QED
      BY <1>e, <2>1, <2>5, <3>1, EntryInv
  <2> QED
    BY <2>1, <2>4, <2>5
<1>3. CASE Refused(p)
  <2>1. /\ login' \in [Logins -> {"idle", "bind", "bound"}]
        /\ Binding' = Binding \ {p} /\ p \in Binding
    BY <1>0, <1>3, GotoLogin DEF Refused, Binding
  <2>2. Binding \subseteq Logins
    BY DEF Binding
  <2>3. /\ Cardinality(Binding') = Cardinality(Binding) - 1
        /\ Cardinality(Binding) <= Cardinality(Logins)
    BY <2>1, <2>2, BindingSize, FS_RemoveElement
  <2>4. CASE entry = NoEntry
    <3>1. entry' = [attempts |-> 1, old |-> FALSE]
      BY <1>3, <2>4 DEF Refused
    <3>2. 1 + Cardinality(Binding') <= Room
      BY <1>n, <2>3 DEF Room
    <3> QED
      BY <2>1, <3>1, <3>2, EntryInv
  <2>5. CASE entry # NoEntry
    <3>1. entry' = [attempts |-> entry.attempts + 1, old |-> entry.old]
      BY <1>3, <1>e, <2>5 DEF Refused
    <3>2. entry.attempts + 1 + Cardinality(Binding') <= Room
      BY <1>e, <1>n, <2>3, <2>5 DEF Room
    <3>3. entry.attempts + 1 \in Nat
      BY <1>e, <2>5
    <3> QED
      BY <1>e, <2>1, <2>5, <3>1, <3>2, <3>3, EntryInv
  <2> QED
    BY <2>4, <2>5
<1>4. CASE LoggedIn(p)
  BY <1>0, <1>4, GotoLogin, NoEntryInv DEF LoggedIn
<1> QED
  BY <1>1, <1>2, <1>3, <1>4

-----------------------------------------------------------------------------
(* The toggles.                                                             *)

Pair == [user : Users \cup {NoUser}, grant : BOOLEAN]

ToggleInv == \A t \in Toggles : toggle[t] # NoToggle => toggle[t].user \in Users

\* What memory and table say of u fits.
Fits(u) ==
    /\ u \in granted => u \in allowed
    /\ u \in allowed => u \in granted \cup Config \cup Admins

\* The toggle that is alone with u is about to write to memory what the
\* table says.
Alone(t, u) == InFlight(u) = {t} /\ (toggle[t].grant <=> u \in granted)

AgreeInv == \A u \in Users \ disputed :
    \/ InFlight(u) = {} /\ Fits(u)
    \/ \E t \in Toggles : Alone(t, u)

LEMMA NoToggleType == NoToggle \in Pair /\ NoToggle.user = NoUser
BY DEF NoToggle, Pair

\* Between its two steps a toggle is in flight for its user and no other.
LEMMA InFlightOnly ==
    ASSUME LoginGateAssumption, TypeOK, NEW t \in Toggles, NEW q \in Pair,
           toggle' = [toggle EXCEPT ![t] = q], NEW u \in Users
    PROVE  InFlight(u)' = IF q.user = u THEN InFlight(u) \cup {t} ELSE InFlight(u) \ {t}
BY DEF TypeOK, InFlight

LEMMA WriteGrantStep ==
    ASSUME LoginGateAssumption, TypeOK, ToggleInv, AgreeInv,
           NEW t \in Toggles, NEW u \in Users, NEW g \in BOOLEAN, WriteGrant(t, u, g)
    PROVE  /\ granted' \subseteq Users /\ disputed' \subseteq Users
           /\ toggle' \in [Toggles -> Pair]
           /\ ToggleInv' /\ AgreeInv'
<1> DEFINE q == [user |-> u, grant |-> g]
<1>1. q \in Pair /\ q.user = u /\ q.grant = g
  BY DEF Pair
<1>2. toggle' = [toggle EXCEPT ![t] = q] /\ toggle[t] = NoToggle
  BY DEF WriteGrant, Toggle
<1> HIDE DEF q
<1>3. toggle' \in [Toggles -> Pair] /\ toggle'[t] = q
      /\ \A s \in Toggles \ {t} : toggle'[s] = toggle[s]
  BY <1>1, <1>2 DEF TypeOK, Pair
<1>4. granted' = (IF g THEN granted \cup {u} ELSE granted \ {u}) /\ allowed' = allowed
  BY DEF WriteGrant, Toggle, Written
<1>5. disputed' = IF InFlight(u) = {} THEN disputed \ {u} ELSE disputed \cup {u}
  BY DEF WriteGrant, Toggle
<1>6. ToggleInv'
  BY <1>1, <1>3 DEF ToggleInv
<1>7. ASSUME NEW v \in Users \ disputed'
      PROVE  (InFlight(v)' = {} /\ Fits(v)') \/ \E s \in Toggles : Alone(s, v)'
  <2>1. CASE v = u
    <3>1. InFlight(u) = {}
      BY <1>5, <1>7, <2>1
    <3>2. InFlight(u)' = {t}
      <4>1. InFlight(u)' = IF q.user = u THEN InFlight(u) \cup {t} ELSE InFlight(u) \ {t}
        BY <1>1, <1>2, InFlightOnly
      <4> QED
        BY <1>1, <3>1, <4>1
    <3>3. toggle'[t].grant <=> u \in granted'
      BY <1>1, <1>3, <1>4
    <3> QED
      BY <2>1, <3>2, <3>3 DEF Alone
  <2>2. CASE v # u
    <3>1. v \in Users \ disputed /\ v # NoUser
      BY <1>5, <1>7, <2>2 DEF LoginGateAssumption
    <3>2. t \notin InFlight(v)
      BY <1>2, <3>1, NoToggleType DEF InFlight
    <3>3. InFlight(v)' = InFlight(v)
      <4>1. v \in Users /\ q.user # v
        BY <1>1, <2>2, <3>1
      <4>2. InFlight(v)' = InFlight(v) \ {t}
        BY <1>1, <1>2, <4>1, InFlightOnly
      <4> QED
        BY <3>2, <4>2
    <3>4. v \in granted' <=> v \in granted
      BY <1>4, <2>2
    <3>5. CASE InFlight(v) = {} /\ Fits(v)
      BY <1>4, <3>3, <3>4, <3>5 DEF Fits
    <3>6. ASSUME NEW s \in Toggles, Alone(s, v)
          PROVE  Alone(s, v)'
      <4>1. s # t
        BY <3>2, <3>6 DEF Alone
      <4> QED
        BY <1>3, <3>3, <3>4, <3>6, <4>1 DEF Alone
    <3> QED
      BY <3>1, <3>5, <3>6 DEF AgreeInv
  <2> QED
    BY <2>1, <2>2
<1>8. AgreeInv'
  BY <1>7 DEF AgreeInv
<1>9. granted' \subseteq Users /\ disputed' \subseteq Users
  BY <1>4, <1>5 DEF TypeOK
<1> QED
  BY <1>3, <1>6, <1>8, <1>9

LEMMA SyncStep ==
    ASSUME LoginGateAssumption, TypeOK, ToggleInv, AgreeInv, NEW t \in Toggles, Sync(t)
    PROVE  /\ allowed' \subseteq Users
           /\ toggle' \in [Toggles -> Pair]
           /\ ToggleInv' /\ AgreeInv'
<1> DEFINE u == toggle[t].user
<1>1. toggle[t] # NoToggle /\ u \in Users /\ u # NoUser
  BY DEF Sync, ToggleInv, LoginGateAssumption
<1>2. toggle' = [toggle EXCEPT ![t] = NoToggle] /\ granted' = granted /\ disputed' = disputed
  BY DEF Sync
<1>3. toggle' \in [Toggles -> Pair] /\ toggle'[t] = NoToggle
      /\ \A s \in Toggles \ {t} : toggle'[s] = toggle[s]
  BY <1>2, NoToggleType DEF TypeOK, Pair
<1>4. allowed' = IF toggle[t].grant THEN allowed \cup {u} ELSE allowed \ ({u} \ Admins)
  BY DEF Sync
<1> HIDE DEF u
<1>5. ToggleInv'
  BY <1>3 DEF ToggleInv
<1>6. ASSUME NEW v \in Users \ disputed'
      PROVE  (InFlight(v)' = {} /\ Fits(v)') \/ \E s \in Toggles : Alone(s, v)'
  <2>0. v \in Users \ disputed /\ v # NoUser
    BY <1>2, <1>6 DEF LoginGateAssumption
  <2>1. InFlight(v)' = InFlight(v) \ {t}
    BY <1>2, <2>0, NoToggleType, InFlightOnly
  <2>2. CASE v = u
    <3>1. t \in InFlight(v)
      BY <2>2 DEF InFlight, u
    <3>2. PICK s \in Toggles : Alone(s, v)
      BY <2>0, <3>1 DEF AgreeInv
    <3>3. s = t /\ InFlight(v) = {t} /\ (toggle[t].grant <=> v \in granted)
      BY <3>1, <3>2 DEF Alone
    <3>4. InFlight(v)' = {}
      BY <2>1, <3>3
    <3>5. Fits(v)'
      BY <1>2, <1>4, <2>2, <3>3 DEF Fits
    <3> QED
      BY <3>4, <3>5
  <2>3. CASE v # u
    <3>1. t \notin InFlight(v)
      BY <2>3 DEF InFlight, u
    <3>2. InFlight(v)' = InFlight(v)
      BY <2>1, <3>1
    <3>3. v \in allowed' <=> v \in allowed
      BY <1>4, <2>3
    <3>4. CASE InFlight(v) = {} /\ Fits(v)
      BY <1>2, <3>2, <3>3, <3>4 DEF Fits
    <3>5. ASSUME NEW s \in Toggles, Alone(s, v)
          PROVE  Alone(s, v)'
      <4>1. s # t
        BY <3>1, <3>5 DEF Alone
      <4> QED
        BY <1>2, <1>3, <3>2, <3>5, <4>1 DEF Alone
    <3> QED
      BY <2>0, <3>4, <3>5 DEF AgreeInv
  <2> QED
    BY <2>2, <2>3
<1>7. AgreeInv'
  BY <1>6 DEF AgreeInv
<1>8. allowed' \subseteq Users
  BY <1>1, <1>4 DEF TypeOK
<1> QED
  BY <1>3, <1>5, <1>7, <1>8

\* With no toggle under way, agreement is Fits.
LEMMA NoToggles ==
    ASSUME LoginGateAssumption, NEW u \in Users, \A t \in Toggles : toggle[t] = NoToggle
    PROVE  InFlight(u) = {}
BY NoToggleType DEF InFlight, LoginGateAssumption

-----------------------------------------------------------------------------
(* Both together.                                                           *)

GateInv == TypeOK /\ RateBound /\ ToggleInv /\ AgreeInv

LEMMA GateInit ==
    ASSUME LoginGateAssumption, Init
    PROVE  GateInv
<1>1. TypeOK
  BY NoToggleType DEF Init, TypeOK, LoginGateAssumption, Pair
<1>2. RateBound /\ ToggleInv
  BY DEF Init, RateBound, ToggleInv
<1>3. ASSUME NEW u \in Users
      PROVE  InFlight(u) = {} /\ Fits(u)
  BY NoToggles DEF Init, Fits
<1> QED
  BY <1>1, <1>2, <1>3 DEF GateInv, AgreeInv

LEMMA GateStep ==
    ASSUME LoginGateAssumption, GateInv, [Next]_gateVars
    PROVE  GateInv'
<1>0. TypeOK /\ RateBound /\ ToggleInv /\ AgreeInv
  BY DEF GateInv
<1>l. ASSUME UNCHANGED Lists
      PROVE  /\ granted' \subseteq Users /\ allowed' \subseteq Users /\ disputed' \subseteq Users
             /\ toggle' \in [Toggles -> [user : Users \cup {NoUser}, grant : BOOLEAN]]
             /\ ToggleInv' /\ AgreeInv'
  BY <1>0, <1>l DEF TypeOK, Lists, ToggleInv, AgreeInv, Alone, Fits, InFlight
<1>r. ASSUME UNCHANGED Limit
      PROVE  /\ entry' \in Entry \cup {NoEntry} /\ RateBound'
             /\ login' \in [Logins -> {"idle", "bind", "bound"}]
  BY <1>0, <1>r DEF TypeOK, Limit, RateBound
<1>1. ASSUME NEW p \in Logins,
             CheckRateLimit(p) \/ Bind(p) \/ Refused(p) \/ TurnedAway(p) \/ LoggedIn(p)
      PROVE  GateInv'
  <2>1. UNCHANGED Lists
    BY <1>1 DEF CheckRateLimit, Bind, Refused, TurnedAway, LoggedIn
  <2>2. /\ entry' \in Entry \cup {NoEntry} /\ RateBound'
        /\ login' \in [Logins -> {"idle", "bind", "bound"}]
    BY <1>0, <1>1, LimitStep DEF RateInv
  <2> QED
    BY <1>l, <2>1, <2>2 DEF GateInv, TypeOK
<1>2. CASE WindowPasses
  <2>1. entry # NoEntry /\ entry' = [entry EXCEPT !.old = TRUE] /\ login' = login
        /\ UNCHANGED Lists
    BY <1>2 DEF WindowPasses
  <2>2. entry \in Entry
    BY <1>0, <2>1 DEF TypeOK
  <2>3. entry' \in Entry /\ entry'.attempts = entry.attempts
    BY <2>1, <2>2 DEF Entry
  <2>4. RateBound'
    BY <1>0, <2>1, <2>3 DEF RateBound
  <2> QED
    BY <1>0, <1>l, <2>1, <2>3, <2>4 DEF GateInv, TypeOK
<1>3. CASE CleanUp
  BY <1>0, <1>l, <1>3, NoEntryInv DEF CleanUp, GateInv, TypeOK
<1>4. ASSUME NEW t \in Toggles, Sync(t)
      PROVE  GateInv'
  <2>1. UNCHANGED Limit /\ granted' = granted /\ disputed' = disputed
    BY <1>4 DEF Sync
  <2>2. allowed' \subseteq Users /\ toggle' \in [Toggles -> Pair] /\ ToggleInv' /\ AgreeInv'
    BY <1>0, <1>4, SyncStep
  <2> QED
    BY <1>0, <1>r, <2>1, <2>2 DEF GateInv, TypeOK, Pair
<1>5. ASSUME NEW t \in Toggles, NEW u \in Users, NEW g \in BOOLEAN, WriteGrant(t, u, g)
      PROVE  GateInv'
  <2>1. UNCHANGED Limit /\ allowed' = allowed
    BY <1>5 DEF WriteGrant, Toggle
  <2>2. /\ granted' \subseteq Users /\ disputed' \subseteq Users
        /\ toggle' \in [Toggles -> Pair] /\ ToggleInv' /\ AgreeInv'
    BY <1>0, <1>5, WriteGrantStep
  <2> QED
    BY <1>0, <1>r, <2>1, <2>2 DEF GateInv, TypeOK, Pair
<1>6. CASE Reboot
  <2>1. /\ entry' = NoEntry /\ login' = [p \in Logins |-> "idle"]
        /\ toggle' = [t \in Toggles |-> NoToggle] /\ granted' = granted
        /\ \/ allowed' = Config \cup granted /\ disputed' = {}
           \/ allowed' = Config /\ disputed' = granted \ Config
    BY <1>6 DEF Reboot
  <2>2. toggle' \in [Toggles -> Pair] /\ ToggleInv'
    BY <2>1, NoToggleType DEF ToggleInv
  <2>3. ASSUME NEW u \in Users \ disputed'
        PROVE  InFlight(u)' = {} /\ Fits(u)'
    <3>1. InFlight(u)' = {}
      BY <2>1, <2>3, NoToggleType DEF InFlight, LoginGateAssumption
    <3>2. Fits(u)'
      BY <2>1, <2>3 DEF Fits
    <3> QED
      BY <3>1, <3>2
  <2>4. AgreeInv'
    BY <2>3 DEF AgreeInv
  <2> QED
    BY <1>0, <2>1, <2>2, <2>4, NoEntryInv DEF GateInv, TypeOK, Pair, LoginGateAssumption
<1>7. CASE UNCHANGED gateVars
  BY <1>0, <1>7, <1>l, <1>r DEF GateInv, TypeOK, gateVars, Lists, Limit
<1> QED
  BY <1>1, <1>2, <1>3, <1>4, <1>5, <1>6, <1>7 DEF Next

\* The counter, the lists and the locals keep their types.
THEOREM GateTypeCorrect ==
    ASSUME LoginGateAssumption
    PROVE  Spec => []TypeOK
<1>1. GateInv => TypeOK
  BY DEF GateInv
<1>2. Init => GateInv
  BY GateInit
<1>3. GateInv /\ [Next]_gateVars => GateInv'
  BY GateStep
<1> QED
  BY <1>1, <1>2, <1>3, PTL DEF Spec

\* Failed logins of one address and one window are bounded, however many
\* logins overlap.
THEOREM RateBounded ==
    ASSUME LoginGateAssumption
    PROVE  Spec => []RateBound
<1>1. GateInv => RateBound
  BY DEF GateInv
<1>2. Init => GateInv
  BY GateInit
<1>3. GateInv /\ [Next]_gateVars => GateInv'
  BY GateStep
<1> QED
  BY <1>1, <1>2, <1>3, PTL DEF Spec

\* Memory and table agree on everyone whose last toggle was alone.
THEOREM AllowedAgreed ==
    ASSUME LoginGateAssumption
    PROVE  Spec => []AllowedAgrees
<1>1. GateInv => AllowedAgrees
  BY DEF GateInv, AgreeInv, AllowedAgrees, Fits, Alone
<1>2. Init => GateInv
  BY GateInit
<1>3. GateInv /\ [Next]_gateVars => GateInv'
  BY GateStep
<1> QED
  BY <1>1, <1>2, <1>3, PTL DEF Spec
=============================================================================
