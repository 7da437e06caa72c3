------------------------ MODULE TrafficQuota_proofs -------------------------
(***************************************************************************)
(* Proofs about the accounting file and the enforcer: its types, the way   *)
(* back of a guest that was cut off, and that no guest is charged or cut   *)
(* off for traffic it did not have, but for what faults of the file cost.  *)
(***************************************************************************)
EXTENDS TrafficQuota, TLAPS

-----------------------------------------------------------------------------
(* Operators.                                                              *)

\* A sample adds a natural number, and none is added when it is repeated.
LEMMA DeltaType ==
    ASSUME NEW last \in Nat, NEW current \in Nat
    PROVE  /\ Delta(last, current) \in Nat
           /\ Delta(last, current) <= current
           /\ Delta(current, current) = 0
           /\ Delta(last, 0) = 0
           /\ Delta(last, current + 1) <= Delta(last, current) + 1
BY DEF Delta

\* The missing file reads as a state, and not as a damaged one.
LEMMA NewStateType == NewState \in States /\ NewState # Corrupt
<1>1. /\ 0 \in Nat /\ 0 \in Quotas /\ FALSE \in BOOLEAN
      /\ NoNetwork \in Networks \cup {NoNetwork}
  BY QuotasAssumption
<1>2. NewState \in States
  BY <1>1, Zenon DEF NewState, States
<1> QED BY <1>2, MarkersAssumption

\* What the readers of the file see has its type.
LEMMA LoadedType ==
    ASSUME file \in States \cup {Corrupt}
    PROVE  Loaded \in States
BY NewStateType DEF Loaded

\* The quota a pass works with is one the master has sent.
LEMMA EffectiveQuotaType ==
    ASSUME TypeOK
    PROVE  EffectiveQuota \in Quotas
<1>1. Loaded.quota \in Quotas /\ Loaded.original \in Networks \cup {NoNetwork}
  BY LoadedType DEF TypeOK, States
<1>2. stored.quota \in Quotas
  BY DEF TypeOK, Networks
<1> QED
  BY <1>1, <1>2 DEF EffectiveQuota, Larger, Networks

\* The outcome of a metrics query has its type.
LEMMA ObservedType ==
    ASSUME TypeOK, NEW q \in Quotas
    PROVE  Observed(q) \in [used : Nat, exceeded : BOOLEAN]
<1>1. CASE file = Corrupt
  BY <1>1 DEF Observed, NoSample
<1>2. CASE file # Corrupt
  <2>1. file.used \in Nat /\ Delta(file.last, nic) \in Nat
    BY <1>2, DeltaType DEF TypeOK, States
  <2>2. file.used + Delta(file.last, nic) \in Nat
    BY <2>1
  <2>3. q \in Nat
    BY QuotasAssumption
  <2> QED
    BY <1>2, <2>2, <2>3 DEF Observed, TrafficQuotaExceeded
<1> QED BY <1>1, <1>2

\* What the model writes keeps the types of the file and of its fault counter.
LEMMA SaveType ==
    ASSUME TypeOK, NEW state \in States, Save(state)
    PROVE  file' \in States \cup {Corrupt} /\ faults' \in 0..MaxFaults
BY BoundsAssumption DEF TypeOK, Save, Fault

LEMMA AccumulateType ==
    ASSUME TypeOK, NEW q \in Quotas, Accumulate(q)
    PROVE  file' \in States \cup {Corrupt} /\ faults' \in 0..MaxFaults
<1>1. CASE file # Corrupt /\ UNCHANGED faults
  <2>1. file.used \in Nat /\ Delta(file.last, nic) \in Nat /\ nic \in Nat
    BY <1>1, DeltaType DEF TypeOK, States
  <2>2. file.used + Delta(file.last, nic) \in Nat
    BY <2>1
  <2>3. [file EXCEPT !.used = @ + Delta(file.last, nic), !.last = nic, !.quota = q]
            \in States
    BY <1>1, <2>1, <2>2 DEF TypeOK, States
  <2> QED
    BY <1>1, <2>3, BoundsAssumption DEF TypeOK, Accumulate, Fault
<1>2. CASE ~(file # Corrupt /\ UNCHANGED faults)
  BY <1>2, BoundsAssumption DEF TypeOK, Accumulate, Fault, disk
<1> QED BY <1>1, <1>2

\* The counter keeps its type.
LEMMA CounterType ==
    ASSUME TypeOK, CounterReset \/ CounterKept
    PROVE  nic' \in Nat
BY DEF TypeOK, CounterReset, CounterKept

\* A network that is cut or restored, or a counter that starts again, keeps the
\* types of the guest's runtime.
LEMMA LinkType ==
    ASSUME TypeOK,
           \/ CutLink \/ JoinLink \/ CutLinkFails \/ JoinLinkFails
           \/ CounterReset /\ UNCHANGED link
           \/ RebootGuest /\ UNCHANGED link
    PROVE  link' \in {"up", "down"} /\ nic' \in Nat
<1>1. \A state \in {"up", "down"} : SetLink(state) => link' \in {"up", "down"}
  <2> SUFFICES ASSUME NEW state \in {"up", "down"}, SetLink(state)
               PROVE  link' \in {"up", "down"}
    OBVIOUS
  <2>1. link' = state \/ link' = link
    BY Zenon DEF SetLink
  <2> QED BY <2>1 DEF TypeOK
<1>2. link' \in {"up", "down"}
  BY <1>1 DEF TypeOK, CutLink, JoinLink, CutLinkFails, JoinLinkFails
<1>3. CounterReset \/ CounterKept
  BY DEF CutLink, JoinLink, CutLinkFails, JoinLinkFails, RebootGuest
<1> QED
  BY <1>2, <1>3, CounterType

-----------------------------------------------------------------------------
(* Types.                                                                  *)

USE DEF disk, runtime, records, control

LEMMA InitType == Init => TypeOK
<1> SUFFICES ASSUME Init PROVE TypeOK OBVIOUS
<1>1. NoSample \in [used : Nat, exceeded : BOOLEAN]
  BY DEF NoSample
<1> QED
  <2>1. pinned \in BOOLEAN
    BY Zenon DEF Init
  <2> HIDE DEF NewState, NoSample
  <2> QED BY <1>1, <2>1, NewStateType, BoundsAssumption DEF Init, TypeOK, Phases

\* Each operation that ends, or goes on, keeps the types of the control state.
LEMMA ControlType ==
    ASSUME TypeOK
    PROVE  /\ Done => /\ pc' \in Phases /\ sample' \in [used : Nat, exceeded : BOOLEAN]
                      /\ snapshot' \in States /\ pending' \in Networks
                      /\ reinstalls' \in 0..MaxReinstalls /\ crashes' \in 0..MaxCrashes
           /\ \A p \in Phases : Continue(p) =>
                      /\ pc' \in Phases /\ snapshot' \in States
                      /\ reinstalls' \in 0..MaxReinstalls /\ crashes' \in 0..MaxCrashes
<1>1. NoSample \in [used : Nat, exceeded : BOOLEAN]
  BY DEF NoSample
<1> QED
  BY <1>1, NewStateType DEF Done, Continue, TypeOK, Phases

LEMMA StepType == TypeOK /\ [Next]_vars => TypeOK'
<1> SUFFICES ASSUME TypeOK, [Next]_vars PROVE TypeOK'
  OBVIOUS
<1>1. CASE Transfer
  BY <1>1, BoundsAssumption DEF Transfer, TypeOK
<1>2. CASE GuestRestarts
  <2>1. guest' \in {"running", "stopped"} /\ nic' \in Nat
    BY <1>2, LinkType DEF GuestRestarts, TypeOK
  <2> QED BY <1>2, <2>1 DEF GuestRestarts, TypeOK
<1>3. CASE Damage
  BY <1>3, BoundsAssumption DEF Damage, Fault, TypeOK
<1>4. CASE Metrics
  <2>1. PICK q \in Quotas : Accumulate(q)
    BY <1>4 DEF Metrics
  <2> QED BY <1>4, <2>1, AccumulateType DEF Metrics, TypeOK
<1>5. CASE StoreNetwork
  BY <1>5 DEF StoreNetwork, TypeOK
<1>6. CASE ResizeGuest
  BY <1>6 DEF ResizeGuest, TypeOK
<1>7. CASE Power
  <2>1. guest' \in {"running", "stopped"} /\ (CounterReset \/ CounterKept)
    BY <1>7 DEF Power, TypeOK
  <2> QED BY <1>7, <2>1, CounterType DEF Power, TypeOK
<1>8. CASE Configure
  <2>1. stored' \in Networks
    BY <1>8 DEF Configure, TypeOK
  <2>2. CutLink \/ JoinLink \/ CutLinkFails \/ JoinLinkFails
    BY <1>8 DEF Configure
  <2> QED BY <1>8, <2>1, <2>2, LinkType DEF Configure, TypeOK
<1>9. CASE Sample
  <2>1. stored.quota \in Quotas
    BY DEF TypeOK, Networks
  <2>2. sample' \in [used : Nat, exceeded : BOOLEAN]
    BY <1>9, <2>1, ObservedType DEF Sample
  <2> QED BY <1>9, <2>1, <2>2, AccumulateType DEF Sample, Continue, Phases, TypeOK
<1>10. CASE NothingToDo
  BY <1>10, ControlType DEF NothingToDo, TypeOK
<1>11. CASE Cut
  BY <1>11, LinkType DEF Cut, Continue, Phases, TypeOK
<1>12. CASE CutFails
  BY <1>12, LinkType, ControlType DEF CutFails, TypeOK
<1>13. CASE MarkDisconnected
  <2>1. Loaded \in States /\ EffectiveQuota \in Quotas
    BY LoadedType, EffectiveQuotaType DEF TypeOK
  <2>2. sample.used \in Nat /\ stored \in Networks
    BY DEF TypeOK
  <2>3. [Loaded EXCEPT !.original = IF @ = NoNetwork THEN stored ELSE @,
                       !.disconnected = TRUE,
                       !.used = sample.used,
                       !.quota = EffectiveQuota] \in States
    BY <2>1, <2>2 DEF States
  <2>4. file' \in States \cup {Corrupt} /\ faults' \in 0..MaxFaults
    BY <1>13, <2>3, SaveType DEF MarkDisconnected
  <2> QED BY <1>13, <2>4 DEF MarkDisconnected, Continue, Phases, TypeOK
<1>14. CASE StoreDisconnected
  <2>1. stored' \in Networks
    BY <1>14 DEF StoreDisconnected, TypeOK, Networks
  <2> QED BY <1>14, <2>1, ControlType DEF StoreDisconnected, TypeOK
<1>15. CASE Join
  <2>1. Loaded.original \in Networks
    BY <1>15, LoadedType DEF Join, MustJoin, TypeOK, States
  <2>2. pending' \in Networks
    BY <1>15, <2>1, EffectiveQuotaType DEF Join, Networks, Larger
  <2> QED BY <1>15, <2>2, LinkType DEF Join, Continue, Phases, TypeOK
<1>16. CASE JoinFailed
  BY <1>16, LinkType, ControlType DEF JoinFailed, TypeOK
<1>17. CASE MarkReconnected \/ MarkOnly
  <2>1. [Loaded EXCEPT !.original = NoNetwork, !.disconnected = FALSE] \in States
    BY LoadedType DEF TypeOK, States
  <2>2. file' \in States \cup {Corrupt} /\ faults' \in 0..MaxFaults
    BY <1>17, <2>1, SaveType DEF MarkReconnected, MarkOnly, Unmarked
  <2>3. CASE MarkReconnected
    BY <2>2, <2>3 DEF MarkReconnected, Continue, Phases, TypeOK
  <2>4. CASE MarkOnly
    BY <2>2, <2>4, ControlType DEF MarkOnly, TypeOK
  <2> QED BY <1>17, <2>3, <2>4
<1>18. CASE StoreReconnected
  BY <1>18, ControlType DEF StoreReconnected, TypeOK
<1>19. CASE BeginReinstall
  <2>1. reinstalls' \in 0..MaxReinstalls
    BY <1>19, BoundsAssumption DEF BeginReinstall, TypeOK
  <2> QED BY <1>19, <2>1, LoadedType DEF BeginReinstall, Phases, TypeOK
<1>20. CASE DeleteGuest
  <2>1. file' \in States \cup {Corrupt} /\ faults' \in 0..MaxFaults
    BY <1>20, NewStateType, SaveType DEF DeleteGuest
  <2> QED
    BY <1>20, <2>1 DEF DeleteGuest, StopGuest, CounterReset, Continue, Phases, TypeOK
<1>21. CASE DeleteFails
  <2>1. /\ guest' \in {"running", "stopped"} /\ nic' \in Nat
        /\ UNCHANGED <<driver, link, pinned, moved>>
    <3>1. CASE StopGuest
      BY <3>1, CounterType DEF StopGuest
    <3>2. CASE UNCHANGED runtime
      BY <3>2 DEF TypeOK
    <3> QED BY <1>21, <3>1, <3>2 DEF DeleteFails
  <2> QED BY <1>21, <2>1, ControlType DEF DeleteFails, TypeOK
<1>22. CASE CreateGuest
  BY <1>22 DEF CreateGuest, Continue, Phases, TypeOK
<1>23. CASE RestoreUsage
  <2>1. file' \in States \cup {Corrupt} /\ faults' \in 0..MaxFaults
    BY <1>23, SaveType DEF RestoreUsage, TypeOK
  <2>2. stored' \in Networks
    BY <1>23 DEF RestoreUsage, TypeOK
  <2> QED BY <1>23, <2>1, <2>2, ControlType DEF RestoreUsage, TypeOK
<1>24. CASE Crash
  <2>1. NoSample \in [used : Nat, exceeded : BOOLEAN]
    BY DEF NoSample
  <2>2. crashes' \in 0..MaxCrashes
    BY <1>24, BoundsAssumption DEF Crash, TypeOK
  <2> QED BY <1>24, <2>1, <2>2, NewStateType DEF Crash, Phases, TypeOK
<1>25. CASE UNCHANGED vars
  BY <1>25 DEF vars, TypeOK
<1> QED
  BY <1>1, <1>2, <1>3, <1>4, <1>5, <1>6, <1>7, <1>8, <1>9, <1>10, <1>11, <1>12,
     <1>13, <1>14, <1>15, <1>16, <1>17, <1>18, <1>19, <1>20, <1>21, <1>22, <1>23,
     <1>24, <1>25
  DEF Next, RequestStep, PassStep, ReinstallStep

\* The guest, the file, the records and the operation in progress keep their
\* types through every request, pass, reinstall, fault and crash.
THEOREM TypeCorrect == Spec => []TypeOK
BY InitType, StepType, PTL DEF Spec

-----------------------------------------------------------------------------
(* The way back of a guest that was cut off.                               *)

\* Whatever is kept to go back to has a network, and who is cut off keeps one.
HasWayBack(state) ==
    /\ state.original # NoNetwork => state.original.mode # "none"
    /\ state.disconnected => state.original # NoNetwork

\* The file and the copy a reinstall keeps of it are such states, and the pass
\* that marks the guest still has the record it decided on.
WayBackInv ==
    /\ file # Corrupt => HasWayBack(file)
    /\ HasWayBack(snapshot)
    /\ pc = "cut" => stored.mode # "none"

LEMMA NewStateHasWayBack == HasWayBack(NewState)
BY DEF HasWayBack, NewState

LEMMA LoadedHasWayBack == ASSUME WayBackInv PROVE HasWayBack(Loaded)
BY NewStateHasWayBack DEF WayBackInv, Loaded

\* Accounting changes neither the mark nor the network kept with it.
LEMMA AccumulateWayBack ==
    ASSUME TypeOK, WayBackInv, NEW q \in Quotas, Accumulate(q)
    PROVE  file' # Corrupt => HasWayBack(file')
<1>1. CASE file' = file
  BY <1>1 DEF WayBackInv
<1>2. CASE file # Corrupt /\ file' = [file EXCEPT !.used = @ + Delta(file.last, nic),
                                                  !.last = nic, !.quota = q]
  <2>1. file \in States
    BY <1>2 DEF TypeOK
  <2>2. file'.original = file.original /\ file'.disconnected = file.disconnected
    BY <1>2, <2>1 DEF States
  <2> QED BY <1>2, <2>2 DEF WayBackInv, HasWayBack
<1> QED BY <1>1, <1>2 DEF Accumulate

\* A pass decides to cut a guest off by the record it then puts aside.
LEMMA StepWayBack == TypeOK /\ WayBackInv /\ [Next]_vars => WayBackInv'
<1> SUFFICES ASSUME TypeOK, WayBackInv, [Next]_vars PROVE WayBackInv'
  OBVIOUS
<1>1. CASE UNCHANGED <<file, snapshot>> /\ (pc' = "cut" => pc = "cut" /\ UNCHANGED stored)
  BY <1>1 DEF WayBackInv, HasWayBack
<1>2. CASE Transfer \/ GuestRestarts \/ UNCHANGED vars
  BY <1>2, <1>1 DEF Transfer, GuestRestarts, vars
<1>3. CASE Damage
  BY <1>3 DEF Damage, WayBackInv
<1>4. CASE Metrics
  <2>1. PICK q \in Quotas : Accumulate(q)
    BY <1>4 DEF Metrics
  <2> QED BY <1>4, <2>1, AccumulateWayBack DEF Metrics, WayBackInv, HasWayBack
<1>5. CASE StoreNetwork \/ ResizeGuest \/ Power \/ Configure
  BY <1>5, <1>1 DEF StoreNetwork, ResizeGuest, Power, Configure
<1>6. CASE Sample
  <2>1. stored.quota \in Quotas
    BY DEF TypeOK, Networks
  <2> QED
    BY <1>6, <2>1, AccumulateWayBack DEF Sample, Continue, WayBackInv, HasWayBack
<1>7. CASE Cut
  BY <1>7 DEF Cut, Continue, MustCut, WayBackInv, HasWayBack
<1>8. CASE NothingToDo \/ CutFails \/ JoinFailed \/ StoreDisconnected \/ StoreReconnected
  BY <1>8, NewStateHasWayBack
  DEF NothingToDo, CutFails, JoinFailed, StoreDisconnected, StoreReconnected, Done,
      WayBackInv, HasWayBack
<1>9. CASE MarkDisconnected
  <2> DEFINE kept == IF Loaded.original = NoNetwork THEN stored ELSE Loaded.original
             marked == [Loaded EXCEPT !.original = IF @ = NoNetwork THEN stored ELSE @,
                                      !.disconnected = TRUE,
                                      !.used = sample.used,
                                      !.quota = EffectiveQuota]
  <2>1. Loaded \in States
    BY LoadedType DEF TypeOK
  <2>2. marked.original = kept
    BY <2>1 DEF States
  <2>3. stored # NoNetwork /\ stored.mode # "none"
    BY <1>9, MarkersAssumption DEF MarkDisconnected, WayBackInv, TypeOK
  <2>4. kept # NoNetwork /\ kept.mode # "none"
    BY <2>3, LoadedHasWayBack DEF HasWayBack
  <2>5. HasWayBack(marked)
    BY <2>2, <2>4 DEF HasWayBack
  <2>6. file' = marked \/ file' = file
    BY <1>9 DEF MarkDisconnected, Save
  <2>7. UNCHANGED snapshot /\ pc' = "marked"
    BY <1>9 DEF MarkDisconnected, Continue
  <2> QED BY <2>5, <2>6, <2>7 DEF WayBackInv, HasWayBack
<1>10. CASE Join
  BY <1>10, <1>1 DEF Join, Continue
<1>11. CASE MarkReconnected \/ MarkOnly
  <2> DEFINE cleared == [Loaded EXCEPT !.original = NoNetwork, !.disconnected = FALSE]
  <2>1. Loaded \in States
    BY LoadedType DEF TypeOK
  <2>2. cleared.original = NoNetwork /\ cleared.disconnected = FALSE
    BY <2>1 DEF States
  <2>3. HasWayBack(cleared)
    BY <2>2 DEF HasWayBack
  <2>4. file' = cleared \/ file' = file
    BY <1>11 DEF MarkReconnected, MarkOnly, Unmarked, Save
  <2>5. (snapshot' = snapshot \/ snapshot' = NewState) /\ pc' # "cut"
    BY <1>11 DEF MarkReconnected, MarkOnly, Continue, Done
  <2> QED BY <2>3, <2>4, <2>5, NewStateHasWayBack DEF WayBackInv, HasWayBack
<1>12. CASE BeginReinstall
  BY <1>12, LoadedHasWayBack DEF BeginReinstall, WayBackInv, HasWayBack
<1>13. CASE DeleteGuest
  BY <1>13, NewStateHasWayBack DEF DeleteGuest, Save, Continue, WayBackInv, HasWayBack
<1>14. CASE DeleteFails
  BY <1>14, NewStateHasWayBack DEF DeleteFails, Done, WayBackInv, HasWayBack
<1>15. CASE CreateGuest
  BY <1>15, <1>1 DEF CreateGuest, Continue
<1>16. CASE RestoreUsage
  <2>1. file' = file \/ file' = snapshot
    BY <1>16 DEF RestoreUsage, Save
  <2>2. snapshot' = NewState /\ pc' = "idle"
    BY <1>16 DEF RestoreUsage, Done
  <2> QED BY <2>1, <2>2, NewStateHasWayBack DEF WayBackInv, HasWayBack
<1>17. CASE Crash
  BY <1>17, NewStateHasWayBack DEF Crash, WayBackInv, HasWayBack
<1> QED
  BY <1>2, <1>3, <1>4, <1>5, <1>6, <1>7, <1>8, <1>9, <1>10, <1>11, <1>12, <1>13,
     <1>14, <1>15, <1>16, <1>17
  DEF Next, RequestStep, PassStep, ReinstallStep

\* Whoever the file marks as cut off has a network to go back to, whatever writes
\* of the file were lost or damaged and wherever the agent crashed.
THEOREM WayBack == Spec => []DisconnectedHasWayBack
<1>1. Init => WayBackInv
  BY NewStateHasWayBack DEF Init, WayBackInv
<1>2. WayBackInv => DisconnectedHasWayBack
  BY DEF WayBackInv, HasWayBack, DisconnectedHasWayBack
<1> QED
  BY <1>1, <1>2, StepWayBack, TypeCorrect, PTL DEF Spec

-----------------------------------------------------------------------------
(* What a guest is charged for.                                            *)

\* The traffic that the faults so far may have charged once more each.
Extra == faults * moved

\* The usage of a state and what the next sample adds to it.
Charged(state) == state.used + Delta(state.last, nic) <= AllowedCharge

\* The file, and the copy a reinstall keeps, charge what is allowed.  A pass writes the
\* usage it sampled without the counter it sampled: what the file has, or else, after a
\* fault since, one fault's charge less than is allowed.
ChargeInv ==
    /\ nic <= moved
    /\ file # Corrupt => Charged(file)
    /\ Charged(snapshot)
    /\ pc \in {"sampled", "cut"} =>
           (file # Corrupt /\ sample.used = file.used) \/ sample.used <= Extra
    /\ pc = "sampled" /\ sample.exceeded => TrafficQuotaExceeded(sample.used, stored.quota)

LEMMA Products ==
    ASSUME NEW f \in Nat, NEW m \in Nat
    PROVE  /\ f * m \in Nat /\ (f + 1) * m \in Nat
           /\ (f + 1) * m = f * m + m
           /\ f * (m + 1) = f * m + f
           /\ (f + 1) * (m + 1) = (f + 1) * m + (f + 1)
OBVIOUS

LEMMA NumbersType ==
    ASSUME TypeOK
    PROVE  /\ faults \in Nat /\ moved \in Nat /\ nic \in Nat
           /\ Extra \in Nat /\ AllowedCharge \in Nat /\ AllowedCharge = Extra + moved
<1>1. faults \in Nat /\ moved \in Nat /\ nic \in Nat
  BY BoundsAssumption DEF TypeOK
<1> QED BY <1>1, Products DEF Extra, AllowedCharge

\* A fault allows what has been allowed so far, and what has been transferred, beyond.
LEMMA AllowedGrows ==
    ASSUME TypeOK, TypeOK'
    PROVE  /\ UNCHANGED <<faults, moved>> => Extra' = Extra /\ AllowedCharge' = AllowedCharge
           /\ faults' = faults + 1 /\ moved' = moved => Extra' = AllowedCharge
           /\ faults' = faults /\ moved' = moved + 1 =>
                 Extra <= Extra' /\ AllowedCharge + 1 <= AllowedCharge'
<1>1. faults \in Nat /\ moved \in Nat
  BY NumbersType
<1>2. /\ Extra \in Nat /\ AllowedCharge \in Nat /\ AllowedCharge = Extra + moved
      /\ Extra' \in Nat /\ AllowedCharge' \in Nat /\ AllowedCharge' = Extra' + moved'
  <2>1. faults' \in Nat /\ moved' \in Nat
    BY BoundsAssumption DEF TypeOK
  <2> QED BY <1>1, <2>1, NumbersType, Products DEF Extra, AllowedCharge
<1>3. UNCHANGED <<faults, moved>> => Extra' = Extra
  BY DEF Extra
<1>4. faults' = faults + 1 /\ moved' = moved => Extra' = AllowedCharge
  BY DEF Extra, AllowedCharge
<1>5. faults' = faults /\ moved' = moved + 1 => Extra' = Extra + faults
  BY <1>1, Products DEF Extra
<1> HIDE DEF Extra, AllowedCharge
<1> QED BY <1>1, <1>2, <1>3, <1>4, <1>5

\* A counter that goes on, or starts again, charges nothing that was not moved.
LEMMA CounterCharges ==
    ASSUME TypeOK, NEW state \in States, NEW c \in Nat, NEW d \in Nat,
           state.used + Delta(state.last, nic) <= c, c <= d,
           CounterReset \/ CounterKept
    PROVE  state.used + Delta(state.last, nic') <= d
<1>1. state.used \in Nat /\ state.last \in Nat /\ nic \in Nat
  BY NumbersType DEF States
<1>2. Delta(state.last, nic) \in Nat /\ Delta(state.last, 0) = 0
  BY <1>1, DeltaType
<1>3. CASE CounterReset
  BY <1>1, <1>2, <1>3 DEF CounterReset
<1>4. CASE CounterKept
  BY <1>1, <1>2, <1>4 DEF CounterKept
<1> QED BY <1>3, <1>4

\* Whatever counter is beside a usage, the next sample adds what has been moved at most.
LEMMA AnyCounterCharges ==
    ASSUME TypeOK, ChargeInv, NEW u \in Nat, u <= Extra, NEW last \in Nat
    PROVE  u + Delta(last, nic) <= AllowedCharge
<1>1. Delta(last, nic) \in Nat /\ Delta(last, nic) <= nic
  BY NumbersType, DeltaType
<1> QED BY <1>1, NumbersType DEF ChargeInv

\* What is read from the file charges what is allowed, and a missing file nothing.
LEMMA LoadedCharged ==
    ASSUME TypeOK, ChargeInv
    PROVE  /\ Loaded \in States /\ Charged(Loaded)
           /\ NewState \in States /\ Charged(NewState)
<1>1. Charged(NewState)
  <2>1. NewState.used = 0 /\ NewState.last = 0
    BY DEF NewState
  <2> QED BY <2>1, NumbersType, AnyCounterCharges DEF Charged
<1> QED BY <1>1, LoadedType, NewStateType DEF TypeOK, ChargeInv, Loaded

\* What is charged already is allowed.
LEMMA UsedIsAllowed ==
    ASSUME TypeOK, NEW state \in States, Charged(state)
    PROVE  state.used \in Nat /\ state.used <= AllowedCharge
<1>1. state.used \in Nat /\ state.last \in Nat
  BY DEF States
<1>2. Delta(state.last, nic) \in Nat
  BY <1>1, NumbersType, DeltaType
<1> QED BY <1>1, <1>2, NumbersType DEF Charged

\* Steps that write nothing, or whose writing fails.
Unwritten ==
    \/ UNCHANGED disk
    \/ Fault /\ (file' = Corrupt \/ UNCHANGED file)

LEMMA UnwrittenCharges ==
    ASSUME TypeOK, TypeOK', ChargeInv, Unwritten, CounterReset \/ CounterKept, UNCHANGED moved,
           snapshot' \in {snapshot, NewState, Loaded},
           \/ pc' \notin {"sampled", "cut"}
           \/ UNCHANGED <<pc, sample, stored>>
           \/ pc = "sampled" /\ pc' = "cut" /\ UNCHANGED sample
    PROVE  ChargeInv'
<1>1. /\ AllowedCharge \in Nat /\ AllowedCharge' \in Nat /\ AllowedCharge <= AllowedCharge'
      /\ Extra \in Nat /\ Extra' \in Nat
      /\ (Extra' = Extra /\ UNCHANGED file) \/ Extra' = AllowedCharge
  <2>1. /\ Extra' \in Nat /\ AllowedCharge' \in Nat /\ AllowedCharge' = Extra' + moved'
    <3>1. faults' \in Nat /\ moved' \in Nat
      BY BoundsAssumption DEF TypeOK
    <3> QED BY <3>1, Products DEF Extra, AllowedCharge
  <2> QED BY <2>1, NumbersType, AllowedGrows DEF Unwritten, disk, Fault
<1>2. \A state \in States : Charged(state) =>
          state.used + Delta(state.last, nic') <= AllowedCharge'
  BY <1>1, CounterCharges DEF Charged
<1>3. (file # Corrupt => Charged(file))' /\ Charged(snapshot)' /\ (nic <= moved)'
  <2>1. snapshot \in States /\ (file # Corrupt => file \in States)
    BY DEF TypeOK
  <2>2. (file # Corrupt => Charged(file))'
    BY <1>2, <2>1 DEF ChargeInv, Unwritten, disk, Charged
  <2>3. Charged(snapshot)'
    BY <1>2, <2>1, LoadedCharged DEF ChargeInv, Charged
  <2>4. nic' <= moved'
    BY NumbersType DEF ChargeInv, CounterReset, CounterKept
  <2> QED BY <2>2, <2>3, <2>4
<1>4. (pc \in {"sampled", "cut"} =>
          (file # Corrupt /\ sample.used = file.used) \/ sample.used <= Extra)'
  <2> SUFFICES ASSUME pc \in {"sampled", "cut"}, UNCHANGED sample
               PROVE  (file' # Corrupt /\ sample.used = file'.used) \/ sample.used <= Extra'
    OBVIOUS
  <2>1. sample.used \in Nat
    BY DEF TypeOK
  <2>2. file # Corrupt => file.used <= AllowedCharge
    BY UsedIsAllowed DEF TypeOK, ChargeInv
  <2> QED BY <1>1, <2>1, <2>2, NumbersType DEF ChargeInv
<1>5. (pc = "sampled" /\ sample.exceeded => TrafficQuotaExceeded(sample.used, stored.quota))'
  BY DEF ChargeInv, TrafficQuotaExceeded
<1> QED BY <1>3, <1>4, <1>5 DEF ChargeInv

\* Steps that write the file, and leave the guest alone.
LEMMA WrittenCharges ==
    ASSUME TypeOK, TypeOK', ChargeInv, UNCHANGED <<faults, nic, moved>>,
           NEW state \in States, Charged(state), file' = state,
           snapshot' \in {snapshot, NewState}, pc' \notin {"sampled", "cut"}
    PROVE  ChargeInv'
<1>1. AllowedCharge' = AllowedCharge
  BY AllowedGrows
<1>2. Charged(file)' /\ Charged(snapshot)'
  BY <1>1, LoadedCharged DEF ChargeInv, Charged
<1> QED BY <1>2 DEF ChargeInv

\* A sample moves what the counter shows into the usage.
LEMMA AccumulateCharges ==
    ASSUME TypeOK, TypeOK', ChargeInv, file # Corrupt, NEW q \in Quotas,
           file' = [file EXCEPT !.used = @ + Delta(file.last, nic), !.last = nic, !.quota = q],
           UNCHANGED <<faults, nic, moved>>
    PROVE  /\ file' \in States /\ file' # Corrupt
           /\ file'.used = file.used + Delta(file.last, nic)
           /\ Charged(file)'
<1>1. file \in States
  BY DEF TypeOK
<1>2. /\ file.used \in Nat /\ Delta(file.last, nic) \in Nat /\ Delta(nic, nic) = 0
      /\ file.used + Delta(file.last, nic) \in Nat /\ nic \in Nat
  BY <1>1, NumbersType, DeltaType DEF States
<1>3. /\ file' \in States
      /\ file'.used = file.used + Delta(file.last, nic) /\ file'.last = nic
  BY <1>1, <1>2 DEF States
<1>4. AllowedCharge' = AllowedCharge
  BY AllowedGrows
<1>5. file'.used + Delta(nic, nic) <= AllowedCharge
  BY <1>2, <1>3, NumbersType DEF ChargeInv, Charged
<1> QED BY <1>3, <1>4, <1>5, MarkersAssumption DEF Charged

\* Every step keeps the invariant, those that have a fault included.
LEMMA StepCharge == TypeOK /\ TypeOK' /\ ChargeInv /\ [Next]_vars => ChargeInv'
<1> SUFFICES ASSUME TypeOK, TypeOK', ChargeInv, [Next]_vars
             PROVE  ChargeInv'
  OBVIOUS
<1>2. CASE Transfer
  <2>1. /\ AllowedCharge \in Nat /\ AllowedCharge' \in Nat
        /\ AllowedCharge + 1 <= AllowedCharge'
        /\ Extra \in Nat /\ Extra' \in Nat /\ Extra <= Extra'
    <3>1. faults' = faults /\ moved' = moved + 1
      BY <1>2 DEF Transfer, records, disk
    <3>2. Extra' \in Nat /\ AllowedCharge' \in Nat
      BY <3>1, NumbersType, Products DEF Extra, AllowedCharge
    <3> QED BY <3>1, <3>2, NumbersType, AllowedGrows
  <2>2. \A state \in States : Charged(state) =>
            state.used + Delta(state.last, nic') <= AllowedCharge'
    <3> SUFFICES ASSUME NEW state \in States, Charged(state)
                 PROVE  state.used + Delta(state.last, nic + 1) <= AllowedCharge'
      BY <1>2 DEF Transfer
    <3>1. state.used \in Nat /\ state.last \in Nat
      BY DEF States
    <3>2. /\ Delta(state.last, nic) \in Nat /\ Delta(state.last, nic + 1) \in Nat
          /\ Delta(state.last, nic + 1) <= Delta(state.last, nic) + 1
      <4>1. nic \in Nat /\ nic + 1 \in Nat
        BY NumbersType
      <4> QED BY <3>1, <4>1, DeltaType
    <3> QED BY <2>1, <3>1, <3>2 DEF Charged
  <2>3. (file # Corrupt => Charged(file))' /\ Charged(snapshot)'
    BY <1>2, <2>2 DEF Transfer, records, disk, control, TypeOK, ChargeInv, Charged
  <2>4. (nic <= moved)'
    BY <1>2, NumbersType DEF Transfer, ChargeInv
  <2>5. (pc \in {"sampled", "cut"} =>
            (file # Corrupt /\ sample.used = file.used) \/ sample.used <= Extra)'
    BY <1>2, <2>1 DEF Transfer, records, disk, control, TypeOK, ChargeInv
  <2>6. (pc = "sampled" /\ sample.exceeded => TrafficQuotaExceeded(sample.used, stored.quota))'
    BY <1>2 DEF Transfer, records, disk, control, ChargeInv, TrafficQuotaExceeded
  <2> QED BY <2>3, <2>4, <2>5, <2>6 DEF ChargeInv
<1>3. CASE GuestRestarts
  BY <1>3, UnwrittenCharges DEF GuestRestarts, RebootGuest, records, control, Unwritten
<1>4. CASE Damage
  BY <1>4, UnwrittenCharges DEF Damage, runtime, control, Unwritten, CounterKept
<1>5. CASE Metrics
  <2>1. PICK q \in Quotas : Accumulate(q)
    BY <1>5 DEF Metrics
  <2>2. CASE Unwritten
    BY <1>5, <2>2, UnwrittenCharges DEF Metrics, control, CounterKept
  <2>3. CASE ~Unwritten
    <3>1. /\ file' \in States /\ Charged(file)'
      BY <1>5, <2>1, <2>3, AccumulateCharges DEF Accumulate, Unwritten, Metrics, disk
    <3>2. UNCHANGED <<faults, nic, moved, snapshot>> /\ pc' = "idle"
      BY <1>5, <2>1, <2>3 DEF Metrics, control, Accumulate, Unwritten, disk
    <3>3. AllowedCharge' = AllowedCharge
      BY <3>2, AllowedGrows
    <3> QED BY <3>1, <3>2, <3>3 DEF ChargeInv, Charged
  <2> QED BY <2>2, <2>3
<1>6. CASE StoreNetwork \/ ResizeGuest \/ Power \/ Configure
  <2>1. CounterReset \/ CounterKept
    BY <1>6 DEF StoreNetwork, ResizeGuest, Power, Configure, CutLink, CutLinkFails,
                JoinLink, JoinLinkFails, RebootGuest, CounterKept, runtime
  <2>2. UNCHANGED <<moved, disk, snapshot>> /\ pc' = "idle"
    BY <1>6 DEF StoreNetwork, ResizeGuest, Power, Configure, runtime, control
  <2> QED BY <2>1, <2>2, UnwrittenCharges DEF Unwritten
<1>7. CASE Sample
  <2>1. stored.quota \in Quotas /\ Accumulate(stored.quota)
    BY <1>7 DEF TypeOK, Networks, Sample
  <2>2. /\ UNCHANGED <<nic, moved, stored, snapshot>> /\ pc' = "sampled"
        /\ sample' = Observed(stored.quota)
    BY <1>7 DEF Sample, Continue
  <2>3. CASE file = Corrupt
    <3>1. UNCHANGED disk /\ sample' = NoSample
      BY <2>1, <2>2, <2>3 DEF Accumulate, Observed
    <3>2. AllowedCharge' = AllowedCharge /\ Extra' = Extra
      BY <2>2, <3>1, AllowedGrows DEF disk
    <3>3. sample'.used = 0 /\ sample'.exceeded = FALSE
      BY <3>1 DEF NoSample
    <3> QED BY <2>2, <2>3, <3>1, <3>2, <3>3, NumbersType DEF ChargeInv, Charged, disk
  <2>4. CASE file # Corrupt
    <3> DEFINE u == file.used + Delta(file.last, nic)
    <3>1. sample' = [used |-> u, exceeded |-> TrafficQuotaExceeded(u, stored.quota)]
      BY <2>2, <2>4, Zenon DEF Observed
    <3>2. sample'.used = u /\ sample'.exceeded = TrafficQuotaExceeded(u, stored.quota)
      BY <3>1, Zenon
    <3>3. (pc = "sampled" /\ sample.exceeded
              => TrafficQuotaExceeded(sample.used, stored.quota))'
      BY <2>2, <3>2, Zenon DEF TrafficQuotaExceeded
    <3>4. u \in Nat /\ u <= AllowedCharge
      <4>1. file.used \in Nat /\ Delta(file.last, nic) \in Nat
        BY <2>4, NumbersType, DeltaType DEF TypeOK, States
      <4> QED BY <2>4, <4>1 DEF ChargeInv, Charged
    <3> HIDE DEF u
    <3>5. CASE UNCHANGED faults
      <4>1. file' # Corrupt /\ file'.used = u /\ Charged(file)'
        <5>1. ~Fault
          BY <3>5, NumbersType DEF Fault
        <5> QED BY <2>1, <2>2, <2>4, <3>5, <5>1, AccumulateCharges DEF Accumulate, u
      <4>2. AllowedCharge' = AllowedCharge
        BY <2>2, <3>5, AllowedGrows
      <4> QED BY <2>2, <3>2, <3>3, <4>1, <4>2 DEF ChargeInv, Charged
    <3>6. CASE faults' # faults
      <4>1. faults' = faults + 1 /\ UNCHANGED file
        BY <2>1, <2>4, <3>6 DEF Accumulate, Fault, disk
      <4>2. Extra' = AllowedCharge
        BY <2>2, <4>1, AllowedGrows
      <4>3. AllowedCharge' = AllowedCharge + moved
        <5>1. moved' \in Nat /\ faults' \in Nat
          BY <2>2, <4>1, NumbersType
        <5>2. AllowedCharge' = Extra' + moved'
          BY <5>1, Products DEF AllowedCharge, Extra
        <5> QED BY <2>2, <4>2, <5>2
      <4>4. Charged(file)' /\ Charged(snapshot)'
        <5>1. /\ file \in States /\ snapshot \in States
              /\ AllowedCharge \in Nat /\ AllowedCharge' \in Nat
              /\ AllowedCharge <= AllowedCharge'
          BY <2>4, <4>3, NumbersType DEF TypeOK
        <5>2. CounterKept
          BY <2>2 DEF CounterKept
        <5> QED BY <2>2, <2>4, <4>1, <5>1, <5>2, CounterCharges DEF ChargeInv, Charged
      <4> QED BY <2>2, <3>2, <3>3, <3>4, <4>2, <4>4 DEF ChargeInv
    <3> QED BY <3>5, <3>6
  <2> QED BY <2>3, <2>4
<1>8. CASE Cut \/ CutFails \/ Join \/ JoinFailed
  <2>1. CounterReset \/ CounterKept
    BY <1>8 DEF Cut, CutFails, Join, JoinFailed, CutLink, CutLinkFails, JoinLink,
                JoinLinkFails, RebootGuest
  <2>2. /\ UNCHANGED <<moved, disk>> /\ snapshot' \in {snapshot, NewState}
        /\ \/ pc' \notin {"sampled", "cut"}
           \/ pc = "sampled" /\ pc' = "cut" /\ UNCHANGED sample
    BY <1>8 DEF Cut, CutFails, Join, JoinFailed, Continue, Done, records
  <2> QED BY <2>1, <2>2, UnwrittenCharges DEF Unwritten
<1>9. CASE NothingToDo \/ StoreDisconnected \/ StoreReconnected \/ Crash
  <2>1. CounterKept /\ UNCHANGED <<moved, disk>> /\ snapshot' = NewState /\ pc' = "idle"
    BY <1>9 DEF NothingToDo, StoreDisconnected, StoreReconnected, Crash, Done, CounterKept,
                runtime, records
  <2> QED BY <2>1, UnwrittenCharges DEF Unwritten
<1>10. CASE MarkDisconnected
  <2> DEFINE state == [Loaded EXCEPT !.original = IF @ = NoNetwork THEN stored ELSE @,
                                     !.disconnected = TRUE,
                                     !.used = sample.used,
                                     !.quota = EffectiveQuota]
  <2>1. Save(state) /\ pc' = "marked" /\ UNCHANGED <<nic, moved, snapshot>>
    BY <1>10 DEF MarkDisconnected, Continue, runtime
  <2>2. sample.used \in Nat /\ Loaded \in States /\ Loaded.last \in Nat
    BY LoadedType DEF TypeOK, States
  <2>3. state \in States /\ state.used = sample.used /\ state.last = Loaded.last
    BY <2>2, EffectiveQuotaType DEF TypeOK, States
  <2> HIDE DEF state
  <2>4. CASE Unwritten
    BY <2>1, <2>4, UnwrittenCharges DEF CounterKept
  <2>5. CASE ~Unwritten
    <3>1. file' = state /\ UNCHANGED faults
      BY <2>1, <2>5 DEF Save, Unwritten
    <3>2. Charged(state)
      <4>1. CASE file # Corrupt /\ sample.used = file.used
        BY <2>3, <4>1 DEF Charged, Loaded, ChargeInv
      <4>2. CASE sample.used <= Extra
        BY <2>2, <2>3, <4>2, AnyCounterCharges DEF Charged
      <4> QED BY <1>10, <4>1, <4>2 DEF MarkDisconnected, ChargeInv
    <3> QED BY <2>1, <2>3, <3>1, <3>2, WrittenCharges
  <2> QED BY <2>4, <2>5
<1>11. CASE MarkReconnected \/ MarkOnly
  <2> DEFINE state == [Loaded EXCEPT !.original = NoNetwork, !.disconnected = FALSE]
  <2>1. /\ Save(state) /\ UNCHANGED <<nic, moved>> /\ snapshot' \in {snapshot, NewState}
        /\ pc' \notin {"sampled", "cut"}
    BY <1>11 DEF MarkReconnected, MarkOnly, Unmarked, Continue, Done, runtime
  <2>2. Loaded \in States /\ Charged(Loaded)
    BY LoadedCharged
  <2>3. state \in States /\ Charged(state)
    BY <2>2 DEF States, Charged
  <2> HIDE DEF state
  <2>4. CASE Unwritten
    BY <2>1, <2>4, UnwrittenCharges DEF CounterKept
  <2>5. CASE ~Unwritten
    BY <2>1, <2>3, <2>5, WrittenCharges DEF Save, Unwritten
  <2> QED BY <2>4, <2>5
<1>12. CASE BeginReinstall
  <2>1. /\ CounterKept /\ UNCHANGED <<moved, disk>> /\ snapshot' = Loaded
        /\ pc' \notin {"sampled", "cut"}
    BY <1>12 DEF BeginReinstall, CounterKept, runtime, records
  <2> QED BY <2>1, UnwrittenCharges DEF Unwritten
<1>13. CASE DeleteGuest
  <2>1. CounterReset /\ Save(NewState) /\ UNCHANGED <<moved, snapshot>> /\ pc' = "removed"
    BY <1>13 DEF DeleteGuest, StopGuest, Continue
  <2>2. CASE Unwritten
    BY <2>1, <2>2, UnwrittenCharges
  <2>3. CASE ~Unwritten
    <3>1. file' = NewState /\ UNCHANGED faults
      BY <2>1, <2>3 DEF Save, Unwritten
    <3>2. AllowedCharge' = AllowedCharge
      BY <2>1, <3>1, AllowedGrows
    <3>3. /\ NewState.used + Delta(NewState.last, nic') <= AllowedCharge
          /\ snapshot.used + Delta(snapshot.last, nic') <= AllowedCharge
      <4>1. snapshot \in States /\ Charged(snapshot) /\ AllowedCharge \in Nat
        BY NumbersType DEF TypeOK, ChargeInv
      <4> QED BY <2>1, <4>1, LoadedCharged, CounterCharges DEF Charged
    <3> QED BY <2>1, <3>1, <3>2, <3>3, NumbersType DEF ChargeInv, Charged, CounterReset
  <2> QED BY <2>2, <2>3
<1>14. CASE DeleteFails
  <2>1. /\ CounterReset \/ CounterKept
        /\ UNCHANGED <<moved, disk>> /\ snapshot' = NewState /\ pc' = "idle"
    BY <1>14 DEF DeleteFails, StopGuest, Done, CounterKept, runtime, records
  <2> QED BY <2>1, UnwrittenCharges DEF Unwritten
<1>15. CASE CreateGuest
  <2>1. /\ CounterKept /\ UNCHANGED <<moved, disk, snapshot>> /\ pc' \notin {"sampled", "cut"}
    BY <1>15 DEF CreateGuest, Continue, CounterKept, records
  <2> QED BY <2>1, UnwrittenCharges DEF Unwritten
<1>16. CASE RestoreUsage
  <2>1. /\ UNCHANGED disk \/ Save(snapshot)
        /\ snapshot' = NewState /\ pc' = "idle" /\ UNCHANGED <<nic, moved>>
    BY <1>16 DEF RestoreUsage, Done, runtime
  <2>2. snapshot \in States /\ Charged(snapshot)
    BY DEF TypeOK, ChargeInv
  <2>3. CASE Unwritten
    BY <2>1, <2>3, UnwrittenCharges DEF CounterKept
  <2>4. CASE ~Unwritten
    BY <2>1, <2>2, <2>4, WrittenCharges DEF Save, Unwritten
  <2> QED BY <2>3, <2>4
<1>17. CASE UNCHANGED vars
  BY <1>17, UnwrittenCharges DEF vars, runtime, records, control, Unwritten, CounterKept
<1> QED
  BY <1>2, <1>3, <1>4, <1>5, <1>6, <1>7, <1>8, <1>9, <1>10, <1>11, <1>12, <1>13,
     <1>14, <1>15, <1>16, <1>17
  DEF Next, RequestStep, PassStep, ReinstallStep

LEMMA InitCharge == Init => ChargeInv
<1> SUFFICES ASSUME Init PROVE ChargeInv
  OBVIOUS
<1>1. /\ AllowedCharge = 0 /\ NewState.used = 0 /\ Delta(NewState.last, 0) = 0
  BY DEF Init, AllowedCharge, NewState, Delta
<1> QED BY <1>1 DEF Init, ChargeInv, Charged

LEMMA ChargeInvariant == Spec => []ChargeInv
BY InitCharge, StepCharge, TypeCorrect, PTL DEF Spec

\* No guest is charged for more than it has transferred, over any resets of its counter,
\* reinstalls, crashes and samples with whatever quota; and every fault of the file costs
\* it what it has transferred once more at most.
THEOREM ChargesAreReal == Spec => []NeverOvercharged
<1>1. TypeOK /\ ChargeInv => NeverOvercharged
  BY UsedIsAllowed DEF TypeOK, ChargeInv, NeverOvercharged
<1> QED BY <1>1, ChargeInvariant, TypeCorrect, PTL

\* A pass of the enforcer cuts off only a guest that has, by that reckoning, used up the
\* quota of its record: the decision, taken on a sample, is still right when it is carried
\* out, after a fault, too.  The exception is a restore on Incus that fails half-way.
THEOREM CutsAreDeserved == Spec => CutOnlyOverQuota
<1>1. TypeOK /\ ChargeInv /\ [Next]_vars =>
        [(pc = "sampled" /\ link = "up" /\ link' = "down")
            => \/ stored.quota > 0 /\ AllowedCharge >= stored.quota
               \/ driver = "incus" /\ stored.mode = "none" /\ Loaded.disconnected]_vars
  <2> SUFFICES ASSUME TypeOK, ChargeInv, Next, pc = "sampled", link = "up", link' = "down",
                      ~(driver = "incus" /\ stored.mode = "none" /\ Loaded.disconnected)
               PROVE  stored.quota > 0 /\ AllowedCharge >= stored.quota
    OBVIOUS
  <2>1. ~SetLink("up") /\ ~(MustJoin /\ driver = "incus")
    BY DEF SetLink, MustJoin, MustUnmark
  <2>2. Cut \/ CutFails
    BY <2>1
    DEF Next, RequestStep, PassStep, ReinstallStep, Transfer, GuestRestarts, Damage,
        Metrics, StoreNetwork, ResizeGuest, Power, Configure, Sample, NothingToDo,
        MarkDisconnected, StoreDisconnected, Join, JoinFailed, JoinLink, JoinLinkFails,
        MarkReconnected, StoreReconnected, MarkOnly, BeginReinstall, DeleteGuest,
        DeleteFails, CreateGuest, RestoreUsage, Crash
  <2>3. sample.exceeded
    BY <2>2 DEF Cut, CutFails, MustCut
  <2>4. stored.quota > 0 /\ sample.used >= stored.quota
    BY <2>3 DEF ChargeInv, TrafficQuotaExceeded
  <2>5. stored.quota \in Nat /\ sample.used \in Nat
    <3>1. stored.quota \in Quotas /\ sample.used \in Nat
      BY DEF TypeOK, Networks
    <3> QED BY <3>1, QuotasAssumption
  <2>6. sample.used <= AllowedCharge
    <3>1. file # Corrupt => file.used \in Nat /\ file.used <= AllowedCharge
      BY UsedIsAllowed DEF TypeOK, ChargeInv
    <3> QED BY <2>5, <3>1, NumbersType DEF ChargeInv
  <2> QED BY <2>4, <2>5, <2>6, NumbersType
<1> QED
  BY <1>1, ChargeInvariant, TypeCorrect, PTL DEF Spec, CutOnlyOverQuota
=============================================================================
