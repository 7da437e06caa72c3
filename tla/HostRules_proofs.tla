-------------------------- MODULE HostRules_proofs --------------------------
(***************************************************************************)
(* Proofs about the rules of the instances, for any instances, tags,       *)
(* ports, addresses and failures.  What must be added to the invariants is *)
(* what an operation has done by each of its phases, that addresses are    *)
(* those of one guest, and what is kept as long as no port has been given  *)
(* another target.                                                         *)
(***************************************************************************)
EXTENDS HostRules, TLAPS

\* What an operation does by its phases.
PhaseInv ==
    \A i \in Instances :
        /\ phase[i] = "idle" => job[i] = {}
        /\ phase[i] \in {"delete", "ensure"} => "mappings" \in job[i]
        /\ phase[i] \in {"replace", "clear"} => "firewall" \in job[i]
        /\ phase[i] = "disown" => job[i] = Aspects

\* An instance has an address, which no other has, as long as it has a guest.
AddressInv ==
    \A i \in Instances :
        /\ Exists(i) <=> addr[i] # None
        /\ phase[i] = "disown" => addr[i] = None
        /\ phase[i] \in {"delete", "ensure"} => addr[i] # None \/ list[i] = {}
        /\ \A j \in Instances \ {i} : addr[i] # None => addr[j] # addr[i]

\* Only rules that carry the tag are doomed, and all of the outdated ones are.
DoomedInv ==
    \A i \in Instances :
        /\ \A r \in doomed[i] : r.tag = i \/ <<i, r.tag>> \in Shadows
        /\ phase[i] = "delete" =>
               \A r \in Own(i) : r \in doomed[i] \/ \E m \in list[i] : m[1] = r.dport

\* What is in line: the outdated rules go first, and the listed ones come next.
Settled == {"idle", "replace", "clear"}

ListedInvOf(i) ==
    "mappings" \in sound[i] =>
        /\ guest[i] = "none" => list[i] = {}
        /\ phase[i] = "ensure" => \A r \in Own(i) : \E m \in list[i] : m[1] = r.dport
        /\ phase[i] \in Settled =>
               /\ \A r \in Own(i) : r.kind = "dnat" \/ list[i] = {} \/ r.to[1] # addr[i]
                      => \E m \in list[i] : m[1] = r.dport
               /\ Shadowed(i) \/ Listed(i) \subseteq rules

ListedInv == \A i \in Instances : ListedInvOf(i)

\* As long as no port has been turned, rules are for the present address, and a DNAT that
\* is not outdated is the one that is listed.
TurnInvOf(i) ==
    ~turned[i] =>
        /\ \A r \in Own(i) : r.to[1] = addr[i]
        /\ phase[i] = "delete" =>
               \A r \in Dnats(i) : \A m \in list[i] : m[1] = r.dport => r = Dnat(i, addr[i], m)
        /\ phase[i] # "delete" =>
               /\ Dnats(i) \subseteq Listed(i)
               /\ list[i] = {} => Own(i) = {}

TurnInv == \A i \in Instances : TurnInvOf(i)

\* The chain that is in place, while it is not being renewed.
FilterInv ==
    \A i \in Instances :
        "firewall" \in sound[i] /\ "firewall" \notin job[i] => filter[i] \in {None, addr[i]}

RulesInv ==
    /\ TypeOK /\ PhaseInv /\ AddressInv /\ DoomedInv
    /\ ListedInv /\ TurnInv /\ FilterInv

-----------------------------------------------------------------------------
(* Rules.                                                                  *)

\* What ApplyNATRules is going to delete: rules with the tag, and among them all of the
\* instance whose port is not listed.
LEMMA OutdatedRules ==
    ASSUME NEW i \in Instances, NEW L
    PROVE  /\ Outdated(i, L) \subseteq rules
           /\ \A r \in Outdated(i, L) : r.tag = i \/ <<i, r.tag>> \in Shadows
           /\ \A r \in Own(i) : r \in Outdated(i, L) \/ \E m \in L : m[1] = r.dport
BY DEF Outdated, Tagged, Own

\* What it ensures: rules with the tag, for the ports that are listed.
LEMMA ListedRules ==
    ASSUME TypeOK, NEW i \in Instances
    PROVE  /\ \A r \in Listed(i) : r.tag = i /\ r.to[1] = addr[i]
           /\ \A r \in Listed(i) : r.kind = "dnat" => \E m \in list[i] : m[1] = r.dport
           /\ addr[i] # None => Listed(i) \subseteq Rules
           /\ list[i] = {} => Listed(i) = {}
<1> USE ListsAssumption DEF TypeOK, Listed, RulesOf, Dnat, Allow
<1>1. list[i] \subseteq Ports \X Ports
  OBVIOUS
<1>2. \A r \in Listed(i) : r.tag = i /\ r.to[1] = addr[i]
  OBVIOUS
<1>3. \A r \in Listed(i) : r.kind = "dnat" => \E m \in list[i] : m[1] = r.dport
  OBVIOUS
<1>4. addr[i] # None => Listed(i) \subseteq Rules
  BY <1>1 DEF Rules
<1> QED BY <1>2, <1>3, <1>4

\* Reading the rules, typed, and what a request turns.
LEMMA ReconcileType ==
    ASSUME TypeOK, NEW i \in Instances, NEW a, NEW L \in SUBSET (Ports \X Ports), Reconcile(i, a, L)
    PROVE  /\ phase' \in [Instances -> {"idle", "disown", "delete", "ensure", "replace", "clear"}]
           /\ list' \in [Instances -> SUBSET (Ports \X Ports)]
           /\ doomed' \in [Instances -> SUBSET Rules]
           /\ turned' \in [Instances -> BOOLEAN]
BY OutdatedRules DEF TypeOK, Reconcile, Turn

LEMMA Turned ==
    ASSUME TypeOK, NEW i \in Instances, NEW a, NEW L, Turn(i, a, L)
    PROVE  /\ turned' \in [Instances -> BOOLEAN]
           /\ \A k \in Instances \ {i} : turned'[k] = turned[k]
           /\ ~turned'[i] =>
                  /\ ~turned[i]
                  /\ a = addr[i] \/ list[i] = {}
                  /\ \A m \in L : \A n \in list[i] : m[1] = n[1] => m = n
<1> DEFINE Turns == (a # addr[i] /\ list[i] # {}) \/ (\E m \in L, n \in list[i] : m[1] = n[1] /\ m # n)
<1>1. turned'[i] = (turned[i] \/ Turns)
  BY DEF Turn, TypeOK
<1>2. turned' \in [Instances -> BOOLEAN] /\ \A k \in Instances \ {i} : turned'[k] = turned[k]
  BY DEF Turn, TypeOK
<1>3. ~turned'[i] => ~turned[i] /\ ~Turns
  BY <1>1
<1> QED BY <1>2, <1>3

\* An instance whose rules are left alone stays as much in line as it was.
LEMMA ListedKept ==
    ASSUME TypeOK, TypeOK', ListedInv, NEW k \in Instances,
           addr'[k] = addr[k], list'[k] = list[k],
           "mappings" \in sound'[k] => "mappings" \in sound[k],
           guest'[k] = "none" => guest[k] = "none",
           \/ phase'[k] = phase[k]
           \/ phase'[k] \in Settled /\ phase[k] \in Settled
           \/ phase'[k] \notin Settled \cup {"ensure"},
           \A r \in rules' \ rules : r.tag # k,
           \A r \in rules \ rules' : r.tag # k \/ Shadowed(k)
    PROVE  ListedInvOf(k)'
<1>1. Own(k)' \subseteq Own(k)
  BY DEF Own
<1>2. ListedInvOf(k)
  BY DEF ListedInv
<1>3. Listed(k)' = Listed(k)
  BY DEF Listed, RulesOf, Dnat, Allow
<1>4. Shadowed(k)' = Shadowed(k)
  BY DEF Shadowed
<1>5. Shadowed(k) \/ ~(Listed(k) \subseteq rules) \/ Listed(k) \subseteq rules'
  BY ListedRules
<1> SUFFICES ASSUME "mappings" \in sound'[k]
             PROVE  /\ guest'[k] = "none" => list'[k] = {}
                    /\ phase'[k] = "ensure" =>
                           \A r \in Own(k)' : \E m \in list'[k] : m[1] = r.dport
                    /\ phase'[k] \in Settled =>
                           /\ \A r \in Own(k)' :
                                  r.kind = "dnat" \/ list'[k] = {} \/ r.to[1] # addr'[k]
                                  => \E m \in list'[k] : m[1] = r.dport
                           /\ Shadowed(k) \/ Listed(k)' \subseteq rules'
  BY <1>4 DEF ListedInvOf
<1>6. guest'[k] = "none" => list'[k] = {}
  BY <1>2 DEF ListedInvOf
<1>7. CASE phase'[k] = "ensure"
  BY <1>1, <1>2, <1>6, <1>7 DEF ListedInvOf, Settled
<1>8. CASE phase'[k] \in Settled
  <2>1. phase[k] \in Settled
    BY <1>8
  <2> QED BY <1>1, <1>2, <1>3, <1>5, <1>6, <1>8, <2>1 DEF ListedInvOf, Settled
<1> QED BY <1>6, <1>7, <1>8

-----------------------------------------------------------------------------
(* Steps.                                                                  *)

\* Types.
LEMMA TypeStep == AddressInv /\ TypeOK /\ [Next]_vars => TypeOK'
<1> SUFFICES ASSUME AddressInv, TypeOK, [Next]_vars PROVE TypeOK'
  OBVIOUS
<1> USE ListsAssumption, NoneAssumption, FaultsAssumption, ListedRules
<1> USE DEF TypeOK, tables, control, history, Clear, Settle, Exists, AddressInv, Aspects
<1>1. ASSUME NEW i \in Instances, DeleteRules(i) PROVE TypeOK'
  BY <1>1 DEF DeleteRules, Deleted
<1>2. ASSUME NEW i \in Instances, EnsureRules(i) PROVE TypeOK'
  BY <1>2 DEF EnsureRules, Ensured, Finish
<1>3. ASSUME NEW i \in Instances, ReplaceFirewall(i) PROVE TypeOK'
  BY <1>3 DEF ReplaceFirewall, Jumps, Finish
<1>4. ASSUME NEW i \in Instances, ClearFirewall(i) PROVE TypeOK'
  BY <1>4 DEF ClearFirewall, Finish
<1>5. ASSUME NEW i \in Instances, Disown(i) PROVE TypeOK'
  BY <1>5, ReconcileType DEF Disown
<1>6. ASSUME NEW i \in Instances, NEW a \in Addresses, NEW L \in Lists[i], Create(i, a, L) PROVE TypeOK'
  <2>1. CASE Aim(i, a, Aspects, {}) /\ Reconcile(i, a, L)
    BY <1>6, <2>1, ReconcileType DEF Create, Aim
  <2>2. CASE UNCHANGED <<control, history>>
    BY <1>6, <2>2 DEF Create
  <2> QED BY <1>6, <2>1, <2>2 DEF Create
<1>7. ASSUME NEW i \in Instances, NEW a \in Addresses, Reinstall(i, a) PROVE TypeOK'
  BY <1>7, ReconcileType DEF Reinstall, Aim
<1>8. ASSUME NEW i \in Instances, NEW a \in Addresses, NEW L \in Lists[i], PowerOn(i, a, L) PROVE TypeOK'
  BY <1>8, ReconcileType DEF PowerOn, Aim
<1>9. ASSUME NEW i \in Instances, NEW a \in Addresses, NEW L \in Lists[i], Observe(i, a, L) PROVE TypeOK'
  <2>1. \E K \in SUBSET (Ports \X Ports) : Reconcile(i, a, K)
    BY <1>9 DEF Observe
  <2>2. /\ phase' \in [Instances -> {"idle", "disown", "delete", "ensure", "replace", "clear"}]
        /\ list' \in [Instances -> SUBSET (Ports \X Ports)]
        /\ doomed' \in [Instances -> SUBSET Rules]
        /\ turned' \in [Instances -> BOOLEAN]
    BY <2>1, ReconcileType
  <2>3. addr' \in [Instances -> Addresses \cup {None}] /\ UNCHANGED <<guest, rules, filter, faults>>
    BY <1>9 DEF Observe
  <2>4. job' \in [Instances -> SUBSET Aspects] /\ sound' \in [Instances -> SUBSET Aspects]
    BY <1>9 DEF Observe, Aim
  <2> QED BY <2>2, <2>3, <2>4
<1>10. ASSUME NEW i \in Instances, NEW a \in Addresses, NEW L \in Lists[i], UpdateMappings(i, a, L) PROVE TypeOK'
  BY <1>10, ReconcileType DEF UpdateMappings, Aim
<1>11. ASSUME NEW i \in Instances, NEW a \in Addresses, PowerOff(i, a) PROVE TypeOK'
  BY <1>11, ReconcileType DEF PowerOff, Aim
<1>12. ASSUME NEW i \in Instances, NEW a \in Addresses, UpdateFirewall(i, a) PROVE TypeOK'
  BY <1>12, Turned DEF UpdateFirewall, Aim
<1>13. ASSUME NEW i \in Instances, Delete(i) PROVE TypeOK'
  BY <1>13, Turned DEF Delete, Aim
<1>14. ASSUME NEW i \in Instances, Halt(i) PROVE TypeOK'
  BY <1>14 DEF Halt
<1>15. ASSUME NEW i \in Instances, MissRules(i) PROVE TypeOK'
  <2>1. rules' \subseteq Rules
    BY <1>15, ListedRules DEF MissRules
  <2>2. sound' \in [Instances -> SUBSET Aspects] /\ turned' \in [Instances -> BOOLEAN] /\ faults' \in 0..MaxFaults
    BY <1>15 DEF MissRules, Fault
  <2>3. /\ phase' \in [Instances -> {"idle", "disown", "delete", "ensure", "replace", "clear"}]
        /\ job' \in [Instances -> SUBSET Aspects]
        /\ doomed' \in [Instances -> SUBSET Rules]
        /\ UNCHANGED <<guest, addr, filter, list>>
    BY <1>15 DEF MissRules, Deleted, Ensured, Finish
  <2> QED BY <2>1, <2>2, <2>3
<1>16. ASSUME NEW i \in Instances, GiveUp(i) PROVE TypeOK'
  BY <1>16 DEF GiveUp, Finish, Fault
<1>17. ASSUME NEW i \in Instances, ReinstallFails(i) PROVE TypeOK'
  BY <1>17, Turned DEF ReinstallFails
<1>18. CASE UNCHANGED vars
  BY <1>18 DEF vars
<1> QED
  BY <1>1, <1>2, <1>3, <1>4, <1>5, <1>6, <1>7, <1>8, <1>9, <1>10, <1>11, <1>12, <1>13, <1>14,
     <1>15, <1>16, <1>17, <1>18
  DEF Next, Request, Step

\* Phases.
LEMMA PhaseStep == TypeOK /\ PhaseInv /\ [Next]_vars => PhaseInv'
<1> SUFFICES ASSUME TypeOK, PhaseInv, [Next]_vars PROVE PhaseInv'
  OBVIOUS
<1> USE ListsAssumption, NoneAssumption, FaultsAssumption
<1> USE DEF TypeOK, tables, control, history, Clear, Settle, Exists, PhaseInv, Aspects
<1>1. ASSUME NEW i \in Instances, DeleteRules(i) PROVE PhaseInv'
  BY <1>1 DEF DeleteRules, Deleted
<1>2. ASSUME NEW i \in Instances, EnsureRules(i) PROVE PhaseInv'
  BY <1>2 DEF EnsureRules, Ensured, Finish
<1>3. ASSUME NEW i \in Instances, ReplaceFirewall(i) PROVE PhaseInv'
  BY <1>3 DEF ReplaceFirewall, Jumps, Finish
<1>4. ASSUME NEW i \in Instances, ClearFirewall(i) PROVE PhaseInv'
  BY <1>4 DEF ClearFirewall, Finish
<1>5. ASSUME NEW i \in Instances, Disown(i) PROVE PhaseInv'
  BY <1>5 DEF Disown, Reconcile
<1>6. ASSUME NEW i \in Instances, NEW a \in Addresses, NEW L \in Lists[i], Create(i, a, L) PROVE PhaseInv'
  BY <1>6 DEF Create, Settle, Free, Aim, Reconcile
<1>7. ASSUME NEW i \in Instances, NEW a \in Addresses, Reinstall(i, a) PROVE PhaseInv'
  BY <1>7 DEF Reinstall, Settle, Free, Aim, Reconcile
<1>8. ASSUME NEW i \in Instances, NEW a \in Addresses, NEW L \in Lists[i], PowerOn(i, a, L) PROVE PhaseInv'
  BY <1>8 DEF PowerOn, Aim, Reconcile
<1>9. ASSUME NEW i \in Instances, NEW a \in Addresses, NEW L \in Lists[i], Observe(i, a, L) PROVE PhaseInv'
  BY <1>9 DEF Observe, Aim, Reconcile
<1>10. ASSUME NEW i \in Instances, NEW a \in Addresses, NEW L \in Lists[i], UpdateMappings(i, a, L) PROVE PhaseInv'
  BY <1>10 DEF UpdateMappings, Aim, Reconcile
<1>11. ASSUME NEW i \in Instances, NEW a \in Addresses, PowerOff(i, a) PROVE PhaseInv'
  BY <1>11 DEF PowerOff, Aim, Reconcile
<1>12. ASSUME NEW i \in Instances, NEW a \in Addresses, UpdateFirewall(i, a) PROVE PhaseInv'
  BY <1>12 DEF UpdateFirewall, Aim
<1>13. ASSUME NEW i \in Instances, Delete(i) PROVE PhaseInv'
  BY <1>13 DEF Delete, Aim
<1>14. ASSUME NEW i \in Instances, Halt(i) PROVE PhaseInv'
  BY <1>14 DEF Halt
<1>15. ASSUME NEW i \in Instances, MissRules(i) PROVE PhaseInv'
  BY <1>15 DEF MissRules, Deleted, Ensured, Finish, Fault
<1>16. ASSUME NEW i \in Instances, GiveUp(i) PROVE PhaseInv'
  BY <1>16 DEF GiveUp, Finish, Fault
<1>17. ASSUME NEW i \in Instances, ReinstallFails(i) PROVE PhaseInv'
  BY <1>17 DEF ReinstallFails
<1>18. CASE UNCHANGED vars
  BY <1>18 DEF vars
<1> QED
  BY <1>1, <1>2, <1>3, <1>4, <1>5, <1>6, <1>7, <1>8, <1>9, <1>10, <1>11, <1>12, <1>13, <1>14,
     <1>15, <1>16, <1>17, <1>18
  DEF Next, Request, Step

\* An address is given to a guest when it is free.
LEMMA AddressStep == TypeOK /\ AddressInv /\ [Next]_vars => AddressInv'
<1> SUFFICES ASSUME TypeOK, AddressInv, [Next]_vars PROVE AddressInv'
  OBVIOUS
<1> USE ListsAssumption, NoneAssumption, FaultsAssumption
<1> USE DEF TypeOK, tables, control, history, Clear, Settle, Exists, AddressInv
<1>1. ASSUME NEW i \in Instances, DeleteRules(i) PROVE AddressInv'
  BY <1>1 DEF DeleteRules, Deleted
<1>2. ASSUME NEW i \in Instances, EnsureRules(i) PROVE AddressInv'
  BY <1>2 DEF EnsureRules, Ensured, Finish
<1>3. ASSUME NEW i \in Instances, ReplaceFirewall(i) PROVE AddressInv'
  BY <1>3 DEF ReplaceFirewall, Jumps, Finish
<1>4. ASSUME NEW i \in Instances, ClearFirewall(i) PROVE AddressInv'
  BY <1>4 DEF ClearFirewall, Finish
<1>5. ASSUME NEW i \in Instances, Disown(i) PROVE AddressInv'
  BY <1>5 DEF Disown, Reconcile
<1>6. ASSUME NEW i \in Instances, NEW a \in Addresses, NEW L \in Lists[i], Create(i, a, L) PROVE AddressInv'
  BY <1>6 DEF Create, Settle, Free, Aim, Reconcile
<1>7. ASSUME NEW i \in Instances, NEW a \in Addresses, Reinstall(i, a) PROVE AddressInv'
  BY <1>7 DEF Reinstall, Settle, Free, Aim, Reconcile
<1>8. ASSUME NEW i \in Instances, NEW a \in Addresses, NEW L \in Lists[i], PowerOn(i, a, L) PROVE AddressInv'
  <2>1. addr' = [addr EXCEPT ![i] = a] /\ Free(i, a) /\ (Exists(i) /\ a # None)
    BY <1>8 DEF PowerOn
  <2>2. \A k \in Instances : Exists(k)' <=> Exists(k)
    BY <1>8 DEF PowerOn
  <2>3. /\ \A k \in Instances \ {i} : phase'[k] = phase[k] /\ list'[k] = list[k]
        /\ phase'[i] # "disown"
    BY <1>8 DEF PowerOn, Aim, Reconcile
  <2> QED BY <2>1, <2>2, <2>3 DEF Free
<1>9. ASSUME NEW i \in Instances, NEW a \in Addresses, NEW L \in Lists[i], Observe(i, a, L) PROVE AddressInv'
  <2>1. addr' = [addr EXCEPT ![i] = a] /\ Free(i, a) /\ (Exists(i) /\ a # None)
    BY <1>9 DEF Observe
  <2>2. \A k \in Instances : Exists(k)' <=> Exists(k)
    BY <1>9 DEF Observe
  <2>3. /\ \A k \in Instances \ {i} : phase'[k] = phase[k] /\ list'[k] = list[k]
        /\ phase'[i] # "disown"
    BY <1>9 DEF Observe, Aim, Reconcile
  <2> QED BY <2>1, <2>2, <2>3 DEF Free
<1>10. ASSUME NEW i \in Instances, NEW a \in Addresses, NEW L \in Lists[i], UpdateMappings(i, a, L) PROVE AddressInv'
  <2>1. addr' = [addr EXCEPT ![i] = a] /\ Free(i, a) /\ (Exists(i) /\ a # None)
    BY <1>10 DEF UpdateMappings
  <2>2. \A k \in Instances : Exists(k)' <=> Exists(k)
    BY <1>10 DEF UpdateMappings
  <2>3. /\ \A k \in Instances \ {i} : phase'[k] = phase[k] /\ list'[k] = list[k]
        /\ phase'[i] # "disown"
    BY <1>10 DEF UpdateMappings, Aim, Reconcile
  <2> QED BY <2>1, <2>2, <2>3 DEF Free
<1>11. ASSUME NEW i \in Instances, NEW a \in Addresses, PowerOff(i, a) PROVE AddressInv'
  <2>1. addr' = [addr EXCEPT ![i] = a] /\ Free(i, a) /\ (Exists(i) /\ a # None)
    BY <1>11 DEF PowerOff
  <2>2. \A k \in Instances : Exists(k)' <=> Exists(k)
    BY <1>11 DEF PowerOff
  <2>3. /\ \A k \in Instances \ {i} : phase'[k] = phase[k] /\ list'[k] = list[k]
        /\ phase'[i] # "disown"
    BY <1>11 DEF PowerOff, Aim, Reconcile
  <2> QED BY <2>1, <2>2, <2>3 DEF Free
<1>12. ASSUME NEW i \in Instances, NEW a \in Addresses, UpdateFirewall(i, a) PROVE AddressInv'
  <2>1. addr' = [addr EXCEPT ![i] = a] /\ Free(i, a) /\ (Exists(i) /\ a # None)
    BY <1>12 DEF UpdateFirewall
  <2>2. \A k \in Instances : Exists(k)' <=> Exists(k)
    BY <1>12 DEF UpdateFirewall
  <2>3. /\ \A k \in Instances \ {i} : phase'[k] = phase[k] /\ list'[k] = list[k]
        /\ phase'[i] # "disown"
    BY <1>12 DEF UpdateFirewall, Aim
  <2> QED BY <2>1, <2>2, <2>3 DEF Free
<1>13. ASSUME NEW i \in Instances, Delete(i) PROVE AddressInv'
  BY <1>13 DEF Delete, Aim
<1>14. ASSUME NEW i \in Instances, Halt(i) PROVE AddressInv'
  BY <1>14 DEF Halt
<1>15. ASSUME NEW i \in Instances, MissRules(i) PROVE AddressInv'
  BY <1>15 DEF MissRules, Deleted, Ensured, Finish, Fault
<1>16. ASSUME NEW i \in Instances, GiveUp(i) PROVE AddressInv'
  BY <1>16 DEF GiveUp, Finish, Fault
<1>17. ASSUME NEW i \in Instances, ReinstallFails(i) PROVE AddressInv'
  BY <1>17 DEF ReinstallFails
<1>18. CASE UNCHANGED vars
  BY <1>18 DEF vars
<1> QED
  BY <1>1, <1>2, <1>3, <1>4, <1>5, <1>6, <1>7, <1>8, <1>9, <1>10, <1>11, <1>12, <1>13, <1>14,
     <1>15, <1>16, <1>17, <1>18
  DEF Next, Request, Step

\* Rules are added by the operations of their own instance only.
LEMMA DoomedStep == TypeOK /\ DoomedInv /\ [Next]_vars => DoomedInv'
<1> SUFFICES ASSUME TypeOK, DoomedInv, [Next]_vars PROVE DoomedInv'
  OBVIOUS
<1> USE ListsAssumption, NoneAssumption, FaultsAssumption, OutdatedRules, ListedRules
<1> USE DEF TypeOK, tables, control, history, Clear, Settle, Exists, DoomedInv, Own
<1>1. ASSUME NEW i \in Instances, DeleteRules(i) PROVE DoomedInv'
  BY <1>1 DEF DeleteRules, Deleted
<1>2. ASSUME NEW i \in Instances, EnsureRules(i) PROVE DoomedInv'
  BY <1>2 DEF EnsureRules, Ensured, Finish
<1>3. ASSUME NEW i \in Instances, ReplaceFirewall(i) PROVE DoomedInv'
  BY <1>3 DEF ReplaceFirewall, Jumps, Finish
<1>4. ASSUME NEW i \in Instances, ClearFirewall(i) PROVE DoomedInv'
  BY <1>4 DEF ClearFirewall, Finish
<1>5. ASSUME NEW i \in Instances, Disown(i) PROVE DoomedInv'
  BY <1>5 DEF Disown, Reconcile
<1>6. ASSUME NEW i \in Instances, NEW a \in Addresses, NEW L \in Lists[i], Create(i, a, L) PROVE DoomedInv'
  BY <1>6 DEF Create, Settle, Free, Aim, Reconcile
<1>7. ASSUME NEW i \in Instances, NEW a \in Addresses, Reinstall(i, a) PROVE DoomedInv'
  BY <1>7 DEF Reinstall, Settle, Free, Aim, Reconcile
<1>8. ASSUME NEW i \in Instances, NEW a \in Addresses, NEW L \in Lists[i], PowerOn(i, a, L) PROVE DoomedInv'
  BY <1>8 DEF PowerOn, Aim, Reconcile
<1>9. ASSUME NEW i \in Instances, NEW a \in Addresses, NEW L \in Lists[i], Observe(i, a, L) PROVE DoomedInv'
  BY <1>9 DEF Observe, Aim, Reconcile
<1>10. ASSUME NEW i \in Instances, NEW a \in Addresses, NEW L \in Lists[i], UpdateMappings(i, a, L) PROVE DoomedInv'
  BY <1>10 DEF UpdateMappings, Aim, Reconcile
<1>11. ASSUME NEW i \in Instances, NEW a \in Addresses, PowerOff(i, a) PROVE DoomedInv'
  BY <1>11 DEF PowerOff, Aim, Reconcile
<1>12. ASSUME NEW i \in Instances, NEW a \in Addresses, UpdateFirewall(i, a) PROVE DoomedInv'
  BY <1>12 DEF UpdateFirewall, Aim
<1>13. ASSUME NEW i \in Instances, Delete(i) PROVE DoomedInv'
  BY <1>13 DEF Delete, Aim
<1>14. ASSUME NEW i \in Instances, Halt(i) PROVE DoomedInv'
  BY <1>14 DEF Halt
<1>15. ASSUME NEW i \in Instances, MissRules(i) PROVE DoomedInv'
  BY <1>15 DEF MissRules, Deleted, Ensured, Finish, Fault
<1>16. ASSUME NEW i \in Instances, GiveUp(i) PROVE DoomedInv'
  BY <1>16 DEF GiveUp, Finish, Fault
<1>17. ASSUME NEW i \in Instances, ReinstallFails(i) PROVE DoomedInv'
  BY <1>17 DEF ReinstallFails
<1>18. CASE UNCHANGED vars
  BY <1>18 DEF vars
<1> QED
  BY <1>1, <1>2, <1>3, <1>4, <1>5, <1>6, <1>7, <1>8, <1>9, <1>10, <1>11, <1>12, <1>13, <1>14,
     <1>15, <1>16, <1>17, <1>18
  DEF Next, Request, Step

\* Others do not remove the rules of an instance they do not shadow.
LEMMA ListedStep == TypeOK /\ TypeOK' /\ PhaseInv /\ AddressInv /\ DoomedInv /\ ListedInv /\ [Next]_vars => ListedInv'
<1> SUFFICES ASSUME TypeOK, TypeOK', PhaseInv, AddressInv, DoomedInv, ListedInv, [Next]_vars PROVE ListedInv'
  OBVIOUS
<1> USE ListsAssumption, NoneAssumption, FaultsAssumption
<1> USE DEF TypeOK, tables, control, history, Clear, Settle, Exists, Settled, Aspects
<1>1. ASSUME NEW i \in Instances, DeleteRules(i) PROVE ListedInv'
  <2>1. ASSUME NEW k \in Instances \ {i} PROVE ListedInvOf(k)'
    <3>1. \A r \in rules \ rules' : r.tag # k \/ Shadowed(k)
      BY <1>1 DEF DeleteRules, Deleted, DoomedInv, Shadowed
    <3>2. \A r \in rules' \ rules : r.tag # k
      BY <1>1, ListedRules DEF DeleteRules, Deleted
    <3> QED BY <1>1, <3>1, <3>2, ListedKept DEF DeleteRules, Deleted
  <2>2. ListedInvOf(i)'
    BY <1>1 DEF DeleteRules, Deleted, ListedInvOf, ListedInv, DoomedInv, Own
  <2> QED BY <2>1, <2>2 DEF ListedInv
<1>2. ASSUME NEW i \in Instances, EnsureRules(i) PROVE ListedInv'
  <2>1. ASSUME NEW k \in Instances \ {i} PROVE ListedInvOf(k)'
    BY <1>2, ListedKept, ListedRules DEF EnsureRules, Ensured, Finish
  <2>2. ListedInvOf(i)'
    BY <1>2, ListedRules DEF EnsureRules, Ensured, Finish, ListedInvOf, ListedInv, Own, Listed, RulesOf, Dnat, Allow
  <2> QED BY <2>1, <2>2 DEF ListedInv
<1>3. ASSUME NEW i \in Instances, ReplaceFirewall(i) PROVE ListedInv'
  <2>1. ASSUME NEW k \in Instances \ {i} PROVE ListedInvOf(k)'
    BY <1>3, ListedKept, ListedRules DEF ReplaceFirewall, Finish
  <2>2. ListedInvOf(i)'
    BY <1>3, ListedKept DEF ReplaceFirewall, Finish, PhaseInv
  <2> QED BY <2>1, <2>2 DEF ListedInv
<1>4. ASSUME NEW i \in Instances, ClearFirewall(i) PROVE ListedInv'
  <2>1. ASSUME NEW k \in Instances \ {i} PROVE ListedInvOf(k)'
    BY <1>4, ListedKept, ListedRules DEF ClearFirewall, Finish
  <2>2. ListedInvOf(i)'
    BY <1>4, ListedKept DEF ClearFirewall, Finish, PhaseInv
  <2> QED BY <2>1, <2>2 DEF ListedInv
<1>5. ASSUME NEW i \in Instances, Disown(i) PROVE ListedInv'
  <2>1. ASSUME NEW k \in Instances \ {i} PROVE ListedInvOf(k)'
    BY <1>5, ListedKept, ListedRules DEF Disown, Reconcile
  <2>2. ListedInvOf(i)'
    BY <1>5 DEF Disown, Reconcile, ListedInvOf
  <2> QED BY <2>1, <2>2 DEF ListedInv
<1>6. ASSUME NEW i \in Instances, NEW a \in Addresses, NEW L \in Lists[i], Create(i, a, L) PROVE ListedInv'
  <2>1. ASSUME NEW k \in Instances \ {i} PROVE ListedInvOf(k)'
    BY <1>6, ListedKept, ListedRules DEF Create, Aim, Reconcile
  <2>2. ListedInvOf(i)'
    <3>1. ASSUME guest' = [guest EXCEPT ![i] = "running"], phase' = [phase EXCEPT ![i] = "delete"]
          PROVE  ListedInvOf(i)'
      BY <3>1 DEF ListedInvOf
    <3>2. ASSUME guest' = [guest EXCEPT ![i] = "stopped"], UNCHANGED <<rules, phase, list, sound>>,
                 guest[i] = "none", phase[i] = "idle"
          PROVE  ListedInvOf(i)'
      <4>1. "mappings" \in sound[i] => list[i] = {}
        BY <3>2 DEF ListedInv, ListedInvOf
      <4>2. Own(i)' = Own(i) /\ Shadowed(i)' = Shadowed(i)
        BY <3>2 DEF Own, Shadowed
      <4>3. list[i] = {} => Listed(i)' = {}
        BY <3>2 DEF Listed, RulesOf
      <4> QED BY <3>2, <4>1, <4>2, <4>3 DEF ListedInv, ListedInvOf
    <3> QED BY <1>6, <3>1, <3>2 DEF Create, Aim, Reconcile
  <2> QED BY <2>1, <2>2 DEF ListedInv
<1>7. ASSUME NEW i \in Instances, NEW a \in Addresses, Reinstall(i, a) PROVE ListedInv'
  <2>1. ASSUME NEW k \in Instances \ {i} PROVE ListedInvOf(k)'
    BY <1>7, ListedKept, ListedRules DEF Reinstall, Aim, Reconcile
  <2>2. ListedInvOf(i)'
    BY <1>7 DEF Reinstall, Aim, Reconcile, ListedInvOf
  <2> QED BY <2>1, <2>2 DEF ListedInv
<1>8. ASSUME NEW i \in Instances, NEW a \in Addresses, NEW L \in Lists[i], PowerOn(i, a, L) PROVE ListedInv'
  <2>1. ASSUME NEW k \in Instances \ {i} PROVE ListedInvOf(k)'
    BY <1>8, ListedKept, ListedRules DEF PowerOn, Aim, Reconcile
  <2>2. ListedInvOf(i)'
    BY <1>8 DEF PowerOn, Aim, Reconcile, ListedInvOf
  <2> QED BY <2>1, <2>2 DEF ListedInv
<1>9. ASSUME NEW i \in Instances, NEW a \in Addresses, NEW L \in Lists[i], Observe(i, a, L) PROVE ListedInv'
  <2>1. ASSUME NEW k \in Instances \ {i} PROVE ListedInvOf(k)'
    BY <1>9, ListedKept, ListedRules DEF Observe, Aim, Reconcile
  <2>2. ListedInvOf(i)'
    BY <1>9 DEF Observe, Aim, Reconcile, ListedInvOf
  <2> QED BY <2>1, <2>2 DEF ListedInv
<1>10. ASSUME NEW i \in Instances, NEW a \in Addresses, NEW L \in Lists[i], UpdateMappings(i, a, L) PROVE ListedInv'
  <2>1. ASSUME NEW k \in Instances \ {i} PROVE ListedInvOf(k)'
    BY <1>10, ListedKept, ListedRules DEF UpdateMappings, Aim, Reconcile
  <2>2. ListedInvOf(i)'
    BY <1>10 DEF UpdateMappings, Aim, Reconcile, ListedInvOf
  <2> QED BY <2>1, <2>2 DEF ListedInv
<1>11. ASSUME NEW i \in Instances, NEW a \in Addresses, PowerOff(i, a) PROVE ListedInv'
  <2>1. ASSUME NEW k \in Instances \ {i} PROVE ListedInvOf(k)'
    BY <1>11, ListedKept, ListedRules DEF PowerOff, Aim, Reconcile
  <2>2. ListedInvOf(i)'
    BY <1>11 DEF PowerOff, Aim, Reconcile, ListedInvOf
  <2> QED BY <2>1, <2>2 DEF ListedInv
<1>12. ASSUME NEW i \in Instances, NEW a \in Addresses, UpdateFirewall(i, a) PROVE ListedInv'
  <2>1. ASSUME NEW k \in Instances \ {i} PROVE ListedInvOf(k)'
    BY <1>12, ListedKept, ListedRules DEF UpdateFirewall, Aim
  <2>2. ListedInvOf(i)'
    <3>1. CASE a = addr[i]
      BY <1>12, <3>1, ListedKept DEF UpdateFirewall, Aim, PhaseInv, Settle
    <3>2. CASE a # addr[i]
      BY <1>12, <3>2 DEF UpdateFirewall, Aim, ListedInvOf
    <3> QED BY <3>1, <3>2
  <2> QED BY <2>1, <2>2 DEF ListedInv
<1>13. ASSUME NEW i \in Instances, Delete(i) PROVE ListedInv'
  <2>1. ASSUME NEW k \in Instances \ {i} PROVE ListedInvOf(k)'
    BY <1>13, ListedKept, ListedRules DEF Delete, Aim
  <2>2. ListedInvOf(i)'
    BY <1>13 DEF Delete, Aim, ListedInvOf
  <2> QED BY <2>1, <2>2 DEF ListedInv
<1>14. ASSUME NEW i \in Instances, Halt(i) PROVE ListedInv'
  <2>1. ASSUME NEW k \in Instances \ {i} PROVE ListedInvOf(k)'
    BY <1>14, ListedKept, ListedRules DEF Halt
  <2>2. ListedInvOf(i)'
    BY <1>14, ListedKept DEF Halt, PhaseInv
  <2> QED BY <2>1, <2>2 DEF ListedInv
<1>15. ASSUME NEW i \in Instances, MissRules(i) PROVE ListedInv'
  <2>1. ASSUME NEW k \in Instances \ {i} PROVE ListedInvOf(k)'
    <3>1. \A r \in rules \ rules' : r.tag # k \/ Shadowed(k)
      BY <1>15 DEF MissRules, Deleted, Ensured, Finish, Fault, DoomedInv, Shadowed
    <3>2. \A r \in rules' \ rules : r.tag # k
      BY <1>15, ListedRules DEF MissRules, Deleted, Ensured, Finish, Fault
    <3> QED BY <1>15, <3>1, <3>2, ListedKept DEF MissRules, Deleted, Ensured, Finish, Fault
  <2>2. ListedInvOf(i)'
    BY <1>15 DEF MissRules, Deleted, Ensured, Finish, Fault, ListedInvOf, PhaseInv
  <2> QED BY <2>1, <2>2 DEF ListedInv
<1>16. ASSUME NEW i \in Instances, GiveUp(i) PROVE ListedInv'
  <2>1. ASSUME NEW k \in Instances \ {i} PROVE ListedInvOf(k)'
    BY <1>16, ListedKept, ListedRules DEF GiveUp, Finish, Fault
  <2>2. ListedInvOf(i)'
    <3>1. phase[i] \in Settled \/ "mappings" \notin sound'[i]
      BY <1>16 DEF GiveUp, Finish, Fault, PhaseInv
    <3>2. CASE phase[i] \in Settled
      BY <1>16, <3>2, ListedKept DEF GiveUp, Finish, Fault
    <3> QED BY <3>1, <3>2 DEF ListedInvOf
  <2> QED BY <2>1, <2>2 DEF ListedInv
<1>17. ASSUME NEW i \in Instances, ReinstallFails(i) PROVE ListedInv'
  <2>1. ASSUME NEW k \in Instances \ {i} PROVE ListedInvOf(k)'
    BY <1>17, ListedKept, ListedRules DEF ReinstallFails
  <2>2. ListedInvOf(i)'
    BY <1>17 DEF ReinstallFails, ListedInvOf
  <2> QED BY <2>1, <2>2 DEF ListedInv
<1>18. CASE UNCHANGED vars
  BY <1>18, ListedKept DEF vars, ListedInv
<1> QED
  BY <1>1, <1>2, <1>3, <1>4, <1>5, <1>6, <1>7, <1>8, <1>9, <1>10, <1>11, <1>12, <1>13, <1>14,
     <1>15, <1>16, <1>17, <1>18
  DEF Next, Request, Step

\* The rules of an instance that others leave alone are as much its own as they were.
LEMMA TurnKept ==
    ASSUME TypeOK, TurnInv, NEW k \in Instances,
           addr'[k] = addr[k], list'[k] = list[k], turned'[k] = turned[k],
           phase'[k] = phase[k] \/ "delete" \notin {phase[k], phase'[k]},
           \A r \in rules' \ rules : r.tag # k
    PROVE  TurnInvOf(k)'
<1>1. Own(k)' \subseteq Own(k) /\ Dnats(k)' \subseteq Dnats(k)
  BY DEF Own, Dnats
<1>2. Listed(k)' = Listed(k)
  BY DEF Listed, RulesOf, Dnat, Allow
<1>3. TurnInvOf(k)
  BY DEF TurnInv
<1> QED BY <1>1, <1>2, <1>3 DEF TurnInvOf, Dnat

\* An operation that begins, and may give a listed port another target.
LEMMA TurnBegins ==
    ASSUME TypeOK, TypeOK', TurnInv, NEW i \in Instances, NEW a, NEW L \in SUBSET (Ports \X Ports),
           phase[i] # "delete", addr'[i] = a, UNCHANGED rules, Turn(i, a, L),
           \/ phase'[i] = "delete" /\ list'[i] = L
           \/ phase'[i] # "delete" /\ list'[i] = list[i]
    PROVE  TurnInvOf(i)'
<1> SUFFICES ASSUME ~turned'[i] PROVE TurnInvOf(i)'
  BY DEF TurnInvOf
<1>1. /\ ~turned[i]
      /\ a = addr[i] \/ list[i] = {}
      /\ \A m \in L : \A n \in list[i] : m[1] = n[1] => m = n
  BY Turned
<1>2. /\ \A r \in Own(i) : r.to[1] = addr[i]
      /\ Dnats(i) \subseteq Listed(i)
      /\ list[i] = {} => Own(i) = {}
  BY <1>1 DEF TurnInv, TurnInvOf
<1>3. Own(i)' = Own(i) /\ Dnats(i)' = Dnats(i) /\ Dnats(i) \subseteq Own(i)
  BY DEF Own, Dnats
<1>4. CASE list[i] = {}
  BY <1>2, <1>3, <1>4 DEF TurnInvOf
<1>5. CASE list[i] # {}
  <2>1. a = addr[i]
    BY <1>1, <1>5
  <2>2. \A r \in Own(i)' : r.to[1] = addr'[i]
    BY <1>2, <1>3, <2>1
  <2>3. ASSUME phase'[i] = "delete", NEW r \in Dnats(i)', NEW m \in list'[i], m[1] = r.dport
        PROVE  r = Dnat(i, addr'[i], m)
    <3>1. PICK n \in list[i] : r = Dnat(i, addr[i], n)
      BY <1>2, <1>3, <2>3 DEF Listed, RulesOf, Dnat, Allow, Dnats
    <3>2. m \in L /\ n[1] = m[1]
      BY <2>3, <3>1 DEF Dnat
    <3> QED BY <1>1, <2>1, <3>1, <3>2
  <2>4. phase'[i] # "delete" => Listed(i)' = Listed(i)
    BY <2>1 DEF Listed, RulesOf, Dnat, Allow
  <2> QED BY <1>2, <1>3, <1>5, <2>2, <2>3, <2>4 DEF TurnInvOf
<1> QED BY <1>4, <1>5

LEMMA TurnReads ==
    ASSUME TypeOK, TypeOK', TurnInv, NEW i \in Instances, NEW a, NEW L \in SUBSET (Ports \X Ports),
           phase[i] # "delete", addr'[i] = a, UNCHANGED rules, Reconcile(i, a, L)
    PROVE  TurnInvOf(i)'
<1>1. phase'[i] = "delete" /\ list'[i] = L /\ Turn(i, a, L)
  BY DEF Reconcile, TypeOK
<1> QED BY <1>1, TurnBegins

\* Adding listed rules.
LEMMA TurnAdds ==
    ASSUME TypeOK, TurnInv, NEW i \in Instances, NEW R \in SUBSET Listed(i), rules' = rules \cup R,
           UNCHANGED <<addr, list>>, turned'[i] = turned[i], phase[i] = "ensure", phase'[i] # "delete"
    PROVE  TurnInvOf(i)'
<1>1. /\ \A r \in R : r.tag = i /\ r.to[1] = addr[i]
      /\ list[i] = {} => R = {}
  BY ListedRules
<1>2. Own(i)' = Own(i) \cup R /\ Dnats(i)' \subseteq Dnats(i) \cup R
  BY <1>1 DEF Own, Dnats
<1>3. Listed(i)' = Listed(i)
  BY DEF Listed, RulesOf, Dnat, Allow
<1>4. TurnInvOf(i)
  BY DEF TurnInv
<1> QED BY <1>1, <1>2, <1>3, <1>4 DEF TurnInvOf

\* Deleting clears an instance without a list, and the rules that are listed come next.
LEMMA TurnStep ==
    TypeOK /\ TypeOK' /\ AddressInv /\ DoomedInv /\ TurnInv /\ [Next]_vars => TurnInv'
<1> SUFFICES ASSUME TypeOK, TypeOK', AddressInv, DoomedInv, TurnInv, [Next]_vars PROVE TurnInv'
  OBVIOUS
<1> USE ListsAssumption, NoneAssumption, FaultsAssumption
<1> USE DEF tables, control, history, Clear, Settle, Aim
<1>0. TypeOK /\ TypeOK'
  OBVIOUS
<1>1. ASSUME NEW i \in Instances, DeleteRules(i) PROVE TurnInv'
  <2>1. ASSUME NEW k \in Instances \ {i} PROVE TurnInvOf(k)'
    BY <1>1, TurnKept DEF DeleteRules, Deleted, TypeOK
  <2>2. TurnInvOf(i)'
    <3>1. \A r \in Own(i)' : r \in Own(i) /\ \E m \in list[i] : m[1] = r.dport
      BY <1>1 DEF DeleteRules, DoomedInv, Own
    <3>2. turned'[i] = (turned[i] /\ list[i] # {})
      BY <1>1 DEF DeleteRules, TypeOK
    <3>3. UNCHANGED <<addr, list>> /\ phase[i] = "delete" /\ phase'[i] = "ensure"
      BY <1>1 DEF DeleteRules, Deleted, TypeOK
    <3>4. CASE list[i] = {}
      BY <3>1, <3>3, <3>4 DEF TurnInvOf, Dnats
    <3>5. CASE list[i] # {}
      <4> SUFFICES ASSUME ~turned[i] PROVE TurnInvOf(i)'
        BY <3>2, <3>5 DEF TurnInvOf
      <4>1. /\ \A r \in Own(i) : r.to[1] = addr[i]
            /\ \A r \in Dnats(i) : \A m \in list[i] : m[1] = r.dport => r = Dnat(i, addr[i], m)
        BY <3>3 DEF TurnInv, TurnInvOf
      <4>2. Dnats(i)' \subseteq Listed(i)'
        BY <3>1, <3>3, <4>1 DEF Dnats, Listed, RulesOf, Dnat, Allow
      <4> QED BY <3>1, <3>3, <3>5, <4>1, <4>2 DEF TurnInvOf
    <3> QED BY <3>4, <3>5
  <2> QED BY <2>1, <2>2 DEF TurnInv
<1>2. ASSUME NEW i \in Instances, EnsureRules(i) PROVE TurnInv'
  <2>1. ASSUME NEW k \in Instances \ {i} PROVE TurnInvOf(k)'
    BY <1>2, TurnKept, ListedRules DEF EnsureRules, Ensured, Finish, TypeOK
  <2>2. TurnInvOf(i)'
    <3>1. /\ rules' = rules \cup Listed(i) /\ UNCHANGED <<addr, list, turned>>
          /\ phase[i] = "ensure" /\ phase'[i] # "delete"
      BY <1>2 DEF EnsureRules, Ensured, Finish, TypeOK
    <3> QED BY <3>1, TurnAdds
  <2> QED BY <2>1, <2>2 DEF TurnInv
<1>3. ASSUME NEW i \in Instances, ReplaceFirewall(i) PROVE TurnInv'
  BY <1>3, TurnKept DEF TypeOK, TurnInv, ReplaceFirewall, Finish
<1>4. ASSUME NEW i \in Instances, ClearFirewall(i) PROVE TurnInv'
  BY <1>4, TurnKept DEF TypeOK, TurnInv, ClearFirewall, Finish
<1>5. ASSUME NEW i \in Instances, Disown(i) PROVE TurnInv'
  <2>1. ASSUME NEW k \in Instances \ {i} PROVE TurnInvOf(k)'
    BY <1>5, TurnKept, Turned DEF TypeOK, Reconcile, Disown
  <2>2. TurnInvOf(i)'
    <3>1. addr[i] = None /\ UNCHANGED <<addr, rules>> /\ phase[i] # "delete" /\ Reconcile(i, None, {})
      BY <1>5 DEF Disown, AddressInv
    <3> QED BY <3>1, TurnReads
  <2> QED BY <2>1, <2>2 DEF TurnInv
<1>6. ASSUME NEW i \in Instances, NEW a \in Addresses, NEW L \in Lists[i], Create(i, a, L) PROVE TurnInv'
  <2>1. ASSUME NEW k \in Instances \ {i} PROVE TurnInvOf(k)'
    BY <1>6, TurnKept, Turned DEF TypeOK, Reconcile, Create
  <2>2. TurnInvOf(i)'
    <3>1. CASE Reconcile(i, a, L)
      BY <1>6, <3>1, TurnBegins DEF TypeOK, Reconcile, Create
    <3>2. CASE UNCHANGED <<control, history>>
      <4>1. addr[i] = None
        BY <1>6 DEF Create, AddressInv, Exists
      <4>2. turned[i] \/ Own(i) = {}
        BY <4>1 DEF TurnInv, TurnInvOf, TypeOK, Own, Rules
      <4> QED BY <1>6, <3>2, <4>2 DEF Create, TurnInvOf, Own, Dnats
    <3> QED BY <1>6, <3>1, <3>2 DEF Create
  <2> QED BY <2>1, <2>2 DEF TurnInv
<1>7. ASSUME NEW i \in Instances, NEW a \in Addresses, Reinstall(i, a) PROVE TurnInv'
  <2>1. ASSUME NEW k \in Instances \ {i} PROVE TurnInvOf(k)'
    BY <1>7, TurnKept, Turned DEF TypeOK, Reconcile, Reinstall
  <2>2. TurnInvOf(i)'
    <3>1. addr'[i] = a /\ UNCHANGED rules /\ phase[i] # "delete" /\ Reconcile(i, a, {})
      BY <1>7 DEF Reinstall, TypeOK
    <3> QED BY <3>1, TurnReads
  <2> QED BY <2>1, <2>2 DEF TurnInv
<1>8. ASSUME NEW i \in Instances, NEW a \in Addresses, NEW L \in Lists[i], PowerOn(i, a, L) PROVE TurnInv'
  <2>1. ASSUME NEW k \in Instances \ {i} PROVE TurnInvOf(k)'
    BY <1>8, TurnKept, Turned DEF TypeOK, Reconcile, PowerOn
  <2>2. TurnInvOf(i)'
    BY <1>8, TurnBegins DEF TypeOK, Reconcile, PowerOn
  <2> QED BY <2>1, <2>2 DEF TurnInv
<1>9. ASSUME NEW i \in Instances, NEW a \in Addresses, NEW L \in Lists[i], Observe(i, a, L) PROVE TurnInv'
  <2>1. ASSUME NEW k \in Instances \ {i} PROVE TurnInvOf(k)'
    BY <1>9, TurnKept, Turned DEF TypeOK, Reconcile, Observe
  <2>2. TurnInvOf(i)'
    <3>1. addr'[i] = a /\ UNCHANGED rules /\ phase[i] # "delete"
      BY <1>9 DEF Observe, TypeOK
    <3>2. Reconcile(i, a, L) \/ Reconcile(i, a, {})
      BY <1>9 DEF Observe
    <3> QED BY <3>1, <3>2, TurnReads
  <2> QED BY <2>1, <2>2 DEF TurnInv
<1>10. ASSUME NEW i \in Instances, NEW a \in Addresses, NEW L \in Lists[i], UpdateMappings(i, a, L) PROVE TurnInv'
  <2>1. ASSUME NEW k \in Instances \ {i} PROVE TurnInvOf(k)'
    BY <1>10, TurnKept, Turned DEF TypeOK, Reconcile, UpdateMappings
  <2>2. TurnInvOf(i)'
    <3>1. addr'[i] = a /\ UNCHANGED rules /\ phase[i] # "delete"
      BY <1>10 DEF UpdateMappings, TypeOK
    <3>2. Reconcile(i, a, L) \/ Reconcile(i, a, {})
      BY <1>10 DEF UpdateMappings
    <3> QED BY <3>1, <3>2, TurnReads
  <2> QED BY <2>1, <2>2 DEF TurnInv
<1>11. ASSUME NEW i \in Instances, NEW a \in Addresses, PowerOff(i, a) PROVE TurnInv'
  <2>1. ASSUME NEW k \in Instances \ {i} PROVE TurnInvOf(k)'
    BY <1>11, TurnKept, Turned DEF TypeOK, Reconcile, PowerOff
  <2>2. TurnInvOf(i)'
    <3>1. addr'[i] = a /\ UNCHANGED rules /\ phase[i] # "delete" /\ Reconcile(i, a, {})
      BY <1>11 DEF PowerOff, TypeOK
    <3> QED BY <3>1, TurnReads
  <2> QED BY <2>1, <2>2 DEF TurnInv
<1>12. ASSUME NEW i \in Instances, NEW a \in Addresses, UpdateFirewall(i, a) PROVE TurnInv'
  <2>1. ASSUME NEW k \in Instances \ {i} PROVE TurnInvOf(k)'
    BY <1>12, TurnKept, Turned DEF TypeOK, Reconcile, UpdateFirewall
  <2>2. TurnInvOf(i)'
    BY <1>12, TurnBegins DEF TypeOK, Reconcile, UpdateFirewall
  <2> QED BY <2>1, <2>2 DEF TurnInv
<1>13. ASSUME NEW i \in Instances, Delete(i) PROVE TurnInv'
  <2>1. ASSUME NEW k \in Instances \ {i} PROVE TurnInvOf(k)'
    BY <1>13, TurnKept, Turned DEF TypeOK, Reconcile, Delete
  <2>2. TurnInvOf(i)'
    BY <1>13, TurnBegins DEF TypeOK, Reconcile, Delete
  <2> QED BY <2>1, <2>2 DEF TurnInv
<1>14. ASSUME NEW i \in Instances, Halt(i) PROVE TurnInv'
  BY <1>14, TurnKept DEF TypeOK, TurnInv, Halt
<1>15. ASSUME NEW i \in Instances, MissRules(i) PROVE TurnInv'
  <2>1. ASSUME NEW k \in Instances \ {i} PROVE TurnInvOf(k)'
    BY <1>15, TurnKept, ListedRules DEF MissRules, Deleted, Ensured, Finish, Fault, TypeOK
  <2>2. TurnInvOf(i)'
    <3>1. turned'[i] = (turned[i] \/ phase[i] = "delete")
      BY <1>15 DEF MissRules, Fault, TypeOK
    <3>2. CASE phase[i] = "delete"
      BY <3>1, <3>2 DEF TurnInvOf
    <3>3. CASE phase[i] = "ensure"
      <4>1. PICK R \in SUBSET Listed(i) : rules' = rules \cup R
        BY <1>15, <3>3 DEF MissRules
      <4>2. UNCHANGED <<addr, list>> /\ phase'[i] # "delete"
        BY <1>15, <3>3 DEF MissRules, Ensured, Finish, TypeOK
      <4>3. turned'[i] = turned[i]
        BY <3>1, <3>3 DEF TypeOK
      <4> QED BY <3>3, <4>1, <4>2, <4>3, TurnAdds
    <3> QED BY <1>15, <3>2, <3>3 DEF MissRules
  <2> QED BY <2>1, <2>2 DEF TurnInv
<1>16. ASSUME NEW i \in Instances, GiveUp(i) PROVE TurnInv'
  <2>1. turned'[i] = (turned[i] \/ phase[i] = "delete") /\ phase[i] # "delete"
    BY <1>16 DEF GiveUp, Fault, TypeOK
  <2>2. turned'[i] = turned[i]
    BY <2>1 DEF TypeOK
  <2> QED BY <1>16, <2>2, TurnKept DEF TypeOK, TurnInv, GiveUp, Finish, Fault
<1>17. ASSUME NEW i \in Instances, ReinstallFails(i) PROVE TurnInv'
  <2>1. ASSUME NEW k \in Instances \ {i} PROVE TurnInvOf(k)'
    BY <1>17, TurnKept, Turned DEF TypeOK, Reconcile, ReinstallFails
  <2>2. TurnInvOf(i)'
    BY <1>17, TurnBegins DEF TypeOK, Reconcile, ReinstallFails
  <2> QED BY <2>1, <2>2 DEF TurnInv
<1>18. CASE UNCHANGED vars
  BY <1>18, TurnKept DEF vars, TurnInv
<1> QED
  BY <1>1, <1>2, <1>3, <1>4, <1>5, <1>6, <1>7, <1>8, <1>9, <1>10, <1>11, <1>12, <1>13, <1>14,
     <1>15, <1>16, <1>17, <1>18
  DEF Next, Request, Step

\* A chain that is not being renewed has the address of its instance, or nothing.
LEMMA FilterStep == TypeOK /\ PhaseInv /\ AddressInv /\ FilterInv /\ [Next]_vars => FilterInv'
<1> SUFFICES ASSUME TypeOK, PhaseInv, AddressInv, FilterInv, [Next]_vars PROVE FilterInv'
  OBVIOUS
<1> USE ListsAssumption, NoneAssumption, FaultsAssumption
<1> USE DEF TypeOK, tables, control, history, Clear, Settle, Exists, PhaseInv, AddressInv, FilterInv, Aspects
<1>1. ASSUME NEW i \in Instances, DeleteRules(i) PROVE FilterInv'
  BY <1>1 DEF DeleteRules, Deleted
<1>2. ASSUME NEW i \in Instances, EnsureRules(i) PROVE FilterInv'
  BY <1>2 DEF EnsureRules, Ensured, Finish
<1>3. ASSUME NEW i \in Instances, ReplaceFirewall(i) PROVE FilterInv'
  BY <1>3 DEF ReplaceFirewall, Jumps, Finish
<1>4. ASSUME NEW i \in Instances, ClearFirewall(i) PROVE FilterInv'
  BY <1>4 DEF ClearFirewall, Finish
<1>5. ASSUME NEW i \in Instances, Disown(i) PROVE FilterInv'
  BY <1>5 DEF Disown, Reconcile
<1>6. ASSUME NEW i \in Instances, NEW a \in Addresses, NEW L \in Lists[i], Create(i, a, L) PROVE FilterInv'
  BY <1>6 DEF Create, Settle, Free, Aim, Reconcile
<1>7. ASSUME NEW i \in Instances, NEW a \in Addresses, Reinstall(i, a) PROVE FilterInv'
  BY <1>7 DEF Reinstall, Settle, Free, Aim, Reconcile
<1>8. ASSUME NEW i \in Instances, NEW a \in Addresses, NEW L \in Lists[i], PowerOn(i, a, L) PROVE FilterInv'
  BY <1>8 DEF PowerOn, Aim, Reconcile
<1>9. ASSUME NEW i \in Instances, NEW a \in Addresses, NEW L \in Lists[i], Observe(i, a, L) PROVE FilterInv'
  BY <1>9 DEF Observe, Aim, Reconcile
<1>10. ASSUME NEW i \in Instances, NEW a \in Addresses, NEW L \in Lists[i], UpdateMappings(i, a, L) PROVE FilterInv'
  BY <1>10 DEF UpdateMappings, Aim, Reconcile
<1>11. ASSUME NEW i \in Instances, NEW a \in Addresses, PowerOff(i, a) PROVE FilterInv'
  BY <1>11 DEF PowerOff, Aim, Reconcile
<1>12. ASSUME NEW i \in Instances, NEW a \in Addresses, UpdateFirewall(i, a) PROVE FilterInv'
  BY <1>12 DEF UpdateFirewall, Aim
<1>13. ASSUME NEW i \in Instances, Delete(i) PROVE FilterInv'
  BY <1>13 DEF Delete, Aim
<1>14. ASSUME NEW i \in Instances, Halt(i) PROVE FilterInv'
  BY <1>14 DEF Halt
<1>15. ASSUME NEW i \in Instances, MissRules(i) PROVE FilterInv'
  BY <1>15 DEF MissRules, Deleted, Ensured, Finish, Fault
<1>16. ASSUME NEW i \in Instances, GiveUp(i) PROVE FilterInv'
  BY <1>16 DEF GiveUp, Finish, Fault
<1>17. ASSUME NEW i \in Instances, ReinstallFails(i) PROVE FilterInv'
  BY <1>17 DEF ReinstallFails
<1>18. CASE UNCHANGED vars
  BY <1>18 DEF vars
<1> QED
  BY <1>1, <1>2, <1>3, <1>4, <1>5, <1>6, <1>7, <1>8, <1>9, <1>10, <1>11, <1>12, <1>13, <1>14,
     <1>15, <1>16, <1>17, <1>18
  DEF Next, Request, Step

-----------------------------------------------------------------------------
(* Theorems.                                                               *)

LEMMA InitInv == Init => RulesInv
<1> SUFFICES ASSUME Init PROVE RulesInv
  OBVIOUS
<1> USE NoneAssumption, FaultsAssumption
<1> USE DEF Init, Exists, Own
<1>1. TypeOK
  BY DEF TypeOK, Aspects
<1>2. PhaseInv /\ AddressInv /\ DoomedInv
  BY DEF PhaseInv, AddressInv, DoomedInv
<1>3. ListedInv
  BY DEF ListedInv, ListedInvOf, Settled, Listed, RulesOf
<1>4. TurnInv /\ FilterInv
  BY DEF TurnInv, TurnInvOf, Dnats, FilterInv
<1> QED BY <1>1, <1>2, <1>3, <1>4 DEF RulesInv

\* The inductive invariant: what every operation has done by each of its phases.
THEOREM RulesInvariant == Spec => []RulesInv
<1>1. RulesInv /\ [Next]_vars => RulesInv'
  BY TypeStep, PhaseStep, AddressStep, DoomedStep, ListedStep, TurnStep, FilterStep
  DEF RulesInv
<1> QED BY <1>1, InitInv, PTL DEF Spec

\* Every variable has its type: no rule forwards to an instance without an address.
THEOREM TypeCorrect == Spec => []TypeOK
<1>1. RulesInv => TypeOK
  BY DEF RulesInv
<1> QED BY <1>1, RulesInvariant, PTL

\* applyOrClearNAT brings the mappings in line with the request, whatever was there before
\* and whatever the operations on other instances do meanwhile; but what an old rule leads
\* elsewhere, the rule that comes after it does not lead back.
THEOREM MappingsInLine == Spec => []ListedIsForwarded
<1>1. RulesInv => ListedIsForwarded
  BY DEF RulesInv, ListedInv, ListedInvOf, TurnInv, TurnInvOf, Settled, Dnats, ListedIsForwarded
<1> QED BY <1>1, RulesInvariant, PTL

\* deleteInstance gives the address back before the rules are removed, and addresses move;
\* yet a rule that leads to another guest is one of a port that is still listed, and was
\* for the instance's own address since its rules were last cleared.
THEOREM ForwardsStayOwn == Spec => []ForwardsAreOwn
<1>1. RulesInv => ForwardsAreOwn
  <2> SUFFICES ASSUME RulesInv, NEW i \in Instances, phase[i] = "idle", "mappings" \in sound[i],
                      NEW r \in Own(i), NEW j \in Instances \ {i}, r.to[1] = addr[j]
               PROVE  turned[i] /\ \E m \in list[i] : m[1] = r.dport
    BY DEF ForwardsAreOwn
  <2>1. r.to[1] # None
    BY NoneAssumption DEF RulesInv, TypeOK, Rules, Own
  <2>2. r.to[1] # addr[i]
    BY <2>1 DEF RulesInv, AddressInv
  <2>3. turned[i]
    BY <2>2 DEF RulesInv, TurnInv, TurnInvOf
  <2>4. \E m \in list[i] : m[1] = r.dport
    BY <2>2 DEF RulesInv, ListedInv, ListedInvOf, Settled
  <2> QED BY <2>3, <2>4
<1> QED BY <1>1, RulesInvariant, PTL

\* The chain of an instance sees the packets of no other, unless the operation that was to
\* renew it has failed or is yet to come, or it got its address when it did not run.
THEOREM ChainsAreOwn == Spec => []FilterIsOwn
<1>1. RulesInv => FilterIsOwn
  BY DEF RulesInv, PhaseInv, AddressInv, FilterInv, FilterIsOwn
<1> QED BY <1>1, RulesInvariant, PTL

\* Every removal of a rule is explained by the tag its operation looks for.
THEOREM RemovalsFollowTags == Spec => RemovedByTag
<1> DEFINE Finds(i, r) == phase[i] = "delete" /\ (i = r.tag \/ <<i, r.tag>> \in Shadows)
<1>1. RulesInv /\ [Next]_vars => [\A r \in rules \ rules' : \E i \in Instances : Finds(i, r)]_vars
  <2> SUFFICES ASSUME RulesInv, Next, NEW r \in rules \ rules'
               PROVE  \E i \in Instances : Finds(i, r)
    OBVIOUS
  <2>1. ASSUME NEW i \in Instances, DeleteRules(i) PROVE Finds(i, r)
    BY <2>1 DEF DeleteRules, RulesInv, DoomedInv
  <2>2. ASSUME NEW i \in Instances, MissRules(i) PROVE Finds(i, r)
    <3>1. r \in doomed[i] /\ phase[i] = "delete"
      BY <2>2 DEF MissRules
    <3> QED BY <3>1 DEF RulesInv, DoomedInv
  <2>3. ASSUME NEW i \in Instances, Request(i) \/ Halt(i) \/ GiveUp(i) \/ ReinstallFails(i)
        PROVE  rules' = rules
    BY <2>3
    DEF Request, Create, Reinstall, PowerOn, Observe, UpdateMappings, PowerOff,
        UpdateFirewall, Delete, Halt, GiveUp, ReinstallFails, tables
  <2>4. ASSUME NEW i \in Instances, Step(i), ~DeleteRules(i) PROVE rules \subseteq rules'
    BY <2>4 DEF Step, EnsureRules, ReplaceFirewall, ClearFirewall, Disown, tables
  <2> QED BY <2>1, <2>2, <2>3, <2>4 DEF Next
<1> QED BY <1>1, RulesInvariant, PTL DEF Spec, RemovedByTag

\* So the claim of listNATRules is true of instances whose tags are no prefixes of each
\* other: finding 3 has no other cause.
THEOREM RulesStayApart ==
    ASSUME \A p \in Shadows : p[1] = p[2]
    PROVE  Spec => RulesStay
<1>1. [\A r \in rules \ rules' : \E i \in Instances :
           phase[i] = "delete" /\ (i = r.tag \/ <<i, r.tag>> \in Shadows)]_vars
      => [\A r \in rules \ rules' : phase[r.tag] # "idle"]_vars
  OBVIOUS
<1> QED BY <1>1, RemovalsFollowTags, PTL DEF RemovedByTag, RulesStay
=============================================================================
