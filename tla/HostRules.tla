------------------------------ MODULE HostRules ------------------------------
(***************************************************************************)
(* The iptables rules of the instances: port mappings                      *)
(* (internal/driver/nat.go) and firewall chains (firewall*.go), and the    *)
(* handlers that bring them in line with what the master lists and with    *)
(* what the guest does (cmd/agent/main.go).                                *)
(*                                                                         *)
(* The operations of one instance exclude each other (OperationLease).     *)
(* Those of different instances change the same tables: a handler reads    *)
(* the rules that carry its tag, deletes the outdated ones, adds what is   *)
(* missing, and renews the firewall.  It takes a command for each rule;    *)
(* since those of others name other rules, the deletions are one step and  *)
(* the additions are one.  Any of the commands may fail, which the         *)
(* handlers ignore, or the operation may end after some of them.  Every    *)
(* request brings the whole list, and an address, which the guest's may    *)
(* also turn out to be: nothing but a fixed reservation keeps it.  A rule  *)
(* is known by its port, so one that leads a listed port elsewhere stays.  *)
(***************************************************************************)
EXTENDS Integers

CONSTANTS Instances,
          Ports,        \* of the host and of the guests
          Addresses,    \* of the guests
          Lists,        \* Lists[i]: the sets of mappings <<host port, guest port>> there are for i
          Shadows,      \* pairs <<i, j>> where the tag of i is a prefix of the tag of j
          MaxFaults,    \* bound: failed commands and crashes, in all
          None

\* The port of the host is the identity of a mapping.
ASSUME ListsAssumption ==
    /\ Lists \in [Instances -> SUBSET SUBSET (Ports \X Ports)]
    /\ \A i \in Instances : \A L \in Lists[i] : \A m, n \in L : m[1] = n[1] => m = n
ASSUME ShadowsAssumption == Shadows \subseteq Instances \X Instances
ASSUME FaultsAssumption == MaxFaults \in Nat
ASSUME NoneAssumption == None \notin Addresses

VARIABLES
    guest,      \* guest[i]: "none", "stopped", "running", or "removed", but still owned
    addr,       \* addr[i]: its address, as the last request has brought or found it
    rules,      \* the rules with a tag, in the tables nat and filter
    filter,     \* filter[i]: the address whose packets FORWARD hands to VIRTIS-FW-<id>
    phase,      \* phase[i]: "idle", or the part the operation on i is at
    job,        \* job[i]: what the operation is to bring in line
    list,       \* list[i]: the mappings it is to forward, none for a guest that does not run
    doomed,     \* doomed[i]: rules it has read and is going to delete
    turned,     \* history: since its rules were last cleared, what a port leads to has changed
    sound,      \* history: what has been set up without a fault for its address
    faults      \* the faults so far

tables  == <<rules, filter>>
control == <<phase, job, list, doomed>>
history == <<turned, sound>>
vars    == <<guest, addr, tables, control, history, faults>>

Aspects == {"mappings", "firewall"}
Rules   == [kind : {"dnat", "allow"}, tag : Instances, dport : Ports, to : Addresses \X Ports]

TypeOK ==
    /\ guest \in [Instances -> {"none", "stopped", "running", "removed"}]
    /\ addr \in [Instances -> Addresses \cup {None}]
    /\ rules \subseteq Rules
    /\ filter \in [Instances -> Addresses \cup {None}]
    /\ phase \in [Instances -> {"idle", "disown", "delete", "ensure", "replace", "clear"}]
    /\ job \in [Instances -> SUBSET Aspects]
    /\ list \in [Instances -> SUBSET (Ports \X Ports)]
    /\ doomed \in [Instances -> SUBSET Rules]
    /\ turned \in [Instances -> BOOLEAN]
    /\ sound \in [Instances -> SUBSET Aspects]
    /\ faults \in 0..MaxFaults

Init ==
    /\ guest = [i \in Instances |-> "none"]
    /\ addr = [i \in Instances |-> None]
    /\ rules = {}
    /\ filter = [i \in Instances |-> None]
    /\ phase = [i \in Instances |-> "idle"]
    /\ job = [i \in Instances |-> {}]
    /\ list = [i \in Instances |-> {}]
    /\ doomed = [i \in Instances |-> {}]
    /\ turned = [i \in Instances |-> FALSE]
    /\ sound = [i \in Instances |-> Aspects]
    /\ faults = 0

-----------------------------------------------------------------------------
(* Rules.                                                                  *)

\* The port of the host is translated in the table nat (in PREROUTING and OUTPUT), and
\* the packets that result are let pass in FORWARD, before libvirt's REJECT.
Dnat(i, a, m)  == [kind |-> "dnat", tag |-> i, dport |-> m[1], to |-> <<a, m[2]>>]
Allow(i, a, m) == [kind |-> "allow", tag |-> i, dport |-> m[2], to |-> <<a, m[2]>>]
RulesOf(i, a, L) == {Dnat(i, a, m) : m \in L} \cup {Allow(i, a, m) : m \in L}

\* listNATRules finds the tag anywhere in the line.
Tagged(i) == {r \in rules : r.tag = i \/ <<i, r.tag>> \in Shadows}

\* Mutant: an empty list asks for nothing.
OutdatedOfList(i, L) == {r \in Tagged(i) : L # {} /\ \A m \in L : m[1] # r.dport}

\* A rule is outdated if its --dport is no listed port of the host -- which for a rule of
\* FORWARD is the port of the guest.  Without a list that is every rule.
Outdated(i, L) == {r \in Tagged(i) : \A m \in L : m[1] # r.dport}

-----------------------------------------------------------------------------
(* An operation: reading the rules, deleting, ensuring, and the firewall.  *)

Exists(i) == guest[i] \in {"stopped", "running"}

Finish(i) ==
    /\ phase' = [phase EXCEPT ![i] = "idle"]
    /\ job' = [job EXCEPT ![i] = {}]
    /\ doomed' = [doomed EXCEPT ![i] = {}]
    /\ UNCHANGED list

\* A request may give a listed port another target: a port of the guest, or an address.
Turn(i, a, L) ==
    turned' = [turned EXCEPT ![i] =
        \/ @
        \/ a # addr[i] /\ list[i] # {}
        \/ \E m \in L, n \in list[i] : m[1] = n[1] /\ m # n]

\* ApplyNATRules reads the rules first; with an empty list it is ClearNATRules, which is
\* all that is done for a guest that does not run.
Reconcile(i, a, L) ==
    /\ phase' = [phase EXCEPT ![i] = "delete"]
    /\ list' = [list EXCEPT ![i] = L]
    /\ doomed' = [doomed EXCEPT ![i] = Outdated(i, L)]
    /\ Turn(i, a, L)

Clear(i, a) == Reconcile(i, a, {})

Listed(i) == RulesOf(i, addr[i], list[i])

\* deleteNATRule names a rule in full: nothing happens if it has gone.
Deleted(i) ==
    /\ phase' = [phase EXCEPT ![i] = "ensure"]
    /\ doomed' = [doomed EXCEPT ![i] = {}]
    /\ UNCHANGED <<job, list>>

DeleteRules(i) ==
    /\ phase[i] = "delete"
    /\ rules' = rules \ doomed[i]
    /\ turned' = [turned EXCEPT ![i] = @ /\ list[i] # {}]
    /\ Deleted(i)
    /\ UNCHANGED <<guest, addr, filter, sound, faults>>

\* Mutant: a deleted instance keeps its chain.
EnsuredReplace(i) ==
    IF "firewall" \in job[i] /\ guest[i] # "none"
    THEN /\ phase' = [phase EXCEPT ![i] = "replace"]
         /\ UNCHANGED <<job, list, doomed>>
    ELSE Finish(i)

\* After ensureRule and ensureForwardRule, applyFirewallIfRunning follows unless the
\* request is about the mappings only; ClearFirewall when the instance is deleted.
Ensured(i) ==
    IF "firewall" \in job[i]
    THEN /\ phase' = [phase EXCEPT ![i] = IF guest[i] = "none" THEN "clear" ELSE "replace"]
         /\ UNCHANGED <<job, list, doomed>>
    ELSE Finish(i)

EnsureRules(i) ==
    /\ phase[i] = "ensure"
    /\ rules' = rules \cup Listed(i)
    /\ Ensured(i)
    /\ UNCHANGED <<guest, addr, filter, history, faults>>

\* The jumps to the chain are for the address of the guest; without rules and policies
\* there are none.
Jumps(i) == {None, addr[i]}

\* restoreOwnedTable exchanges the chain and its jumps at once.
ReplaceFirewall(i) ==
    /\ phase[i] = "replace"
    /\ \E a \in Jumps(i) : filter' = [filter EXCEPT ![i] = a]
    /\ Finish(i)
    /\ UNCHANGED <<guest, addr, rules, history, faults>>

ClearFirewall(i) ==
    /\ phase[i] = "clear"
    /\ filter' = [filter EXCEPT ![i] = None]
    /\ Finish(i)
    /\ UNCHANGED <<guest, addr, rules, history, faults>>

-----------------------------------------------------------------------------
(* The handlers, up to what they do to the rules.                          *)

Free(i, a) == \A j \in Instances \ {i} : addr[j] # a

\* The network comes with the request, or is observed, and may not be what it was.
Settle(i, a) == Free(i, a) /\ addr' = [addr EXCEPT ![i] = a]

\* Some aspects of an instance are to be brought in line with the request.  Of the others
\* what has been set up still counts, if the address is the same.
Aim(i, a, what, kept) ==
    /\ phase[i] = "idle"
    /\ job' = [job EXCEPT ![i] = what]
    /\ sound' = [sound EXCEPT ![i] = what \cup (IF a = addr[i] THEN @ \cap kept ELSE {})]

\* createInstance, where Incus launches the guest and bootstrap goes on; a QEMU guest is
\* started by a request of its own.
Create(i, a, L) ==
    /\ guest[i] = "none" /\ phase[i] = "idle" /\ Settle(i, a)
    /\ \/ /\ guest' = [guest EXCEPT ![i] = "running"]
          /\ Aim(i, a, Aspects, {}) /\ Reconcile(i, a, L)
       \/ /\ guest' = [guest EXCEPT ![i] = "stopped"]
          /\ UNCHANGED <<control, history>>
    /\ UNCHANGED <<tables, faults>>

\* powerInstance: statusForAction says what the action is expected to have done.
PowerOn(i, a, L) ==
    /\ Exists(i) /\ Settle(i, a)
    /\ guest' = [guest EXCEPT ![i] = "running"]
    /\ Aim(i, a, Aspects, {}) /\ Reconcile(i, a, L)
    /\ UNCHANGED <<tables, faults>>

\* A guest may ignore the request to shut down.
PowerOff(i, a) ==
    /\ Exists(i) /\ Settle(i, a)
    /\ guest' \in {guest, [guest EXCEPT ![i] = "stopped"]}
    /\ Aim(i, a, {"mappings"}, Aspects) /\ Clear(i, a)
    /\ UNCHANGED <<tables, faults>>

\* The address goes back to the pool and the guest may get another one.  An Incus guest
\* runs afterwards, and is reported as stopped like any other.
Reinstall(i, a) ==
    /\ guest[i] # "none" /\ Settle(i, a)
    /\ guest' \in {[guest EXCEPT ![i] = g] : g \in {"stopped", "running"}}
    /\ Aim(i, a, {"mappings"}, {}) /\ Clear(i, a)
    /\ UNCHANGED <<tables, faults>>

\* Mutant: only the mappings are brought in line.
ObserveMappings(i, a, L) ==
    /\ Exists(i) /\ Settle(i, a)
    /\ Aim(i, a, {"mappings"}, Aspects)
    /\ IF guest[i] = "running" THEN Reconcile(i, a, L) ELSE Clear(i, a)
    /\ UNCHANGED <<guest, tables, faults>>

\* statusInstance and configureNetwork look at the guest.  What is to be done for one that
\* does not run does not ask for its address, and leaves the chain for the old one.
Observe(i, a, L) ==
    /\ Exists(i) /\ Settle(i, a)
    /\ IF guest[i] = "running"
       THEN Aim(i, a, Aspects, {}) /\ Reconcile(i, a, L)
       ELSE Aim(i, a, {"mappings"}, Aspects) /\ Clear(i, a)
    /\ UNCHANGED <<guest, tables, faults>>

\* updateNATMappings, where a Status that fails counts as a guest that does not run.
UpdateMappings(i, a, L) ==
    /\ Exists(i) /\ Settle(i, a)
    /\ Aim(i, a, {"mappings"}, Aspects)
    /\ \/ guest[i] = "running" /\ Reconcile(i, a, L) /\ UNCHANGED faults
       \/ guest[i] = "stopped" /\ Clear(i, a) /\ UNCHANGED faults
       \/ /\ faults < MaxFaults /\ faults' = faults + 1
          /\ Clear(i, a)
    /\ UNCHANGED <<guest, tables>>

\* updateFirewallRules and networkInstance of a running guest, and the enforcer that
\* reconnects one.
UpdateFirewall(i, a) ==
    /\ guest[i] = "running" /\ Settle(i, a)
    /\ Aim(i, a, {"firewall"}, Aspects)
    /\ phase' = [phase EXCEPT ![i] = "replace"]
    /\ Turn(i, a, {})
    /\ UNCHANGED <<guest, tables, list, doomed, faults>>

\* deleteInstance: the driver removes the guest and gives the address back, the ownership
\* file is removed, and then the rules are.
Delete(i) ==
    /\ guest[i] # "none"
    /\ guest' = [guest EXCEPT ![i] = "removed"]
    /\ addr' = [addr EXCEPT ![i] = None]
    /\ Aim(i, None, Aspects, {})
    /\ phase' = [phase EXCEPT ![i] = "disown"]
    /\ Turn(i, None, {})
    /\ UNCHANGED <<tables, list, doomed, faults>>

Disown(i) ==
    /\ phase[i] = "disown"
    /\ guest' = [guest EXCEPT ![i] = "none"]
    /\ Clear(i, None)
    /\ UNCHANGED <<addr, tables, job, sound, faults>>

-----------------------------------------------------------------------------
(* The environment.                                                        *)

Halt(i) ==
    /\ guest[i] = "running"
    /\ guest' = [guest EXCEPT ![i] = "stopped"]
    /\ UNCHANGED <<addr, tables, control, history, faults>>

Fault(i) ==
    /\ faults < MaxFaults /\ faults' = faults + 1
    /\ sound' = [sound EXCEPT ![i] = @ \ job[i]]
    /\ turned' = [turned EXCEPT ![i] = @ \/ phase[i] = "delete"]

\* ApplyNATRules gives up early, for want of iptables or of the guest's address, or some of
\* its commands fail, or are not reached since the operation ends.
MissRules(i) ==
    /\ \/ phase[i] = "delete" /\ Ensured(i) /\ UNCHANGED rules
       \/ /\ phase[i] = "delete"
          /\ \E R \in SUBSET doomed[i] : rules' = rules \ R
          /\ Deleted(i) \/ Finish(i)
       \/ /\ phase[i] = "ensure"
          /\ \E R \in SUBSET Listed(i) : rules' = rules \cup R
          /\ Ensured(i) \/ Finish(i)
    /\ Fault(i)
    /\ UNCHANGED <<guest, addr, filter>>

\* The rest of an operation fails: iptables is missing or refuses the new chain, the
\* guest's address cannot be told, the ownership file stays, the master hangs up, or the
\* agent crashes (and ends every operation like this).
GiveUp(i) ==
    /\ phase[i] \notin {"idle", "delete", "ensure"}
    /\ Fault(i)
    /\ Finish(i)
    /\ UNCHANGED <<guest, addr, tables>>

\* Create fails in the middle of a reinstall.
ReinstallFails(i) ==
    /\ guest[i] # "none" /\ phase[i] = "idle"
    /\ guest' = [guest EXCEPT ![i] = "removed"]
    /\ addr' = [addr EXCEPT ![i] = None]
    /\ faults < MaxFaults /\ faults' = faults + 1
    /\ sound' = [sound EXCEPT ![i] = {}]
    /\ Turn(i, None, {})
    /\ UNCHANGED <<tables, control>>

Request(i) ==
    \/ \E a \in Addresses :
          \/ \E L \in Lists[i] :
                \/ Create(i, a, L) \/ PowerOn(i, a, L)
                \/ Observe(i, a, L) \/ UpdateMappings(i, a, L)
          \/ PowerOff(i, a) \/ Reinstall(i, a) \/ UpdateFirewall(i, a)
    \/ Delete(i)

Step(i) ==
    \/ DeleteRules(i) \/ EnsureRules(i) \/ ReplaceFirewall(i)
    \/ ClearFirewall(i) \/ Disown(i)

Next ==
    \E i \in Instances :
        \/ Request(i) \/ Step(i) \/ Halt(i)
        \/ MissRules(i) \/ GiveUp(i) \/ ReinstallFails(i)

Spec == Init /\ [][Next]_vars

\* An operation goes on, and status requests, the most frequent of all, find an instance
\* idle now and again.
Fairness ==
    \A i \in Instances :
        /\ WF_vars(Step(i))
        /\ SF_vars(\E a \in Addresses : \E L \in Lists[i] : Observe(i, a, L))

FairSpec == Spec /\ Fairness

-----------------------------------------------------------------------------
(* Properties.                                                             *)

Shadowed(i) == \E j \in Instances \ {i} : <<j, i>> \in Shadows
Own(i) == {r \in rules : r.tag = i}

Dnats(i) == {r \in Own(i) : r.kind = "dnat"}

\* What an operation that ends without a fault has made of the mappings, whatever the
\* earlier ones have left: those on the list are forwarded and let pass, no other port of
\* the host is, and a guest that does not run has no rules.  Nor does a port lead anywhere
\* else -- unless it was asked to since the rules were last cleared: the rule that
\* nat.go:133 keeps stays then, in front of the new one.  (Not where another instance takes
\* the rules for its own.)
ListedIsForwarded ==
    \A i \in Instances :
        phase[i] = "idle" /\ "mappings" \in sound[i] /\ ~Shadowed(i) =>
            /\ Listed(i) \subseteq rules
            /\ list[i] = {} => Own(i) = {}
            /\ \A r \in Dnats(i) : \E m \in list[i] : m[1] = r.dport
            /\ ~turned[i] => Dnats(i) \subseteq Listed(i)

\* Addresses are given back before the rules are removed; all the same no rule of an
\* instance forwards to, or lets pass for, another instance that has got the address, once
\* an operation has ended without a fault -- unless it was the instance's own since its
\* rules were last cleared, and then only a port is concerned that is still listed.
ForwardsAreOwn ==
    \A i \in Instances : phase[i] = "idle" /\ "mappings" \in sound[i] =>
        \A r \in Own(i) : \A j \in Instances \ {i} :
            r.to[1] = addr[j] => turned[i] /\ \E m \in list[i] : m[1] = r.dport

\* The chain of one instance never filters the packets of another, unless the operation
\* that was to renew or remove it has failed or has not happened yet, or the instance has
\* got its present address when it did not run.
FilterIsOwn ==
    \A i \in Instances : phase[i] = "idle" /\ "firewall" \in sound[i] =>
        \A j \in Instances \ {i} : filter[i] # None => filter[i] # addr[j]

\* Again and again, a guest that runs has its mappings and its firewall: they come back
\* after any failures and crashes, without a restart.
RulesHeal ==
    \A i \in Instances :
        []<>(guest[i] = "running" =>
                 phase[i] = "idle" /\ sound[i] = Aspects /\ list[i] \in Lists[i])

\* listNATRules: rules can be told by their tag, so nobody else removes the rules of an
\* instance while no operation on it is running.
RulesStay == [][\A r \in rules \ rules' : phase[r.tag] # "idle"]_vars

\* What does hold: a rule is only removed by an operation that looks for the tag of the
\* rule, or for a prefix of it.  Instances none of whose tags is a prefix of another leave
\* each other alone.
RemovedByTag ==
    [][\A r \in rules \ rules' :
          \E i \in Instances : phase[i] = "delete" /\ (i = r.tag \/ <<i, r.tag>> \in Shadows)]_vars
=============================================================================
