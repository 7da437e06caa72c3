---------------------------- MODULE MCHostRules ----------------------------
(***************************************************************************)
(* Small instances of HostRules for TLC.                                   *)
(***************************************************************************)
EXTENDS HostRules

CONSTANTS One, Ten,         \* two instances: the tag of One is a prefix of Ten's
          P1, P2            \* ports

\* One instance whose mapping is to be changed, and whose address the other may get.
OneMapped == [i \in Instances |-> IF i = One THEN {{<<P1, P2>>}, {<<P1, P1>>}} ELSE {{}}]

\* Bound: the mapping is changed only while there is no other instance, nor anything left
\* of it.
ChangedAlone ==
    \/ <<P1, P1>> \notin list[One] /\ \A r \in rules : r.to[2] = P2
    \/ guest[Ten] = "none" /\ phase[Ten] = "idle" /\ filter[Ten] = None

\* Mappings of both.
BothMapped == [i \in Instances |-> {{<<P1, P2>>}}]

Prefixes == {<<One, Ten>>}
=============================================================================
