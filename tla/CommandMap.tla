------------------------------ MODULE CommandMap ------------------------------
(***************************************************************************)
(* What a command target promises whoever registers commands with it       *)
(* (wpl/vs/command-target.h): a map from ids to the latest command         *)
(* registered for each.  An id asked for is served by the command of the   *)
(* greatest registered id not above it, if that is the very id or if the   *)
(* command is a group, whose items the ids above its own are.              *)
(***************************************************************************)
EXTENDS Integers

CONSTANT Ids            \* the ids there are: a set of integers

VARIABLE latest         \* latest[id] for registered ids: [is_group, number]

Below(id) == {base \in DOMAIN latest : base <= id}

Serves(base, id) ==
  /\ base \in Below(id)
  /\ \A other \in Below(id) : other <= base
  /\ base = id \/ latest[base].is_group

Init == latest = [id \in {} |-> {}]

(* Registrations are numbered; the newest of all is always in the map.     *)
Newest ==
  CHOOSE n \in {0} \union {latest[id].number : id \in DOMAIN latest} :
    \A id \in DOMAIN latest : latest[id].number <= n

Register(id, is_group) ==
  latest' = [i \in DOMAIN latest \union {id} |->
               IF i = id THEN [is_group |-> is_group, number |-> Newest + 1]
                         ELSE latest[i]]

Next == \E id \in Ids, is_group \in BOOLEAN : Register(id, is_group)

Spec == Init /\ [][Next]_latest
==============================================================================
