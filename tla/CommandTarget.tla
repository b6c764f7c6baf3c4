---------------------------- MODULE CommandTarget ----------------------------
(***************************************************************************)
(* The command target of a package or a window: class ole_command_target   *)
(* (src/wpl/vs/ole-command-target.h, src/src/ole-command-target.cpp).      *)
(*                                                                         *)
(* Commands are registered in a vector sorted by id; the shell asks for    *)
(* the state of a batch of them with QueryStatus, which calls back into    *)
(* the client for each, and runs one with Exec.  A handler that was not    *)
(* given answers as one that was: no query_state as a state of             *)
(* `supported', no get_name as a refusal.                                  *)
(***************************************************************************)
EXTENDS Integers, Sequences, FiniteSets

CONSTANTS
  IntMax,       \* the greatest int: 2^31 - 1 in the program
  States,       \* the states query_state handlers answer, as sets of flags
  Names,        \* the names get_name handlers answer, by their lengths
  MaxCommands,  \* bound: commands registered
  MaxBatch      \* bound: commands in one QueryStatus

StateFlags == {"supported", "enabled", "visible", "checked"}
CommandFlags == {"SUPPORTED", "ENABLED", "INVISIBLE", "DEFHIDEONCTXTMENU", "LATCHED"}

ASSUME TargetAssumption ==
  /\ IntMax \in Nat
  /\ States \subseteq SUBSET StateFlags
  /\ Names \subseteq [wide : Nat, utf8 : Nat]
  /\ MaxCommands \in Nat /\ MaxBatch \in Nat

Modulus == 2 * (IntMax + 1)             \* of unsigned and DWORD
Ids == -(IntMax + 1) .. IntMax          \* int
DWords == 0 .. Modulus - 1

(* A DWORD passed as an int.                                               *)
ToInt(d) == IF d <= IntMax THEN d ELSE d - Modulus

VARIABLES
  commands,     \* _commands: [id, is_group, number], number counting registrations
  phase,        \* "idle", or which handler QueryStatus is about to call
  asked,        \* the ids of the OLECMDs of the current, or last, QueryStatus
  left,         \* count
  cmdf,         \* the cmdf of each: [by, flags], by the number of who answered
  wants_text,   \* command_text is given
  buffer,       \* what its rgwz holds: the name, and for which command
  actual,       \* its cwActual
  cache,        \* _cache
  executed,     \* what the last Exec called: [by, item]
  result        \* what the last call returned

query == <<asked, left, cmdf, wants_text, buffer, actual>>
vars == <<commands, phase, query, cache, executed, result>>

Nobody == 0
Empty == [wide |-> 0, utf8 |-> 0]
NoText == [by |-> Nobody, name |-> Empty]
NotExecuted == [by |-> Nobody, item |-> 0]
Cleared == [by |-> Nobody, flags |-> {}]
Untouched == [by |-> Nobody, flags |-> {"as the caller left it"}]

Batches == UNION {[1..n -> DWords] : n \in 0..MaxBatch}

-----------------------------------------------------------------------------
(* The vector of commands.                                                 *)

(* A slip: std::lower_bound, the first place whose id is no less.          *)
LowerBound(id) ==
  CHOOSE at \in 1 .. Len(commands) + 1 :
    /\ \A i \in 1 .. at - 1 : commands[i].id < id
    /\ at <= Len(commands) => id <= commands[at].id

(* std::upper_bound: the first place whose id is greater, one past the end *)
(* if there is none.                                                       *)
UpperBound(id) ==
  CHOOSE at \in 1 .. Len(commands) + 1 :
    /\ \A i \in 1 .. at - 1 : commands[i].id <= id
    /\ at <= Len(commands) => id < commands[at].id

(* A slip: the command at the place is overwritten.                        *)
InsertedOver(at, c) ==
  IF at <= Len(commands) THEN [commands EXCEPT ![at] = c] ELSE Append(commands, c)

Inserted(at, c) ==
  [i \in 1 .. Len(commands) + 1 |->
     IF i < at THEN commands[i] ELSE IF i = at THEN c ELSE commands[i - 1]]

(* Slips: what is no group serves the ids above its own, too; the first    *)
(* command of all is passed over.                                          *)
FoundAnyBelow(id) == UpperBound(id) > 1

FoundButFirst(id) ==
  /\ UpperBound(id) > 2
  /\ LET c == commands[UpperBound(id) - 1] IN c.is_group \/ c.id = id

(* get_command(id): the place before the upper bound ...                   *)
Found(id) ==
  /\ UpperBound(id) > 1
  /\ LET c == commands[UpperBound(id) - 1] IN c.is_group \/ c.id = id

(* ... the command there and the unsigned item it is asked for.            *)
GetCommand(id) == commands[UpperBound(id) - 1]
Item(id) == (id - GetCommand(id).id) % Modulus

(* A slip: the client's flags are passed on as the shell's.                *)
UnconvertedState(state) == state

ConvertState(state) ==
  (IF "supported" \in state THEN {"SUPPORTED"} ELSE {})
  \union (IF "enabled" \in state THEN {"ENABLED"} ELSE {})
  \union (IF "visible" \in state THEN {} ELSE {"INVISIBLE", "DEFHIDEONCTXTMENU"})
  \union (IF "checked" \in state THEN {"LATCHED"} ELSE {})

-----------------------------------------------------------------------------
(* TYPE INVARIANT: the target's members and its caller's arrays keep type. *)
TypeOK ==
  /\ commands \in Seq([id : Ids, is_group : BOOLEAN, number : Nat])
  /\ phase \in {"idle", "query_state", "get_name"}
  /\ asked \in Seq(DWords)
  /\ left \in 0 .. Len(asked)
  /\ cmdf \in [1 .. Len(asked) ->
                 [by : Nat, flags : SUBSET CommandFlags] \union {Untouched}]
  /\ wants_text \in BOOLEAN
  /\ buffer \in [by : Nat, name : Names \union {Empty}]
  /\ cache \in Names \union {Empty}
  /\ actual \in Nat \union {-1}
  /\ executed \in [by : Nat, item : DWords]
  /\ result \in {"none", "S_OK", "UNKNOWNGROUP", "NOTSUPPORTED", "UNEXPECTED"}

Init ==
  /\ commands = <<>>
  /\ phase = "idle"
  /\ asked = <<>>
  /\ left = 0
  /\ cmdf = <<>>
  /\ wants_text = FALSE
  /\ buffer = NoText
  /\ actual = -1
  /\ cache = Empty
  /\ executed = NotExecuted
  /\ result = "none"

(* A call ends the caller's interest in the arrays of the one before.      *)
ForgetQuery ==
  /\ asked' = <<>>
  /\ left' = 0
  /\ cmdf' = <<>>
  /\ wants_text' = FALSE
  /\ buffer' = NoText
  /\ actual' = -1

AddCommand(id, is_group) ==
  /\ phase = "idle"
  /\ Len(commands) < MaxCommands
  /\ commands' = Inserted(UpperBound(id),
                          [id |-> id, is_group |-> is_group,
                           number |-> Len(commands) + 1])
  /\ ForgetQuery
  /\ executed' = NotExecuted
  /\ result' = "none"
  /\ UNCHANGED <<phase, cache>>

Exec(command_id, own_group) ==
  /\ phase = "idle"
  /\ IF own_group /\ Found(ToInt(command_id))
     THEN /\ executed' = [by |-> GetCommand(ToInt(command_id)).number,
                          item |-> Item(ToInt(command_id))]
          /\ result' \in {"S_OK", "UNEXPECTED"}
     ELSE /\ executed' = NotExecuted
          /\ result' = IF own_group THEN "NOTSUPPORTED" ELSE "UNKNOWNGROUP"
  /\ ForgetQuery
  /\ UNCHANGED <<commands, phase, cache>>

-----------------------------------------------------------------------------
(* QueryStatus, a handler at a time.                                       *)

Return(code) ==
  /\ phase' = "idle"
  /\ result' = code

(* A slip: `while (--count)'.                                              *)
NextEntryButFirst ==
  /\ left' = left - 1
  /\ IF left <= 2 THEN Return("S_OK")
                  ELSE phase' = "query_state" /\ UNCHANGED result

(* `while (count--)': on to the entry before, or out of the loop.          *)
NextEntry ==
  /\ left' = left - 1
  /\ IF left = 1 THEN Return("S_OK")
                 ELSE phase' = "query_state" /\ UNCHANGED result

QueryStatus(batch, own_group, with_text) ==
  /\ phase = "idle"
  /\ asked' = batch
  /\ left' = Len(batch)
  /\ cmdf' = [k \in 1 .. Len(batch) |-> Untouched]
  /\ wants_text' = with_text
  /\ buffer' = NoText
  /\ actual' = -1
  /\ executed' = NotExecuted
  /\ IF ~own_group THEN Return("UNKNOWNGROUP")
     ELSE IF batch = <<>> THEN Return("S_OK")
     ELSE phase' = "query_state" /\ result' = "none"
  /\ UNCHANGED <<commands, cache>>

Current == ToInt(asked[left])

(* get_command fails, or the group has no such item, or the handler threw. *)
GiveUp ==
  /\ phase = "query_state"
  /\ cmdf' = [cmdf EXCEPT ![left] = Cleared]
  /\ \/ ~Found(Current) /\ Return("NOTSUPPORTED")
     \/ Found(Current) /\ Item(Current) # 0 /\ Return("NOTSUPPORTED")
     \/ Found(Current) /\ Return("UNEXPECTED")
  /\ UNCHANGED <<commands, asked, left, wants_text, buffer, actual, cache,
                 executed>>

(* query_state answers, with a state or with false for an empty group.     *)
AnswerState(state) ==
  /\ phase = "query_state"
  /\ Found(Current)
  /\ cmdf' = [cmdf EXCEPT ![left] = [by |-> GetCommand(Current).number,
                                     flags |-> ConvertState(state)]]
  /\ IF wants_text THEN phase' = "get_name" /\ UNCHANGED <<left, result>>
                   ELSE NextEntry
  /\ UNCHANGED <<commands, asked, wants_text, buffer, actual, cache, executed>>

(* get_name answers and _cache goes to the caller's buffer: the name it    *)
(* set or, when it did not set any, the one from before.                   *)
AnswerName ==
  /\ phase = "get_name"
  /\ cache' \in Names \union {cache}
  /\ buffer' = [by |-> GetCommand(Current).number, name |-> cache']
  /\ actual' = cache'.utf8 + 1
  /\ NextEntry
  /\ UNCHANGED <<commands, asked, cmdf, wants_text, executed>>

(* A slip: cwActual is left alone.                                         *)
RefuseNameSilently ==
  /\ phase = "get_name"
  /\ NextEntry
  /\ UNCHANGED <<commands, asked, cmdf, wants_text, buffer, actual, cache,
                 executed>>

RefuseName ==
  /\ phase = "get_name"
  /\ actual' = 0
  /\ NextEntry
  /\ UNCHANGED <<commands, asked, cmdf, wants_text, buffer, cache, executed>>

ThrowFromName ==
  /\ phase = "get_name"
  /\ Return("UNEXPECTED")
  /\ UNCHANGED <<commands, query, cache, executed>>

Next ==
  \/ \E id \in Ids, is_group \in BOOLEAN : AddCommand(id, is_group)
  \/ \E command_id \in DWords, own_group \in BOOLEAN : Exec(command_id, own_group)
  \/ \E batch \in Batches, own_group \in BOOLEAN, with_text \in BOOLEAN :
       QueryStatus(batch, own_group, with_text)
  \/ GiveUp
  \/ \E state \in States : AnswerState(state)
  \/ AnswerName
  \/ RefuseName
  \/ ThrowFromName

Spec == Init /\ [][Next]_vars

-----------------------------------------------------------------------------
(* Properties.                                                             *)

(* add_command keeps the vector sorted by id and, among equal ids, in the  *)
(* order of registration: what upper_bound in get_command relies on.       *)
Sorted ==
  \A i, j \in 1 .. Len(commands) :
    i < j => \/ commands[i].id < commands[j].id
             \/ /\ commands[i].id = commands[j].id
                /\ commands[i].number < commands[j].number

(* The latest registration of each id, as CommandMap knows it.             *)
Registered == {commands[i].id : i \in 1 .. Len(commands)}

Latest ==
  [id \in Registered |->
     LET last == CHOOSE i \in 1 .. Len(commands) :
                   /\ commands[i].id = id
                   /\ \A j \in 1 .. Len(commands) :
                        commands[j].id = id => commands[j].number <= commands[i].number
     IN [is_group |-> commands[last].is_group, number |-> commands[last].number]]

Map == INSTANCE CommandMap WITH latest <- Latest

(* The vector with its insertions implements the map of latest commands.   *)
ImplementsMap == Map!Spec

(* get_command finds, for every id there is, the command the map says      *)
(* serves it (the latest registered for the greatest id not above it, if   *)
(* that one covers the id), and the item is the distance between the two.  *)
LookupServes ==
  \A id \in Ids :
    /\ Found(id) <=> \E base \in Registered : Map!Serves(base, id)
    /\ Found(id) =>
         /\ Map!Serves(GetCommand(id).id, id)
         /\ Latest[GetCommand(id).id].number = GetCommand(id).number
         /\ GetCommand(id).id + Item(id) = id

Answered(k) ==
  Found(ToInt(asked[k])) /\ cmdf[k].by = GetCommand(ToInt(asked[k])).number

(* A batch is answered from its end: when QueryStatus returns S_OK every   *)
(* entry was answered by its own command; when it gives up at an entry     *)
(* those after it were, and those before it are as the caller left them.   *)
BatchAnswered ==
  phase = "idle" /\ result \in {"S_OK", "NOTSUPPORTED", "UNEXPECTED"} =>
    /\ result = "S_OK" => left = 0
    /\ \A k \in 1 .. Len(asked) :
         /\ k > left => Answered(k)
         /\ k < left => cmdf[k] = Untouched

(* The shell enumerates a dynamic group from its base id until the first   *)
(* NOTSUPPORTED: an id that is registered itself is never answered so.     *)
BaseIsSupported ==
  phase = "idle" /\ result = "NOTSUPPORTED" /\ asked # <<>>
    => ToInt(asked[left]) \notin Registered

(* "Only the text for the first command is returned": a text announced by  *)
(* cwActual was written for the first command of the batch, though later   *)
(* ones wrote theirs to the same buffer before.                            *)
TextOfFirst ==
  phase = "idle" /\ result = "S_OK" /\ wants_text /\ asked # <<>> /\ actual # 0
    => Answered(1) /\ buffer.by = cmdf[1].by

(* cwActual is the length of the name with its terminating zero, in the    *)
(* wide characters of rgwz (wcslen(...) + 1 in the tests).                 *)
ActualCountsCharacters ==
  actual > 0 => actual = buffer.name.wide + 1
==============================================================================
