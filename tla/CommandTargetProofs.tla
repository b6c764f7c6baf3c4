------------------------- MODULE CommandTargetProofs -------------------------
(***************************************************************************)
(* Theorems about CommandTarget, for every width of int and every number   *)
(* of commands: the vector stays sorted and is the map of latest commands, *)
(* and get_command finds what a search of that map would.  Those about     *)
(* QueryStatus are for batches of any length and for handlers that answer, *)
(* refuse or throw as they like.                                           *)
(***************************************************************************)
EXTENDS CommandTarget, FiniteSetTheorems, TLAPS

Command == [id : Ids, is_group : BOOLEAN, number : Nat]

(* Registrations are numbered by the length of the vector they meet.       *)
Numbered == \A i \in 1 .. Len(commands) : commands[i].number <= Len(commands)

VectorInv ==
  /\ commands \in Seq(Command)
  /\ Sorted
  /\ Numbered

LEMMA IdsAreIntegers == Ids \subseteq Int /\ Modulus \in Nat /\ Modulus > 0
  BY TargetAssumption DEF Ids, Modulus

LEMMA CommandFields ==
  ASSUME commands \in Seq(Command)
  PROVE  /\ Len(commands) \in Nat
         /\ \A i \in 1 .. Len(commands) :
              /\ commands[i] \in Command
              /\ commands[i].id \in Ids /\ commands[i].id \in Int
              /\ commands[i].number \in Nat
<1>1. Len(commands) \in Nat
  OBVIOUS
<1>2. \A i \in 1 .. Len(commands) : commands[i] \in Command
  OBVIOUS
<1>3. \A c \in Command : c.id \in Ids /\ c.number \in Nat
  BY DEF Command
<1>. QED
  BY <1>1, <1>2, <1>3, IdsAreIntegers

(* A set of places without gaps from the first on is an initial interval.  *)
LEMMA InitialInterval ==
  ASSUME NEW n \in Nat, NEW S \in SUBSET (1 .. n),
         \A i \in S : \A j \in 1 .. i : j \in S
  PROVE  /\ Cardinality(S) \in 0 .. n
         /\ S = 1 .. Cardinality(S)
<1>1. IsFiniteSet(1 .. n) /\ Cardinality(1 .. n) = n
  BY FS_Interval
<1>2. IsFiniteSet(S) /\ Cardinality(S) <= n
  BY <1>1, FS_Subset
<1>3. Cardinality(S) \in Nat
  BY <1>2, FS_CardinalityType
<1>4. \A i \in S : i <= Cardinality(S)
  <2>. SUFFICES ASSUME NEW i \in S PROVE i <= Cardinality(S)
    OBVIOUS
  <2>1. (1 .. i) \in SUBSET S
    OBVIOUS
  <2>2. Cardinality(1 .. i) = i
    BY FS_Interval
  <2>. QED
    BY <1>2, <2>1, <2>2, FS_Subset
<1>5. S \in SUBSET (1 .. Cardinality(S))
  BY <1>3, <1>4
<1>6. IsFiniteSet(1 .. Cardinality(S))
      /\ Cardinality(1 .. Cardinality(S)) = Cardinality(S)
  BY <1>3, FS_Interval
<1>7. S = 1 .. Cardinality(S)
  BY <1>5, <1>6, FS_Subset
<1>. QED
  BY <1>2, <1>3, <1>7

(* upper_bound splits a sorted vector: not greater before, greater after.  *)
LEMMA UpperBoundSplits ==
  ASSUME commands \in Seq(Command), Sorted, NEW id \in Ids
  PROVE  /\ UpperBound(id) \in 1 .. Len(commands) + 1
         /\ \A i \in 1 .. UpperBound(id) - 1 : commands[i].id <= id
         /\ \A i \in UpperBound(id) .. Len(commands) : id < commands[i].id
<1>. DEFINE S == {i \in 1 .. Len(commands) : commands[i].id <= id}
            Splits(at) == /\ \A i \in 1 .. at - 1 : commands[i].id <= id
                          /\ at <= Len(commands) => id < commands[at].id
<1>1. /\ Len(commands) \in Nat
      /\ \A i \in 1 .. Len(commands) : commands[i].id \in Int
      /\ id \in Int
  BY CommandFields, IdsAreIntegers
<1>2. \A i, j \in 1 .. Len(commands) : i < j => commands[i].id <= commands[j].id
  BY <1>1 DEF Sorted
<1>3. \A i \in S : \A j \in 1 .. i : j \in S
  <2>. SUFFICES ASSUME NEW i \in S, NEW j \in 1 .. i PROVE j \in S
    OBVIOUS
  <2>1. j \in 1 .. Len(commands) /\ (j = i \/ commands[j].id <= commands[i].id)
    BY <1>1, <1>2
  <2>. QED
    BY <1>1, <2>1
<1>4. Cardinality(S) \in 0 .. Len(commands) /\ S = 1 .. Cardinality(S)
  BY <1>1, <1>3, InitialInterval
<1>5. Splits(Cardinality(S) + 1)
  <2>. HIDE DEF S
  <2>1. \A i \in 1 .. Cardinality(S) : i \in S
    BY <1>4
  <2>2. Cardinality(S) + 1 \notin S
    BY <1>4
  <2>3. \A i \in S : commands[i].id <= id
    BY DEF S
  <2>4. Cardinality(S) + 1 <= Len(commands) => id < commands[Cardinality(S) + 1].id
    BY <1>1, <1>4, <2>2 DEF S
  <2>. QED
    BY <1>4, <2>1, <2>3, <2>4
<1>6. \E at \in 1 .. Len(commands) + 1 : Splits(at)
  BY <1>1, <1>4, <1>5
<1>7. UpperBound(id) = CHOOSE at \in 1 .. Len(commands) + 1 : Splits(at)
  BY DEF UpperBound
<1>8. UpperBound(id) \in 1 .. Len(commands) + 1 /\ Splits(UpperBound(id))
  <2>. HIDE DEF Splits
  <2>. QED
    BY <1>6, <1>7
<1>9. \A i \in UpperBound(id) .. Len(commands) : id < commands[i].id
  <2>. SUFFICES ASSUME NEW i \in UpperBound(id) .. Len(commands)
                PROVE  id < commands[i].id
    OBVIOUS
  <2>1. UpperBound(id) \in 1 .. Len(commands) /\ id < commands[UpperBound(id)].id
    BY <1>1, <1>8
  <2>2. i = UpperBound(id) \/ commands[UpperBound(id)].id <= commands[i].id
    BY <1>1, <1>2, <2>1
  <2>. QED
    BY <1>1, <2>1, <2>2
<1>. QED
  BY <1>8, <1>9

(* add_command's insert puts the newest command after all it may equal.    *)
LEMMA InsertKeepsVector ==
  ASSUME VectorInv, NEW id \in Ids, NEW is_group \in BOOLEAN,
         AddCommand(id, is_group)
  PROVE  VectorInv'
<1>. DEFINE at == UpperBound(id)
            c == [id |-> id, is_group |-> is_group, number |-> Len(commands) + 1]
            n == Len(commands)
<1>1. /\ n \in Nat /\ c \in Command /\ id \in Int
      /\ \A i \in 1 .. n : commands[i] \in Command
  BY CommandFields, IdsAreIntegers DEF VectorInv, Command
<1>2. /\ at \in 1 .. n + 1
      /\ \A i \in 1 .. at - 1 : commands[i].id <= id
      /\ \A i \in at .. n : id < commands[i].id
  BY UpperBoundSplits DEF VectorInv
<1>. HIDE DEF at, c
<1>3. commands' = [i \in 1 .. n + 1 |->
         IF i < at THEN commands[i] ELSE IF i = at THEN c ELSE commands[i - 1]]
  BY DEF AddCommand, Inserted, at, c
<1>4. /\ \A i \in 1 .. at - 1 : i \in 1 .. n /\ commands'[i] = commands[i]
      /\ commands'[at] = c
      /\ \A i \in at + 1 .. n + 1 :
           i - 1 \in at .. n /\ commands'[i] = commands[i - 1]
  BY <1>1, <1>2, <1>3
<1>5. commands' \in Seq(Command) /\ Len(commands') = n + 1
  <2>1. commands' \in [1 .. n + 1 -> Command]
    BY <1>1, <1>2, <1>3
  <2>. QED
    BY <1>1, <2>1
<1>6. Numbered'
  <2>1. c.number = n + 1
    BY DEF c
  <2>. SUFFICES ASSUME NEW i \in 1 .. n + 1 PROVE commands'[i].number <= n + 1
    BY <1>5 DEF Numbered
  <2>2. \A j \in 1 .. n : commands[j].number <= n /\ commands[j].number \in Nat
    BY CommandFields DEF VectorInv, Numbered
  <2>3. CASE i = at
    BY <1>1, <1>4, <2>1, <2>3
  <2>4. CASE i < at
    BY <1>1, <1>2, <1>4, <2>2, <2>4
  <2>5. CASE i > at
    <3>1. i - 1 \in 1 .. n /\ commands'[i] = commands[i - 1]
      BY <1>1, <1>2, <1>4, <2>5
    <3>. QED
      BY <1>1, <2>2, <3>1
  <2>. QED
    BY <1>2, <2>3, <2>4, <2>5
<1>7. Sorted'
  <2>. SUFFICES ASSUME NEW i \in 1 .. n + 1, NEW j \in 1 .. n + 1, i < j
                PROVE  \/ commands'[i].id < commands'[j].id
                       \/ /\ commands'[i].id = commands'[j].id
                          /\ commands'[i].number < commands'[j].number
    BY <1>5 DEF Sorted
  <2>1. \A k, l \in 1 .. n : k < l =>
          \/ commands[k].id < commands[l].id
          \/ /\ commands[k].id = commands[l].id
             /\ commands[k].number < commands[l].number
    BY DEF VectorInv, Sorted
  <2>2. c.id = id /\ c.number = n + 1
    BY DEF c
  <2>3. \A k \in 1 .. n : /\ commands[k].id \in Int
                          /\ commands[k].number \in Nat /\ commands[k].number <= n
    BY CommandFields DEF VectorInv, Numbered
  <2>4. CASE j < at
    <3>1. /\ commands'[i] = commands[i] /\ commands'[j] = commands[j]
          /\ i \in 1 .. n /\ j \in 1 .. n
      BY <1>1, <1>2, <1>4, <2>4
    <3>. QED
      BY <2>1, <3>1
  <2>5. CASE j = at
    <3>1. /\ i \in 1 .. n /\ commands'[i] = commands[i]
          /\ commands[i].id <= id
          /\ commands'[j] = c
      BY <1>1, <1>2, <1>4, <2>5
    <3>. QED
      BY <1>1, <2>2, <2>3, <3>1
  <2>6. CASE i = at
    <3>1. /\ j - 1 \in at .. n /\ commands'[j] = commands[j - 1]
          /\ commands'[i] = c
      BY <1>1, <1>2, <1>4, <2>6
    <3>. QED
      BY <1>2, <2>2, <3>1
  <2>7. CASE i < at /\ at < j
    <3>1. /\ commands'[i] = commands[i] /\ commands'[j] = commands[j - 1]
          /\ i \in 1 .. n /\ j - 1 \in 1 .. n /\ i < j - 1
      BY <1>1, <1>2, <1>4, <2>7
    <3>. QED
      BY <2>1, <3>1
  <2>8. CASE at < i
    <3>1. /\ commands'[i] = commands[i - 1] /\ commands'[j] = commands[j - 1]
          /\ i - 1 \in 1 .. n /\ j - 1 \in 1 .. n /\ i - 1 < j - 1
      BY <1>1, <1>2, <1>4, <2>8
    <3>. QED
      BY <2>1, <3>1
  <2>. QED
    BY <1>1, <1>2, <2>4, <2>5, <2>6, <2>7, <2>8
<1>. QED
  BY <1>5, <1>6, <1>7 DEF VectorInv

LEMMA VectorInit == Init => VectorInv
  BY DEF Init, VectorInv, Sorted, Numbered

LEMMA VectorStep == VectorInv /\ [Next]_vars => VectorInv'
<1>. SUFFICES ASSUME VectorInv, [Next]_vars PROVE VectorInv'
  OBVIOUS
<1>1. CASE UNCHANGED commands
  BY <1>1 DEF VectorInv, Sorted, Numbered
<1>2. ASSUME NEW id \in Ids, NEW is_group \in BOOLEAN, AddCommand(id, is_group)
      PROVE  VectorInv'
  BY <1>2, InsertKeepsVector
<1>3. (\A id \in Ids, is_group \in BOOLEAN : ~AddCommand(id, is_group))
        => UNCHANGED commands
  BY DEF Next, Exec, QueryStatus, GiveUp, AnswerState, AnswerName, RefuseName,
         ThrowFromName, vars
<1>. QED
  BY <1>1, <1>2, <1>3

(* The vector of commands is sorted by id, and equal ids by the order they *)
(* were registered in, whatever add_command is called with.                *)
THEOREM AlwaysSorted == Spec => []Sorted
<1>1. VectorInv => Sorted
  BY DEF VectorInv
<1>. QED
  BY <1>1, VectorInit, VectorStep, PTL DEF Spec

-----------------------------------------------------------------------------
(* The command before the upper bound of an id is the latest registered of *)
(* those with its own id.                                                  *)
LEMMA LastIsLatest ==
  ASSUME VectorInv, NEW id \in Ids, UpperBound(id) > 1
  PROVE  /\ UpperBound(id) - 1 \in 1 .. Len(commands)
         /\ GetCommand(id).id \in Registered
         /\ Latest[GetCommand(id).id] = [is_group |-> GetCommand(id).is_group,
                                         number |-> GetCommand(id).number]
<1>. DEFINE p == UpperBound(id) - 1
            IsLast(i) == /\ commands[i].id = commands[p].id
                         /\ \A j \in 1 .. Len(commands) :
                              commands[j].id = commands[p].id
                                => commands[j].number <= commands[i].number
<1>1. /\ Len(commands) \in Nat
      /\ \A i \in 1 .. Len(commands) : /\ commands[i].id \in Int
                                       /\ commands[i].number \in Nat
      /\ id \in Int
  BY CommandFields, IdsAreIntegers DEF VectorInv
<1>2. /\ p \in 1 .. Len(commands)
      /\ \A i \in p + 1 .. Len(commands) : id < commands[i].id
      /\ commands[p].id <= id
  BY <1>1, UpperBoundSplits DEF VectorInv
<1>3. \A i \in 1 .. p - 1 : \/ commands[i].id < commands[p].id
                            \/ /\ commands[i].id = commands[p].id
                               /\ commands[i].number < commands[p].number
  <2>. HIDE DEF p
  <2>. SUFFICES ASSUME NEW i \in 1 .. p - 1
                PROVE  \/ commands[i].id < commands[p].id
                       \/ /\ commands[i].id = commands[p].id
                          /\ commands[i].number < commands[p].number
    OBVIOUS
  <2>1. i \in 1 .. Len(commands) /\ p \in 1 .. Len(commands) /\ i < p
    BY <1>1, <1>2
  <2>. QED
    BY <2>1 DEF VectorInv, Sorted
<1>. HIDE DEF p
<1>4. \A i \in 1 .. Len(commands) : commands[i].id = commands[p].id
        => i = p \/ (i \in 1 .. p - 1 /\ commands[i].number < commands[p].number)
  <2>. SUFFICES ASSUME NEW i \in 1 .. Len(commands),
                       commands[i].id = commands[p].id, i # p
                PROVE  i \in 1 .. p - 1 /\ commands[i].number < commands[p].number
    OBVIOUS
  <2>1. i \notin p + 1 .. Len(commands)
    BY <1>1, <1>2
  <2>2. i \in 1 .. p - 1
    BY <1>1, <1>2, <2>1
  <2>. QED
    BY <1>1, <1>2, <1>3, <2>2
<1>5. IsLast(p)
  BY <1>1, <1>2, <1>4
<1>6. \A i \in 1 .. Len(commands) : IsLast(i) => i = p
  BY <1>1, <1>2, <1>4
<1>7. (CHOOSE i \in 1 .. Len(commands) : IsLast(i)) = p
  <2>. HIDE DEF IsLast
  <2>. QED
    BY <1>2, <1>5, <1>6
<1>8. commands[p].id \in Registered
  BY <1>2 DEF Registered
<1>9. Latest[commands[p].id] = [is_group |-> commands[p].is_group,
                               number |-> commands[p].number]
  BY <1>7, <1>8 DEF Latest
<1>. QED
  BY <1>2, <1>8, <1>9 DEF GetCommand, p

(* What LookupServes says of one id.                                       *)
LEMMA LookupOfOne ==
  ASSUME VectorInv, NEW id \in Ids
  PROVE  /\ Found(id) <=> \E base \in Registered : Map!Serves(base, id)
         /\ Found(id) =>
              /\ Map!Serves(GetCommand(id).id, id)
              /\ Latest[GetCommand(id).id].number = GetCommand(id).number
              /\ GetCommand(id).id + Item(id) = id
<1>. DEFINE p == UpperBound(id) - 1
<1>1. /\ Len(commands) \in Nat
      /\ \A i \in 1 .. Len(commands) : commands[i].id \in Ids /\ commands[i].id \in Int
      /\ id \in Int
  BY CommandFields, IdsAreIntegers DEF VectorInv
<1>2. /\ UpperBound(id) \in 1 .. Len(commands) + 1
      /\ \A i \in 1 .. p : commands[i].id <= id
      /\ \A i \in p + 1 .. Len(commands) : id < commands[i].id
  BY <1>1, UpperBoundSplits DEF VectorInv
<1>3. DOMAIN Latest = Registered
  BY DEF Latest
<1>4. \A base \in Registered : \E i \in 1 .. Len(commands) : commands[i].id = base
  BY DEF Registered
<1>5. ASSUME NEW base \in Registered, base <= id
      PROVE  UpperBound(id) > 1 /\ base <= GetCommand(id).id
  <2>1. PICK i \in 1 .. Len(commands) : commands[i].id = base
    BY <1>4
  <2>2. i \in 1 .. p
    BY <1>1, <1>2, <1>5, <2>1
  <2>3. p \in 1 .. Len(commands) /\ (i = p \/ i < p)
    BY <1>1, <1>2, <2>2
  <2>4. commands[i].id <= commands[p].id
    BY <1>1, <2>1, <2>3 DEF VectorInv, Sorted
  <2>5. UpperBound(id) > 1
    BY <1>2, <2>3
  <2>. QED
    BY <2>1, <2>4, <2>5 DEF GetCommand
<1>6. ASSUME UpperBound(id) > 1
      PROVE  /\ GetCommand(id).id \in Registered
             /\ GetCommand(id).id \in Ids /\ GetCommand(id).id <= id
             /\ Latest[GetCommand(id).id].is_group = GetCommand(id).is_group
             /\ Latest[GetCommand(id).id].number = GetCommand(id).number
  <2>1. p \in 1 .. Len(commands)
    BY <1>1, <1>2, <1>6
  <2>2. GetCommand(id).id \in Ids /\ GetCommand(id).id <= id
    BY <1>1, <1>2, <2>1 DEF GetCommand
  <2>3. /\ GetCommand(id).id \in Registered
        /\ Latest[GetCommand(id).id] = [is_group |-> GetCommand(id).is_group,
                                        number |-> GetCommand(id).number]
    BY <1>6, LastIsLatest
  <2>. QED
    BY <2>2, <2>3
<1>7. ASSUME Found(id) PROVE Map!Serves(GetCommand(id).id, id)
  <2>1. UpperBound(id) > 1 /\ (GetCommand(id).is_group \/ GetCommand(id).id = id)
    BY <1>7 DEF Found, GetCommand
  <2>2. \A other \in Registered : other <= id => other <= GetCommand(id).id
    BY <1>5
  <2>. QED
    BY <1>3, <1>6, <2>1, <2>2 DEF Map!Serves, Map!Below
<1>8. ASSUME NEW base \in Registered, Map!Serves(base, id) PROVE Found(id)
  <2>1. base <= id /\ \A other \in Registered : other <= id => other <= base
    BY <1>3, <1>8 DEF Map!Serves, Map!Below
  <2>2. UpperBound(id) > 1 /\ base <= GetCommand(id).id
    BY <1>5, <2>1
  <2>3. GetCommand(id).id <= base
    BY <1>6, <2>1, <2>2
  <2>4. base = GetCommand(id).id
    <3>1. base \in Int
      BY <1>1, <1>4
    <3>2. GetCommand(id).id \in Int
      BY <1>6, <2>2, IdsAreIntegers
    <3>. QED
      BY <2>2, <2>3, <3>1, <3>2
  <2>5. base = id \/ Latest[base].is_group
    BY <1>8 DEF Map!Serves
  <2>. QED
    BY <1>6, <2>2, <2>4, <2>5 DEF Found, GetCommand
<1>9. ASSUME Found(id) PROVE GetCommand(id).id + Item(id) = id
  <2>1. UpperBound(id) > 1
    BY <1>9 DEF Found
  <2>2. /\ id - GetCommand(id).id \in 0 .. Modulus - 1
        /\ GetCommand(id).id \in Int
    BY <1>6, <2>1, TargetAssumption DEF Ids, Modulus
  <2>3. \A d \in 0 .. Modulus - 1 : d % Modulus = d
    BY IdsAreIntegers
  <2>. QED
    BY <1>1, <2>2, <2>3 DEF Item
<1>. QED
  BY <1>6, <1>7, <1>8, <1>9 DEF Found

(* For every id the shell can ask for, get_command finds a command exactly *)
(* when the map of latest registrations has one that serves it, finds that *)
(* one, and the unsigned item it computes is the true distance of the ids. *)
THEOREM LookupAgreesWithMap == Spec => []LookupServes
<1>1. VectorInv => LookupServes
  BY LookupOfOne DEF LookupServes
<1>. QED
  BY <1>1, VectorInit, VectorStep, PTL DEF Spec

-----------------------------------------------------------------------------
(* QueryStatus.                                                            *)

(* While a call is under way nothing changes what was answered before.     *)
LEMMA AnswersStay ==
  ASSUME UNCHANGED <<commands, asked>>, NEW k, cmdf'[k] = cmdf[k]
  PROVE  Answered(k)' <=> Answered(k)
  BY DEF Answered, Found, GetCommand, UpperBound, ToInt

(* Entries after the one at hand are answered, those before untouched, and *)
(* the one whose name is asked for is answered itself.                     *)
AtWork ==
  /\ left \in 1 .. Len(asked)
  /\ result = "none"
  /\ \A k \in 1 .. Len(asked) : /\ k > left => Answered(k)
                                /\ k < left => cmdf[k] = Untouched
  /\ phase = "get_name" => wants_text /\ Answered(left)

QueryInv ==
  /\ phase \in {"idle", "query_state", "get_name"}
  /\ asked \in Seq(DWords)
  /\ cmdf = [k \in 1 .. Len(asked) |-> cmdf[k]]
  /\ phase # "idle" => AtWork
  /\ BatchAnswered
  /\ BaseIsSupported
  /\ TextOfFirst

LEMMA QueryInit == Init => QueryInv
  BY DEF Init, QueryInv, BatchAnswered, BaseIsSupported, TextOfFirst

(* An id that is registered is found, as itself.                           *)
LEMMA BaseIsFound ==
  ASSUME VectorInv, NEW id \in Ids, id \in Registered
  PROVE  Found(id) /\ Item(id) = 0
<1>1. Registered \subseteq Int /\ id \in Int
  BY CommandFields, IdsAreIntegers DEF Registered, VectorInv
<1>2. DOMAIN Latest = Registered
  BY DEF Latest
<1>3. /\ id \in Map!Below(id)
      /\ \A base \in Map!Below(id) : base \in Int /\ base <= id
  <2>1. Map!Below(id) = {base \in Registered : base <= id}
    BY <1>2 DEF Map!Below
  <2>2. id <= id
    BY <1>1
  <2>. QED
    BY <1>1, <2>1, <2>2
<1>4. Map!Serves(id, id)
  BY <1>3 DEF Map!Serves
<1>5. LookupServes
  BY LookupOfOne DEF LookupServes
<1>6. Found(id) /\ Map!Serves(GetCommand(id).id, id)
  BY <1>4, <1>5 DEF LookupServes
<1>7. GetCommand(id).id = id
  BY <1>1, <1>3, <1>6 DEF Map!Serves
<1>8. 0 % Modulus = 0
  BY IdsAreIntegers
<1>. QED
  BY <1>1, <1>6, <1>7, <1>8 DEF Item

(* A DWORD becomes an int.                                                 *)
LEMMA IntOfDWord ==
  ASSUME NEW d \in DWords
  PROVE  ToInt(d) \in Ids
  BY TargetAssumption DEF DWords, Ids, ToInt, Modulus

-----------------------------------------------------------------------------
(* The loop comes to an end, or to the entry before, with the current one  *)
(* answered.                                                               *)
LEMMA Advance ==
  ASSUME QueryInv, AtWork, NextEntry, UNCHANGED <<commands, asked, wants_text>>,
         NEW here, here = left, Answered(here)',
         cmdf' = [k \in 1 .. Len(asked) |-> cmdf'[k]],
         \A k \in 1 .. Len(asked) : k # here => cmdf'[k] = cmdf[k],
         here = 1 => \/ ~wants_text
                     \/ actual' = 0
                     \/ buffer'.by = cmdf'[1].by
  PROVE  QueryInv'
<1>1. here \in 1 .. Len(asked) /\ left' = here - 1 /\ Len(asked) \in Nat
  BY DEF AtWork, NextEntry, QueryInv
<1>2. \A k \in 1 .. Len(asked) : k # here => (Answered(k)' <=> Answered(k))
  BY AnswersStay
<1>3. \A k \in 1 .. Len(asked) : /\ k > left' => Answered(k)'
                                 /\ k < left' => cmdf'[k] = Untouched
  <2>. SUFFICES ASSUME NEW k \in 1 .. Len(asked)
                PROVE  /\ k > left' => Answered(k)'
                       /\ k < left' => cmdf'[k] = Untouched
    OBVIOUS
  <2>1. CASE k = here
    BY <1>1, <2>1
  <2>2. CASE k # here
    BY <1>1, <1>2, <2>2 DEF AtWork
  <2>. QED
    BY <2>1, <2>2
<1>4. CASE here = 1
  <2>1. phase' = "idle" /\ result' = "S_OK" /\ left' = 0
    BY <1>4, <1>1 DEF NextEntry, Return
  <2>2. BatchAnswered'
    BY <2>1, <1>3 DEF BatchAnswered
  <2>3. TextOfFirst'
    <3>1. Answered(1)'
      BY <1>4
    <3>. QED
      BY <1>4, <2>1, <3>1 DEF TextOfFirst
  <2>. QED
    BY <2>1, <2>2, <2>3 DEF QueryInv, BaseIsSupported
<1>5. CASE here # 1
  <2>1. phase' = "query_state" /\ result' = "none" /\ left' \in 1 .. Len(asked)
    BY <1>5, <1>1 DEF NextEntry, AtWork
  <2>2. AtWork'
    BY <2>1, <1>3 DEF AtWork
  <2>. QED
    BY <2>1, <2>2 DEF QueryInv, BatchAnswered, BaseIsSupported, TextOfFirst
<1>. QED
  BY <1>4, <1>5

LEMMA QueryStep == VectorInv /\ QueryInv /\ [Next]_vars => QueryInv'
<1>. SUFFICES ASSUME VectorInv, QueryInv, [Next]_vars PROVE QueryInv'
  OBVIOUS
<1>a. phase # "idle" => /\ AtWork /\ left \in 1 .. Len(asked) /\ asked[left] \in DWords
                        /\ Len(asked) \in Nat /\ Current \in Ids
  BY IntOfDWord DEF QueryInv, AtWork, Current
<1>1. ASSUME ForgetQuery, phase' = "idle" PROVE QueryInv'
  BY <1>1 DEF ForgetQuery, QueryInv, BatchAnswered, BaseIsSupported, TextOfFirst
<1>2. ASSUME NEW id \in Ids, NEW is_group \in BOOLEAN, AddCommand(id, is_group)
      PROVE  QueryInv'
  BY <1>1, <1>2 DEF AddCommand
<1>3. ASSUME NEW command_id \in DWords, NEW own_group \in BOOLEAN,
             Exec(command_id, own_group)
      PROVE  QueryInv'
  BY <1>1, <1>3 DEF Exec
<1>4. ASSUME NEW batch \in Batches, NEW own_group \in BOOLEAN,
             NEW with_text \in BOOLEAN, QueryStatus(batch, own_group, with_text)
      PROVE  QueryInv'
  <2>1. batch \in Seq(DWords) /\ Len(batch) \in Nat
    BY TargetAssumption DEF Batches
  <2>2. /\ asked' = batch /\ left' = Len(batch)
        /\ cmdf' = [k \in 1 .. Len(batch) |-> Untouched]
    BY <1>4 DEF QueryStatus
  <2>3. CASE phase' = "idle"
    <3>1. result' = "UNKNOWNGROUP" \/ (result' = "S_OK" /\ batch = <<>>)
      BY <1>4, <2>3 DEF QueryStatus, Return
    <3>. QED
      BY <2>1, <2>2, <2>3, <3>1 DEF QueryInv, BatchAnswered, BaseIsSupported, TextOfFirst
  <2>4. CASE phase' # "idle"
    <3>1. phase' = "query_state" /\ result' = "none" /\ batch # <<>>
      BY <1>4, <2>4 DEF QueryStatus, Return
    <3>2. Len(batch) \in 1 .. Len(batch)
      BY <2>1, <3>1
    <3>3. AtWork'
      BY <2>1, <2>2, <3>1, <3>2 DEF AtWork
    <3>. QED
      BY <2>1, <2>2, <3>1, <3>3 DEF QueryInv, BatchAnswered, BaseIsSupported, TextOfFirst
  <2>. QED
    BY <2>3, <2>4
<1>5. ASSUME \/ GiveUp
             \/ ThrowFromName
      PROVE  QueryInv'
  <2>1. /\ phase # "idle" /\ phase' = "idle"
        /\ UNCHANGED <<commands, asked, left, wants_text>>
        /\ result' \in {"NOTSUPPORTED", "UNEXPECTED"}
        /\ \A k \in 1 .. Len(asked) : k # left => cmdf'[k] = cmdf[k]
        /\ cmdf' = [k \in 1 .. Len(asked) |-> cmdf'[k]]
    BY <1>5 DEF GiveUp, ThrowFromName, Return, query, QueryInv
  <2>2. \A k \in 1 .. Len(asked) : k # left => (Answered(k)' <=> Answered(k))
    BY <2>1, AnswersStay
  <2>3. BatchAnswered'
    BY <1>a, <2>1, <2>2 DEF BatchAnswered, AtWork
  <2>4. BaseIsSupported'
    <3>. SUFFICES ASSUME result' = "NOTSUPPORTED" PROVE Current \notin Registered
      BY <2>1 DEF BaseIsSupported, Current, Registered
    <3>1. ~Found(Current) \/ Item(Current) # 0
      BY <1>5 DEF GiveUp, ThrowFromName, Return
    <3>. QED
      BY <1>a, <2>1, <3>1, BaseIsFound
  <2>. QED
    BY <2>1, <2>3, <2>4 DEF QueryInv, TextOfFirst
<1>6. ASSUME NEW state \in States, AnswerState(state) PROVE QueryInv'
  <2>. PICK here \in 1 .. Len(asked) : here = left
    BY <1>6, <1>a DEF AnswerState
  <2>1. /\ phase = "query_state" /\ UNCHANGED <<commands, asked, wants_text>>
        /\ \A k \in 1 .. Len(asked) : k # here => cmdf'[k] = cmdf[k]
        /\ cmdf' = [k \in 1 .. Len(asked) |-> cmdf'[k]]
        /\ cmdf'[here].by = GetCommand(Current).number
    BY <1>6 DEF AnswerState, QueryInv
  <2>2. Answered(here)'
    BY <1>6, <2>1 DEF AnswerState, Answered, Found, GetCommand, UpperBound, Current, ToInt
  <2>3. CASE wants_text
    <3>1. phase' = "get_name" /\ UNCHANGED <<left, result>>
      BY <1>6, <2>3 DEF AnswerState
    <3>2. \A k \in 1 .. Len(asked) : k # here => (Answered(k)' <=> Answered(k))
      BY <2>1, AnswersStay
    <3>3. Answered(left)'
      BY <2>2, <3>1 DEF Answered, Found, GetCommand, UpperBound, ToInt
    <3>4. AtWork'
      BY <1>a, <2>1, <2>3, <3>1, <3>2, <3>3 DEF AtWork
    <3>. QED
      BY <2>1, <3>1, <3>4 DEF QueryInv, BatchAnswered, BaseIsSupported, TextOfFirst
  <2>4. CASE ~wants_text
    <3>1. NextEntry /\ AtWork
      BY <1>6, <1>a, <2>4 DEF AnswerState
    <3>. QED
      BY <2>1, <2>2, <2>4, <3>1, Advance
  <2>. QED
    BY <2>3, <2>4
<1>7. ASSUME AnswerName \/ RefuseName PROVE QueryInv'
  <2>. PICK here \in 1 .. Len(asked) : here = left
    BY <1>7, <1>a DEF AnswerName, RefuseName
  <2>1. /\ phase = "get_name" /\ NextEntry
        /\ UNCHANGED <<commands, asked, wants_text, cmdf>>
    BY <1>7 DEF AnswerName, RefuseName
  <2>2. AtWork /\ Answered(here)
    BY <1>a, <2>1 DEF AtWork
  <2>3. Answered(here)'
    BY <2>1, <2>2, AnswersStay
  <2>4. here = 1 => actual' = 0 \/ buffer'.by = cmdf'[1].by
    BY <1>7, <2>1, <2>2 DEF AnswerName, RefuseName, Answered, Current
  <2>5. cmdf' = [k \in 1 .. Len(asked) |-> cmdf'[k]]
    BY <2>1 DEF QueryInv
  <2>. QED
    BY <2>1, <2>2, <2>3, <2>4, <2>5, Advance
<1>8. CASE UNCHANGED vars
  <2>1. UNCHANGED <<commands, phase, asked, left, cmdf, wants_text, buffer, actual, result>>
    BY <1>8 DEF vars, query
  <2>2. \A k \in 1 .. Len(asked) : Answered(k)' <=> Answered(k)
    BY <2>1, AnswersStay
  <2>3. phase = "get_name" => (Answered(left)' <=> Answered(left))
    BY <2>1 DEF Answered, Found, GetCommand, UpperBound, ToInt
  <2>4. (phase # "idle" => AtWork')
    BY <1>a, <2>1, <2>2, <2>3 DEF AtWork
  <2>5. BatchAnswered'
    BY <2>1, <2>2 DEF QueryInv, BatchAnswered
  <2>6. BaseIsSupported'
    BY <2>1 DEF QueryInv, BaseIsSupported, Registered, ToInt
  <2>7. TextOfFirst'
    <3>1. Answered(1)' <=> Answered(1)
      BY <2>1, AnswersStay
    <3>. QED
      BY <2>1, <3>1 DEF QueryInv, TextOfFirst
  <2>. QED
    BY <2>1, <2>4, <2>5, <2>6, <2>7 DEF QueryInv
<1>. QED
  BY <1>2, <1>3, <1>4, <1>5, <1>6, <1>7, <1>8 DEF Next

LEMMA QueryInvariant == Spec => [](VectorInv /\ QueryInv)
  BY VectorInit, VectorStep, QueryInit, QueryStep, PTL DEF Spec

(* What the shell finds in its array when QueryStatus returns: each entry  *)
(* answered by its own command, or a tail of them when it gave up, and the *)
(* rest untouched, for batches of any length.                              *)
THEOREM BatchesAnswered == Spec => []BatchAnswered
<1>1. QueryInv => BatchAnswered
  BY DEF QueryInv
<1>. QED
  BY <1>1, QueryInvariant, PTL

(* The shell's enumeration of a dynamic group does not end before its base:*)
(* with every width of int, get_command gives a registered id item 0.      *)
THEOREM BasesSupported == Spec => []BaseIsSupported
<1>1. QueryInv => BaseIsSupported
  BY DEF QueryInv
<1>. QED
  BY <1>1, QueryInvariant, PTL

(* The text that is announced is the first command's, however many entries *)
(* after it wrote theirs to the one buffer, or cwActual says there is none.*)
THEOREM TextIsOfFirst == Spec => []TextOfFirst
<1>1. QueryInv => TextOfFirst
  BY DEF QueryInv
<1>. QED
  BY <1>1, QueryInvariant, PTL

-----------------------------------------------------------------------------
(* Types.                                                                  *)

(* Arrays of no entries.                                                   *)
LEMMA NoEntries ==
  ASSUME NEW S
  PROVE  /\ <<>> \in Seq(S) /\ 0 \in 0 .. Len(<<>>)
         /\ <<>> \in [1 .. Len(<<>>) -> S]
  OBVIOUS

LEMMA Initials ==
  /\ NoText \in [by : Nat, name : Names \union {Empty}]
  /\ NotExecuted \in [by : Nat, item : DWords]
  /\ Cleared \in [by : Nat, flags : SUBSET CommandFlags]
  /\ Empty \in [wide : Nat, utf8 : Nat]
  BY TargetAssumption DEF NoText, NotExecuted, Cleared, Nobody, Empty, DWords, Modulus

LEMMA TypeInit == Init => TypeOK
<1>. SUFFICES ASSUME Init PROVE TypeOK
  OBVIOUS
<1>1. /\ commands \in Seq([id : Ids, is_group : BOOLEAN, number : Nat])
      /\ asked \in Seq(DWords) /\ left \in 0 .. Len(asked)
      /\ cmdf \in [1 .. Len(asked) ->
                    [by : Nat, flags : SUBSET CommandFlags] \union {Untouched}]
  BY NoEntries DEF Init
<1>. QED
  BY <1>1, Initials DEF Init, TypeOK

(* What get_command finds is a command, and the item an unsigned.          *)
LEMMA FoundFields ==
  ASSUME VectorInv, NEW id \in Ids, Found(id)
  PROVE  GetCommand(id).number \in Nat /\ Item(id) \in DWords
<1>1. UpperBound(id) > 1
  BY DEF Found
<1>2. UpperBound(id) - 1 \in 1 .. Len(commands)
  BY <1>1, LastIsLatest
<1>3. GetCommand(id).number \in Nat /\ GetCommand(id).id \in Int /\ id \in Int
  BY <1>2, CommandFields, IdsAreIntegers DEF GetCommand, VectorInv
<1>4. \A d \in Int : d % Modulus \in 0 .. Modulus - 1
  BY IdsAreIntegers
<1>5. id - GetCommand(id).id \in Int
  BY <1>3
<1>. QED
  BY <1>3, <1>4, <1>5 DEF Item, DWords

LEMMA TypeStep == TypeOK /\ VectorInv /\ QueryInv /\ [Next]_vars => TypeOK'
<1>. SUFFICES ASSUME TypeOK, VectorInv, QueryInv, [Next]_vars PROVE TypeOK'
  OBVIOUS
<1>. DEFINE Cmdf == [by : Nat, flags : SUBSET CommandFlags] \union {Untouched}
<1>a. /\ VectorInv'
      /\ commands' \in Seq([id : Ids, is_group : BOOLEAN, number : Nat])
  BY VectorStep DEF VectorInv, Command
<1>b. phase # "idle" => /\ left \in 1 .. Len(asked) /\ asked[left] \in DWords
                        /\ Current \in Ids /\ Len(asked) \in Nat
  BY IntOfDWord DEF QueryInv, AtWork, Current
<1>1. ASSUME ForgetQuery, phase' = "idle", cache' = cache,
             executed' \in [by : Nat, item : DWords],
             result' \in {"none", "S_OK", "UNKNOWNGROUP", "NOTSUPPORTED", "UNEXPECTED"}
      PROVE  TypeOK'
  <2>1. /\ asked' \in Seq(DWords) /\ left' \in 0 .. Len(asked')
        /\ cmdf' \in [1 .. Len(asked') -> Cmdf]
    BY <1>1, NoEntries DEF ForgetQuery
  <2>. QED
    BY <1>1, <1>a, <2>1, Initials DEF ForgetQuery, TypeOK
<1>2. ASSUME NEW id \in Ids, NEW is_group \in BOOLEAN, AddCommand(id, is_group)
      PROVE  TypeOK'
  BY <1>1, <1>2, Initials DEF AddCommand
<1>3. ASSUME NEW command_id \in DWords, NEW own_group \in BOOLEAN,
             Exec(command_id, own_group)
      PROVE  TypeOK'
  <2>1. executed' \in [by : Nat, item : DWords]
    BY <1>3, Initials, FoundFields, IntOfDWord DEF Exec
  <2>2. result' \in {"none", "S_OK", "UNKNOWNGROUP", "NOTSUPPORTED", "UNEXPECTED"}
    BY <1>3 DEF Exec
  <2>. QED
    BY <1>1, <1>3, <2>1, <2>2 DEF Exec
<1>4. ASSUME NEW batch \in Batches, NEW own_group \in BOOLEAN,
             NEW with_text \in BOOLEAN, QueryStatus(batch, own_group, with_text)
      PROVE  TypeOK'
  <2>1. batch \in Seq(DWords) /\ Len(batch) \in Nat
    BY TargetAssumption DEF Batches
  <2>2. /\ phase' \in {"idle", "query_state", "get_name"}
        /\ result' \in {"none", "S_OK", "UNKNOWNGROUP", "NOTSUPPORTED", "UNEXPECTED"}
    BY <1>4 DEF QueryStatus, Return
  <2>3. /\ asked' \in Seq(DWords) /\ left' \in 0 .. Len(asked')
        /\ cmdf' \in [1 .. Len(asked') -> Cmdf]
    BY <1>4, <2>1 DEF QueryStatus
  <2>. QED
    BY <1>4, <1>a, Initials, <2>2, <2>3 DEF QueryStatus, TypeOK
<1>5. ASSUME NextEntry, phase # "idle"
      PROVE  /\ left' \in 0 .. Len(asked)
             /\ phase' \in {"idle", "query_state", "get_name"}
             /\ result' \in {"none", "S_OK", "UNKNOWNGROUP", "NOTSUPPORTED", "UNEXPECTED"}
  BY <1>5, <1>b DEF NextEntry, Return, TypeOK
<1>6. CASE GiveUp
  <2>1. cmdf' \in [1 .. Len(asked) -> Cmdf]
    BY <1>6, Initials DEF GiveUp, TypeOK
  <2>. QED
    BY <1>6, <1>a, <2>1 DEF GiveUp, Return, TypeOK
<1>7. ASSUME NEW state \in States, AnswerState(state) PROVE TypeOK'
  <2>1. /\ [by |-> GetCommand(Current).number, flags |-> ConvertState(state)]
             \in [by : Nat, flags : SUBSET CommandFlags]
        /\ phase = "query_state"
    BY <1>7, <1>b, FoundFields DEF AnswerState, ConvertState, CommandFlags
  <2>2. cmdf' \in [1 .. Len(asked) -> Cmdf]
    BY <1>7, <2>1 DEF AnswerState, TypeOK
  <2>3. /\ left' \in 0 .. Len(asked)
        /\ phase' \in {"idle", "query_state", "get_name"}
        /\ result' \in {"none", "S_OK", "UNKNOWNGROUP", "NOTSUPPORTED", "UNEXPECTED"}
    BY <1>7, <1>5, <2>1 DEF AnswerState, TypeOK
  <2>. QED
    BY <1>7, <1>a, <2>2, <2>3 DEF AnswerState, TypeOK
<1>8. CASE AnswerName
  <2>1. /\ cache' \in Names \union {Empty} /\ cache' \in [wide : Nat, utf8 : Nat]
        /\ Found(Current)
    BY <1>8, Initials, TargetAssumption DEF AnswerName, TypeOK, QueryInv, AtWork, Answered, Current
  <2>2. /\ buffer' \in [by : Nat, name : Names \union {Empty}]
        /\ actual' \in Nat
    BY <1>8, <1>b, <2>1, FoundFields DEF AnswerName
  <2>. QED
    BY <1>8, <1>5, <1>a, <2>1, <2>2 DEF AnswerName, TypeOK
<1>9. CASE RefuseName
  BY <1>9, <1>5, <1>a DEF RefuseName, TypeOK
<1>10. CASE ThrowFromName
  BY <1>10, <1>a DEF ThrowFromName, Return, TypeOK, query
<1>11. CASE UNCHANGED vars
  BY <1>11, <1>a DEF vars, query, TypeOK
<1>. QED
  BY <1>2, <1>3, <1>4, <1>6, <1>7, <1>8, <1>9, <1>10, <1>11 DEF Next

(* For every int and every handler the arrays keep their types: no index   *)
(* leaves the batch, and no item or number is anything but an unsigned.    *)
THEOREM ArraysKeepTypes == Spec => []TypeOK
  BY TypeInit, TypeStep, VectorInit, VectorStep, QueryInit, QueryStep, PTL DEF Spec

-----------------------------------------------------------------------------
(* Refinement: the vector implements CommandMap.                           *)

(* Map!Newest has what it looks for.                                       *)
HasNewest ==
  commands # <<>> => \E i \in 1 .. Len(commands) : commands[i].number = Len(commands)

IdsOf(v) == {v[i].id : i \in 1 .. Len(v)}

(* Place i of v is the latest of its id.                                   *)
IsLatest(v, i) ==
  \A j \in 1 .. Len(v) : v[j].id = v[i].id => v[j].number <= v[i].number

Entered(c) == [is_group |-> c.is_group, number |-> c.number]

(* Latest of any vector.                                                   *)
LatestOf(v) ==
  [id \in IdsOf(v) |->
     LET last == CHOOSE i \in 1 .. Len(v) :
                   /\ v[i].id = id
                   /\ \A j \in 1 .. Len(v) :
                        v[j].id = id => v[j].number <= v[i].number
     IN [is_group |-> v[last].is_group, number |-> v[last].number]]

LEMMA LatestIsLatestOf == /\ Latest = LatestOf(commands)
                          /\ Registered = IdsOf(commands)
  BY DEF Latest, LatestOf, Registered, IdsOf

(* Equal ids have different numbers, so there is one latest of each.       *)
LEMMA OneLatest ==
  ASSUME NEW v, Len(v) \in Nat, \A i \in 1 .. Len(v) : v[i].number \in Nat,
         \A i, j \in 1 .. Len(v) :
           i # j /\ v[i].id = v[j].id => v[i].number # v[j].number,
         NEW p \in 1 .. Len(v), IsLatest(v, p)
  PROVE  v[p].id \in IdsOf(v) /\ LatestOf(v)[v[p].id] = Entered(v[p])
<1>. DEFINE Last(i) == /\ v[i].id = v[p].id
                       /\ \A j \in 1 .. Len(v) :
                            v[j].id = v[p].id => v[j].number <= v[i].number
<1>1. Last(p)
  BY DEF IsLatest
<1>2. ASSUME NEW i \in 1 .. Len(v), Last(i) PROVE i = p
  <2>1. v[i].number <= v[p].number /\ v[p].number <= v[i].number
    BY <1>1, <1>2
  <2>. QED
    BY <1>2, <2>1
<1>3. (CHOOSE i \in 1 .. Len(v) : Last(i)) = p
  <2>. HIDE DEF Last
  <2>. QED
    BY <1>1, <1>2
<1>4. v[p].id \in IdsOf(v)
  BY DEF IdsOf
<1>. QED
  BY <1>3, <1>4 DEF LatestOf, Entered

(* Some place is the latest of each registered id.                         *)
LEMMA LatestExists ==
  ASSUME VectorInv, NEW id \in Registered
  PROVE  \E p \in 1 .. Len(commands) : commands[p].id = id /\ IsLatest(commands, p)
<1>1. /\ Len(commands) \in Nat /\ id \in Ids
      /\ \A i \in 1 .. Len(commands) : /\ commands[i].id \in Int
                                       /\ commands[i].number \in Nat
  BY CommandFields DEF VectorInv, Registered
<1>. DEFINE p == UpperBound(id) - 1
<1>2. Found(id) /\ Item(id) = 0 /\ GetCommand(id).id + Item(id) = id
  BY <1>1, BaseIsFound, LookupOfOne
<1>3. /\ p \in 1 .. Len(commands)
      /\ \A i \in p + 1 .. Len(commands) : id < commands[i].id
  BY <1>1, <1>2, UpperBoundSplits DEF Found, VectorInv
<1>4. commands[p].id = id
  BY <1>1, <1>2, <1>3 DEF GetCommand
<1>. HIDE DEF p
<1>5. ASSUME NEW j \in 1 .. Len(commands), commands[j].id = id
      PROVE  commands[j].number <= commands[p].number
  <2>1. j <= p
    BY <1>1, <1>3, <1>5
  <2>2. j < p => commands[j].number < commands[p].number
    BY <1>1, <1>3, <1>4, <1>5 DEF VectorInv, Sorted
  <2>. QED
    BY <1>1, <1>3, <2>1, <2>2
<1>. QED
  BY <1>3, <1>4, <1>5 DEF IsLatest

LEMMA NumbersDiffer ==
  ASSUME VectorInv
  PROVE  /\ Len(commands) \in Nat
         /\ \A i \in 1 .. Len(commands) : commands[i].number \in Nat
         /\ \A i, j \in 1 .. Len(commands) :
              i # j /\ commands[i].id = commands[j].id
                => commands[i].number # commands[j].number
<1>1. /\ Len(commands) \in Nat
      /\ \A i \in 1 .. Len(commands) : /\ commands[i].id \in Int
                                       /\ commands[i].number \in Nat
  BY CommandFields DEF VectorInv
<1>. QED
  BY <1>1 DEF VectorInv, Sorted

(* Registrations count what is in the vector.                              *)
LEMMA NewestIsLength ==
  ASSUME VectorInv, HasNewest
  PROVE  Map!Newest = Len(commands)
<1>. DEFINE n == Len(commands)
            Numbers == {0} \union {Latest[id].number : id \in Registered}
<1>1. /\ n \in Nat /\ DOMAIN Latest = Registered
      /\ \A i \in 1 .. n : commands[i].number \in Nat /\ commands[i].number <= n
  BY NumbersDiffer DEF VectorInv, Numbered, Latest
<1>2. ASSUME NEW id \in Registered PROVE Latest[id].number \in 0 .. n
  <2>1. PICK p \in 1 .. n : commands[p].id = id /\ IsLatest(commands, p)
    BY LatestExists
  <2>2. Latest[id] = Entered(commands[p])
    BY <2>1, NumbersDiffer, OneLatest, LatestIsLatestOf
  <2>. QED
    BY <1>1, <2>2 DEF Entered
<1>3. n \in Numbers
  <2>1. CASE commands = <<>>
    BY <2>1
  <2>2. CASE commands # <<>>
    <3>1. PICK p \in 1 .. n : commands[p].number = n
      BY <2>2 DEF HasNewest
    <3>2. IsLatest(commands, p)
      BY <1>1, <3>1 DEF IsLatest
    <3>3. /\ commands[p].id \in Registered
          /\ Latest[commands[p].id] = Entered(commands[p])
      BY <3>2, NumbersDiffer, OneLatest, LatestIsLatestOf
    <3>. QED
      BY <3>1, <3>3 DEF Entered
  <2>. QED
    BY <2>1, <2>2
<1>4. \A m \in Numbers :
        (\A id \in Registered : Latest[id].number <= m) <=> m = n
  <2>. SUFFICES ASSUME NEW m \in Numbers
                PROVE  (\A id \in Registered : Latest[id].number <= m) <=> m = n
    OBVIOUS
  <2>1. m \in 0 .. n
    BY <1>1, <1>2
  <2>2. (\A id \in Registered : Latest[id].number <= m) => n <= m
    BY <1>1, <1>3, <2>1
  <2>3. \A id \in Registered : Latest[id].number <= n
    BY <1>1, <1>2
  <2>. QED
    BY <1>1, <2>1, <2>2, <2>3
<1>5. Map!Newest = CHOOSE m \in Numbers : \A id \in Registered : Latest[id].number <= m
  BY <1>1 DEF Map!Newest
<1>. QED
  <2>. HIDE DEF Numbers
  <2>. QED
    BY <1>3, <1>4, <1>5

-----------------------------------------------------------------------------
(* add_command registers with the map: the newest is the latest of its id, *)
(* and the latest of every other id keeps its place among the rest.        *)
LEMMA AddRegisters ==
  ASSUME VectorInv, HasNewest, NEW id \in Ids, NEW is_group \in BOOLEAN,
         AddCommand(id, is_group)
  PROVE  HasNewest' /\ Map!Register(id, is_group)
<1>. DEFINE n == Len(commands)
            at == UpperBound(id)
            c == [id |-> id, is_group |-> is_group, number |-> n + 1]
            v == Inserted(at, c)
<1>1. /\ n \in Nat /\ at \in 1 .. n + 1
      /\ \A i \in 1 .. n : /\ commands[i].number \in Nat /\ commands[i].number <= n
                           /\ commands[i] \in Command
  BY UpperBoundSplits, CommandFields DEF VectorInv, Numbered
<1>2. VectorInv' /\ commands' = v
  BY InsertKeepsVector DEF AddCommand
<1>. HIDE DEF at
<1>3. /\ v[at] = c
      /\ \A i \in 1 .. at - 1 : i \in 1 .. n /\ v[i] = commands[i]
      /\ \A i \in at + 1 .. n + 1 : i - 1 \in at .. n /\ v[i] = commands[i - 1]
      /\ v \in [1 .. n + 1 -> Command]
  BY <1>1 DEF Inserted, Command
<1>4. Len(v) = n + 1 /\ v \in Seq(Command)
  BY <1>1, <1>3
<1>. HIDE DEF v, c
<1>5. \A i \in 1 .. n : \E j \in 1 .. n + 1 : j # at /\ v[j] = commands[i]
  <2>. SUFFICES ASSUME NEW i \in 1 .. n
                PROVE  \E j \in 1 .. n + 1 : j # at /\ v[j] = commands[i]
    OBVIOUS
  <2>1. CASE i < at
    BY <1>1, <1>3, <2>1
  <2>2. CASE i >= at
    <3>1. i + 1 \in at + 1 .. n + 1 /\ v[i + 1] = commands[i + 1 - 1]
      BY <1>1, <1>3, <2>2
    <3>. QED
      BY <1>1, <3>1
  <2>. QED
    BY <1>1, <2>1, <2>2
<1>6. \A j \in 1 .. n + 1 : j # at => \E i \in 1 .. n : v[j] = commands[i]
  <2>. SUFFICES ASSUME NEW j \in 1 .. n + 1, j # at
                PROVE  \E i \in 1 .. n : v[j] = commands[i]
    OBVIOUS
  <2>1. CASE j < at
    BY <1>1, <1>3, <2>1
  <2>2. CASE j > at
    <3>1. j - 1 \in 1 .. n /\ v[j] = commands[j - 1]
      BY <1>1, <1>3, <2>2
    <3>. QED
      BY <3>1
  <2>. QED
    BY <1>1, <2>1, <2>2
<1>7. c.id = id /\ c.is_group = is_group /\ c.number = n + 1
  BY DEF c
<1>8. HasNewest'
  BY <1>1, <1>2, <1>3, <1>4, <1>7 DEF HasNewest
<1>9. /\ \A i \in 1 .. Len(v) : v[i].number \in Nat
      /\ \A i, j \in 1 .. Len(v) :
           i # j /\ v[i].id = v[j].id => v[i].number # v[j].number
  <2>1. \A i \in 1 .. Len(v) : v[i].number \in Nat /\ v[i].id \in Int
    <3>1. \A i \in 1 .. Len(v) : v[i] \in Command
      BY <1>4
    <3>2. \A d \in Command : d.id \in Int /\ d.number \in Nat
      BY IdsAreIntegers DEF Command
    <3>. QED
      BY <3>1, <3>2
  <2>2. \A i, j \in 1 .. Len(v) :
          i < j => v[i].id < v[j].id \/ (v[i].id = v[j].id /\ v[i].number < v[j].number)
    BY <1>2 DEF VectorInv, Sorted
  <2>3. \A i, j \in 1 .. Len(v) :
          i < j /\ v[i].id = v[j].id => v[i].number # v[j].number
    BY <2>1, <2>2
  <2>4. \A i, j \in 1 .. Len(v) : i # j => i < j \/ j < i
    BY <1>1, <1>4
  <2>5. ASSUME NEW i \in 1 .. Len(v), NEW j \in 1 .. Len(v), i # j, v[i].id = v[j].id
        PROVE  v[i].number # v[j].number
    BY <2>3, <2>4, <2>5
  <2>. QED
    BY <2>1, <2>5
<1>10. IdsOf(v) = Registered \union {id}
  <2>1. IdsOf(v) \subseteq Registered \union {id}
    BY <1>3, <1>4, <1>6, <1>7 DEF IdsOf, Registered
  <2>2. Registered \subseteq IdsOf(v)
    BY <1>4, <1>5 DEF IdsOf, Registered
  <2>3. id \in IdsOf(v)
    BY <1>1, <1>3, <1>4, <1>7 DEF IdsOf
  <2>. QED
    BY <2>1, <2>2, <2>3
<1>11. LatestOf(v)[id] = [is_group |-> is_group, number |-> n + 1]
  <2>1. IsLatest(v, at)
    <3>. SUFFICES ASSUME NEW j \in 1 .. Len(v) PROVE v[j].number <= v[at].number
      BY DEF IsLatest
    <3>1. CASE j = at
      BY <1>1, <1>3, <1>7, <3>1
    <3>2. CASE j # at
      BY <1>1, <1>3, <1>4, <1>6, <1>7, <3>2
    <3>. QED
      BY <3>1, <3>2
  <2>2. at \in 1 .. Len(v) /\ Len(v) \in Nat
    BY <1>1, <1>4
  <2>3. LatestOf(v)[v[at].id] = Entered(v[at])
    BY <2>1, <2>2, <1>9, OneLatest
  <2>. QED
    BY <2>3, <1>3, <1>7 DEF Entered
<1>12. ASSUME NEW other \in Registered, other # id
       PROVE  LatestOf(v)[other] = Latest[other]
  <2>1. PICK p \in 1 .. n : commands[p].id = other /\ IsLatest(commands, p)
    BY LatestExists
  <2>2. Latest[other] = Entered(commands[p])
    BY <2>1, NumbersDiffer, OneLatest, LatestIsLatestOf
  <2>3. PICK q \in 1 .. n + 1 : v[q] = commands[p]
    BY <1>5
  <2>4. IsLatest(v, q)
    <3>. SUFFICES ASSUME NEW j \in 1 .. n + 1, v[j].id = other
                  PROVE  v[j].number <= v[q].number
      BY <1>4, <2>1, <2>3 DEF IsLatest
    <3>1. j # at
      BY <1>3, <1>7, <1>12
    <3>2. PICK i \in 1 .. n : v[j] = commands[i]
      BY <1>6, <3>1
    <3>. QED
      BY <2>1, <2>3, <3>2 DEF IsLatest
  <2>5. q \in 1 .. Len(v) /\ Len(v) \in Nat
    BY <1>1, <1>4
  <2>6. LatestOf(v)[v[q].id] = Entered(v[q])
    BY <2>4, <2>5, <1>9, OneLatest
  <2>. QED
    BY <2>1, <2>2, <2>3, <2>6
<1>13. LatestOf(v) = [i \in Registered \union {id} |->
                        IF i = id THEN [is_group |-> is_group, number |-> n + 1]
                                  ELSE Latest[i]]
  <2>1. LatestOf(v) = [i \in IdsOf(v) |-> LatestOf(v)[i]]
    BY DEF LatestOf
  <2>. QED
    BY <2>1, <1>10, <1>11, <1>12
<1>14. Latest' = LatestOf(v) /\ DOMAIN Latest = Registered
  BY <1>2 DEF Latest, LatestOf, Registered, IdsOf
<1>. QED
  BY <1>8, <1>13, <1>14, NewestIsLength DEF Map!Register

(* Whatever add_command is called with, the vector and its insertions are  *)
(* the map of the latest command of each id that command-target.h leads    *)
(* its client to expect: no registration loses or reorders another.        *)
THEOREM VectorImplementsMap == Spec => ImplementsMap
<1>. DEFINE MapInv == VectorInv /\ HasNewest
<1>1. Init => MapInv /\ Map!Init
  <2>. SUFFICES ASSUME Init PROVE MapInv /\ Map!Init
    OBVIOUS
  <2>1. commands = <<>> /\ Registered = {}
    BY DEF Init, Registered
  <2>. QED
    BY <2>1, VectorInit DEF HasNewest, Map!Init, Latest
<1>2. MapInv /\ [Next]_vars => HasNewest' /\ [Map!Next]_Latest
  <2>. SUFFICES ASSUME MapInv, [Next]_vars PROVE HasNewest' /\ [Map!Next]_Latest
    OBVIOUS
  <2>1. ASSUME NEW id \in Ids, NEW is_group \in BOOLEAN, AddCommand(id, is_group)
        PROVE  HasNewest' /\ Map!Next
    BY <2>1, AddRegisters DEF Map!Next
  <2>2. CASE UNCHANGED commands
    BY <2>2 DEF HasNewest, Latest, Registered
  <2>3. (\A id \in Ids, is_group \in BOOLEAN : ~AddCommand(id, is_group))
          => UNCHANGED commands
    BY DEF Next, Exec, QueryStatus, GiveUp, AnswerState, AnswerName, RefuseName,
           ThrowFromName, vars
  <2>. QED
    BY <2>1, <2>2, <2>3
<1>3. MapInv /\ [Next]_vars => MapInv'
  BY <1>2, VectorStep
<1>. QED
  BY <1>1, <1>2, <1>3, PTL DEF Spec, ImplementsMap, Map!Spec
==============================================================================
