--------------------- MODULE EnvironmentVariablesProofs ----------------------
(* Theorems about EnvironmentVariables, for any number of names, any length *)
(* of values, any texts and sizes, and any number of changes.              *)
EXTENDS EnvironmentVariables, FiniteSetTheorems, WellFoundedInduction, TLAPS

(***************************************************************************)
(* Types, but for the sums of GetEnvironmentStringsW and the sign of heap:  *)
(* those follow at the end, from what the passes and the heap keep.         *)
(***************************************************************************)
TypeInv ==
    /\ failing \in BOOLEAN
    /\ EnvironmentList \in [Names -> Values \cup {Absent}]
    /\ registry \in [Keys -> [Names -> Data \cup {Absent, Other}]]
    /\ heap \in Int
    /\ pc \in {"Idle", "Query", "Read", "Answered", "Expand", "Measure", "Fill", "Held"}
    /\ op \in {"Get", "Strings", "Expand", "ExpandSize", "ExpandCopy"}
    /\ name \in Names /\ nSize \in Nat /\ key \in Keys /\ need \in Data \cup {0, Other}
    /\ ret \in [result : Nat, copied : Values \cup {Absent}]
    /\ rest \in Seq(Names \cup {0}) /\ space \in Nat /\ room \in Nat
    /\ filled \in Nat /\ total \in Nat /\ ValLen \in Nat /\ whole \in BOOLEAN
    /\ steady \in BOOLEAN /\ listSteady \in BOOLEAN /\ changes \in 0..MaxChanges
    /\ inForce \subseteq Values \cup {Absent}
    /\ past \in [Looks -> SUBSET (Values \cup {Absent})] /\ missed \in BOOLEAN

(* Who is where; and what an expansion knows of the reading it waits for.  *)
PlaceOK ==
    /\ pc = "Answered" => op \in {"ExpandSize", "ExpandCopy"}
    /\ pc = "Expand" => op \in {"Expand", "ExpandSize", "ExpandCopy"}
    /\ pc \in {"Query", "Read"} => op \in {"Get", "ExpandSize", "ExpandCopy"}
    /\ pc \in {"Measure", "Fill", "Held"} => op = "Strings"
    /\ pc \in {"Query", "Read", "Answered"} /\ op # "Get" =>
        /\ rest # <<>> /\ name = Head(rest)
        /\ op = "ExpandSize" => nSize = 0
        /\ op = "ExpandCopy" => nSize = room /\ ValLen \in 1..room

EnvTypes == TypeInv /\ PlaceOK

(* A look gives a value or none; and the value in force, look by look.     *)
LEMMA GivesType ==
  ASSUME EnvironmentAssumption, NEW list \in [Names -> Values \cup {Absent}],
         NEW reg \in [Keys -> [Names -> Data \cup {Absent, Other}]], NEW n \in Names
  PROVE  \A l \in Looks : Gives(list, reg, l, n) \in Values \cup {Absent}
  BY DEF EnvironmentAssumption, Gives, Looks, Values, Data, Keys

LEMMA InForceIs ==
  ASSUME EnvironmentAssumption, NEW list, NEW reg, NEW n
  PROVE  InForce(list, reg, n) = IF list[n] # Absent THEN list[n]
                                 ELSE IF reg[1][n] \in Data THEN reg[1][n] - 1
                                 ELSE IF reg[2][n] \in Data THEN reg[2][n] - 1
                                 ELSE Absent
<1> DEFINE g == [l \in Looks |-> Gives(list, reg, l, n)]
<1>1. g[0] = Gives(list, reg, 0, n) /\ g[1] = Gives(list, reg, 1, n) /\ g[2] = Gives(list, reg, 2, n)
  BY DEF Looks
<1>2. InForce(list, reg, n) = FirstOf(g)
  BY DEF InForce
<1> HIDE DEF g
<1>3. /\ g[0] = list[n]
      /\ g[1] = IF reg[1][n] \in Data THEN reg[1][n] - 1 ELSE Absent
      /\ g[2] = IF reg[2][n] \in Data THEN reg[2][n] - 1 ELSE Absent
  BY <1>1 DEF Gives
<1>4. \A d \in Data : d - 1 # Absent
  BY DEF Data, Values, EnvironmentAssumption
<1> QED  BY <1>2, <1>3, <1>4 DEF FirstOf

LEMMA InForceType ==
  ASSUME EnvironmentAssumption, NEW list \in [Names -> Values \cup {Absent}],
         NEW reg \in [Keys -> [Names -> Data \cup {Absent, Other}]], NEW n \in Names
  PROVE  InForce(list, reg, n) \in Values \cup {Absent}
  BY InForceIs DEF EnvironmentAssumption, Values, Data, Keys

LEMMA AnswerType ==
  ASSUME EnvironmentAssumption, NEW v \in Values, NEW size \in Nat
  PROVE  AnswerOf(v, size) \in [result : Nat, copied : Values \cup {Absent}]
  BY DEF EnvironmentAssumption, AnswerOf, Values

LEMMA NoAnswerType ==
  NoAnswer \in [result : Nat, copied : Values \cup {Absent}]
  BY DEF NoAnswer

LEMMA NoPast == [l \in Looks |-> {}] \in [Looks -> SUBSET (Values \cup {Absent})]
  OBVIOUS

LEMMA InitTypes == ASSUME EnvironmentAssumption PROVE Init => EnvTypes
<1> SUFFICES ASSUME Init PROVE EnvTypes
  OBVIOUS
<1>1. past \in [Looks -> SUBSET (Values \cup {Absent})]
  BY NoPast, Zenon DEF Init
<1>2. registry \in [Keys -> [Names -> Data \cup {Absent, Other}]]
  BY DEF Init, EnvironmentAssumption
<1>3. 1 \in Names /\ 0 \in 0..MaxChanges
  BY DEF Names, EnvironmentAssumption
<1>4. <<>> \in Seq(Names \cup {0})
  OBVIOUS
<1>5. EnvironmentList \in [Names -> Values \cup {Absent}] /\ inForce \subseteq Values \cup {Absent}
  BY DEF Init
<1>6. ret \in [result : Nat, copied : Values \cup {Absent}]
  BY NoAnswerType, Zenon DEF Init
<1>7. /\ failing \in BOOLEAN /\ heap = 0 /\ pc = "Idle" /\ op = "Strings"
      /\ name = 1 /\ nSize = 0 /\ key = 1 /\ need = 0
      /\ rest = <<>> /\ space = 0 /\ room = 0 /\ filled = 0 /\ total = 0
      /\ ValLen = 0 /\ whole = TRUE /\ index = 0 /\ TotalBytes = 0 /\ Dst = 0
      /\ steady = TRUE /\ listSteady = TRUE /\ changes = 0 /\ missed = FALSE
  BY Zenon DEF Init
<1>8. TypeInv
  <2>1. /\ heap \in Int /\ nSize \in Nat /\ key \in Keys /\ need \in Data \cup {0, Other}
        /\ space \in Nat /\ room \in Nat /\ filled \in Nat /\ total \in Nat /\ ValLen \in Nat
    BY <1>7 DEF Keys
  <2>2. /\ pc \in {"Idle", "Query", "Read", "Answered", "Expand", "Measure", "Fill", "Held"}
        /\ op \in {"Get", "Strings", "Expand", "ExpandSize", "ExpandCopy"}
    BY <1>7
  <2> QED
  BY <1>1, <1>2, <1>3, <1>4, <1>5, <1>6, <1>7, <2>1, <2>2, Zenon DEF TypeInv
<1> QED
  BY <1>7, <1>8 DEF EnvTypes, PlaceOK

(* The first look of a reading, and the answers it can end with.           *)
LEMMA LookAtListTypes ==
  ASSUME EnvironmentAssumption, TypeInv, NEW n \in Names, NEW size \in Nat, NEW for,
         LookAtList(n, size, for)
  PROVE  /\ name' = n /\ nSize' = size /\ op' = for /\ key' \in Keys /\ need' = 0
         /\ ret' \in [result : Nat, copied : Values \cup {Absent}]
         /\ pc' \in {"Query", IF for = "Get" THEN "Idle" ELSE "Answered"}
<1>1. CASE EnvironmentList[n] # Absent
  <2>1. EnvironmentList[n] \in Values
    BY <1>1 DEF TypeInv
  <2> QED  BY <1>1, <2>1, AnswerType DEF LookAtList, Returns, Keys
<1>2. CASE EnvironmentList[n] = Absent
  BY <1>2, NoAnswerType DEF LookAtList, Keys
<1> QED  BY <1>1, <1>2

LEMMA NextKeyTypes ==
  ASSUME TypeInv, NextKey
  PROVE  /\ key' \in Keys /\ need' = 0
         /\ ret' \in [result : Nat, copied : Values \cup {Absent}]
         /\ pc' \in {"Query", IF op = "Get" THEN "Idle" ELSE "Answered"}
  BY NoAnswerType DEF TypeInv, NextKey, Returns, Keys

LEMMA GetTypes ==
  ASSUME EnvironmentAssumption, EnvTypes, NEW n \in Names, NEW size \in Sizes,
         GetEnvironmentVariableW(n, size)
  PROVE  EnvTypes'
<1>1. size \in Nat
  BY DEF EnvironmentAssumption
<1>2. /\ inForce' \subseteq Values \cup {Absent}
      /\ past' \in [Looks -> SUBSET (Values \cup {Absent})] /\ missed' \in BOOLEAN
  BY InForceType, GivesType DEF GetEnvironmentVariableW, EnvTypes, TypeInv
<1>3. /\ name' = n /\ nSize' = size /\ op' = "Get" /\ key' \in Keys /\ need' = 0
      /\ ret' \in [result : Nat, copied : Values \cup {Absent}] /\ pc' \in {"Query", "Idle"}
  BY <1>1, LookAtListTypes DEF GetEnvironmentVariableW, EnvTypes
<1> QED
  BY <1>1, <1>2, <1>3 DEF GetEnvironmentVariableW, ForgetExpand, ForgetStrings, EnvTypes, TypeInv,
       PlaceOK, EnvironmentAssumption

LEMMA QueryKeyTypes ==
  ASSUME EnvironmentAssumption, EnvTypes, QueryKey
  PROVE  EnvTypes'
<1>1. CASE pc' = "Read" /\ need' = registry[key][name] /\ heap' = heap + 1 /\ registry[key][name] # Absent
           /\ UNCHANGED <<key, ret, steady, missed>>
  BY <1>1 DEF QueryKey, Untouched, expand, EnvTypes, TypeInv, PlaceOK
<1>2. CASE NextKey /\ UNCHANGED heap /\ (UNCHANGED <<steady, missed>> \/ Misses)
  <2>1. /\ key' \in Keys /\ need' = 0
        /\ ret' \in [result : Nat, copied : Values \cup {Absent}]
        /\ pc' \in {"Query", IF op = "Get" THEN "Idle" ELSE "Answered"}
    BY <1>2, NextKeyTypes DEF EnvTypes
  <2>2. steady' \in BOOLEAN /\ missed' \in BOOLEAN
    BY <1>2 DEF Misses, EnvTypes, TypeInv
  <2> QED  BY <1>2, <2>1, <2>2 DEF QueryKey, Untouched, expand, EnvTypes, TypeInv, PlaceOK
<1> QED  BY <1>1, <1>2 DEF QueryKey

LEMMA ReadKeyTypes ==
  ASSUME EnvironmentAssumption, EnvTypes, ReadKey
  PROVE  EnvTypes'
<1>1. /\ key' \in Keys /\ need' = 0
      /\ ret' \in [result : Nat, copied : Values \cup {Absent}]
      /\ pc' \in {"Query", IF op = "Get" THEN "Idle" ELSE "Answered"}
  <2>1. CASE NextKey
    BY <2>1, NextKeyTypes DEF EnvTypes
  <2>2. CASE /\ Fits(registry[key][name])
             /\ Returns(AnswerOf(registry[key][name] - 1, nSize), op)
    <3>1. registry[key][name] \in Data
      BY <2>2 DEF Fits
    <3>2. registry[key][name] - 1 \in Values /\ nSize \in Nat
      BY <3>1 DEF Data, Values, EnvironmentAssumption, EnvTypes, TypeInv
    <3> QED  BY <2>2, <3>2, AnswerType DEF Returns, Keys
  <2> QED  BY <2>1, <2>2 DEF ReadKey
<1>2. steady' \in BOOLEAN /\ missed' \in BOOLEAN
  BY DEF ReadKey, Misses, EnvTypes, TypeInv
<1> QED  BY <1>1, <1>2 DEF ReadKey, Untouched, expand, EnvTypes, TypeInv, PlaceOK

LEMMA EntryPartsCount == Cardinality(EntryParts) = 3 /\ IsFiniteSet(EntryParts)
<1>1. IsFiniteSet({"Entry"}) /\ Cardinality({"Entry"}) = 1
  BY FS_Singleton
<1>2. IsFiniteSet({"Entry"} \cup {"Name"}) /\ Cardinality({"Entry"} \cup {"Name"}) = 2
  BY <1>1, FS_AddElement
<1>3. /\ IsFiniteSet(({"Entry"} \cup {"Name"}) \cup {"Value"})
      /\ Cardinality(({"Entry"} \cup {"Name"}) \cup {"Value"}) = 3
  BY <1>2, FS_AddElement
<1>4. EntryParts = ({"Entry"} \cup {"Name"}) \cup {"Value"}
  BY DEF EntryParts
<1> QED  BY <1>3, <1>4

(* The parts a refused entry had got, taken back.                          *)
LEMMA RefusedEntry ==
  ASSUME NEW got \in {{}, {"Entry"}, {"Entry", "Name"}, {"Entry", "Value"}}
  PROVE  heap \in Int => heap + Cardinality(got) - Cardinality(TakenBack(got)) = heap
<1>1. IsFiniteSet(got)
  BY EntryPartsCount, FS_Subset, got \subseteq EntryParts DEF EntryParts
<1>2. Cardinality(got) \in Nat
  BY <1>1, FS_CardinalityType
<1> QED  BY <1>2 DEF TakenBack

(* What a change adds to the history of a reading.                         *)
LEMMA ChangedTypes ==
  ASSUME EnvironmentAssumption, TypeInv, NEW list \in [Names -> Values \cup {Absent}],
         NEW reg \in [Keys -> [Names -> Data \cup {Absent, Other}]], Changed(list, reg),
         Between \/ changes < MaxChanges
  PROVE  /\ inForce' \subseteq Values \cup {Absent} /\ changes' \in 0..MaxChanges
         /\ past' \in [Looks -> SUBSET (Values \cup {Absent})] /\ missed' \in BOOLEAN
<1>1. InForce(list, reg, name) \in Values \cup {Absent}
  BY InForceType DEF TypeInv
<1>2. \A l \in Looks : Gives(list, reg, l, name) \in Values \cup {Absent}
  BY GivesType DEF TypeInv
<1>3. changes' \in 0..MaxChanges
  BY DEF Changed, TypeInv, EnvironmentAssumption
<1>4. past' \in [Looks -> SUBSET (Values \cup {Absent})]
  BY <1>2 DEF Changed, TypeInv
<1> QED  BY <1>1, <1>3, <1>4 DEF Changed, TypeInv

LEMMA SetTypes ==
  ASSUME EnvironmentAssumption, EnvTypes, NEW n \in Names, NEW value \in Values \cup {Absent},
         SetEnvironmentVariableW(n, value)
  PROVE  EnvTypes'
<1>1. EnvironmentList' \in [Names -> Values \cup {Absent}]
  BY DEF SetEnvironmentVariableW, EnvTypes, TypeInv
<1>2. heap' \in Int
  <2>1. ASSUME NEW got \in {{}, {"Entry"}, {"Entry", "Name"}, {"Entry", "Value"}},
               heap' = heap + Cardinality(got) - Cardinality(TakenBack(got))
        PROVE  heap' \in Int
    BY <2>1, RefusedEntry DEF EnvTypes, TypeInv
  <2> QED  BY <2>1, EntryPartsCount DEF SetEnvironmentVariableW, EnvTypes, TypeInv
<1>3. /\ inForce' \subseteq Values \cup {Absent} /\ changes' \in 0..MaxChanges
      /\ past' \in [Looks -> SUBSET (Values \cup {Absent})] /\ missed' \in BOOLEAN
  BY <1>1, ChangedTypes DEF SetEnvironmentVariableW, EnvTypes, TypeInv
<1>4. listSteady' \in BOOLEAN
  BY DEF SetEnvironmentVariableW
<1> QED
  BY <1>1, <1>2, <1>3, <1>4
  DEF SetEnvironmentVariableW, get, expand, strings, EnvTypes, TypeInv, PlaceOK

LEMMA RegistryTypes ==
  ASSUME EnvironmentAssumption, EnvTypes, NEW k \in Keys, NEW n \in Names,
         NEW datum \in Data \cup {Absent, Other}, ZwSetValueKey(k, n, datum)
  PROVE  EnvTypes'
<1>1. registry' \in [Keys -> [Names -> Data \cup {Absent, Other}]]
  BY DEF ZwSetValueKey, EnvTypes, TypeInv
<1>2. /\ inForce' \subseteq Values \cup {Absent} /\ changes' \in 0..MaxChanges
      /\ past' \in [Looks -> SUBSET (Values \cup {Absent})] /\ missed' \in BOOLEAN
  BY <1>1, ChangedTypes DEF ZwSetValueKey, EnvTypes, TypeInv
<1>3. steady' \in BOOLEAN
  BY DEF ZwSetValueKey
<1> QED
  BY <1>1, <1>2, <1>3 DEF ZwSetValueKey, get, expand, strings, EnvTypes, TypeInv, PlaceOK

(* The steps of an expansion.                                              *)
LEMMA ExpandTypes ==
  ASSUME EnvironmentAssumption, EnvTypes, NEW text \in Sources, NEW size \in Sizes,
         ExpandEnvironmentStringsW(text, size)
  PROVE  EnvTypes'
<1>1. text \in Seq(Names \cup {0}) /\ size \in Nat
  BY DEF EnvironmentAssumption
<1>2. /\ inForce' \subseteq Values \cup {Absent} /\ missed' \in BOOLEAN
      /\ past' \in [Looks -> SUBSET (Values \cup {Absent})]
  BY NoPast, Zenon DEF ExpandEnvironmentStringsW, NotWatched
<1> QED
  BY <1>1, <1>2, NoAnswerType DEF ExpandEnvironmentStringsW, ForgetGet, ForgetStrings, EnvTypes, TypeInv,
       PlaceOK, EnvironmentAssumption, Names, Keys

LEMMA ExpandCharacterTypes ==
  ASSUME EnvTypes, ExpandCharacter PROVE EnvTypes'
<1>1. rest' \in Seq(Names \cup {0})
  BY DEF ExpandCharacter, EnvTypes, TypeInv
<1>2. total' \in Nat /\ filled' \in Nat /\ room' \in Nat
  BY DEF ExpandCharacter, EnvTypes, TypeInv
<1> QED
  BY <1>1, <1>2, SMTT(30) DEF ExpandCharacter, get, strings, history, EnvTypes, TypeInv, PlaceOK

LEMMA FirstOfRest ==
  ASSUME TypeInv, rest # <<>>
  PROVE  Head(rest) \in Names \cup {0} /\ Tail(rest) \in Seq(Names \cup {0})
  BY DEF TypeInv

LEMMA ExpandReferenceTypes ==
  ASSUME EnvironmentAssumption, EnvTypes, ExpandReference PROVE EnvTypes'
<1>1. Head(rest) \in Names
  BY FirstOfRest DEF ExpandReference, EnvTypes
<1>2. /\ name' = Head(rest) /\ nSize' = 0 /\ op' = "ExpandSize" /\ key' \in Keys /\ need' = 0
      /\ ret' \in [result : Nat, copied : Values \cup {Absent}] /\ pc' \in {"Query", "Answered"}
  BY <1>1, LookAtListTypes DEF ExpandReference, EnvTypes
<1> QED
  BY <1>1, <1>2 DEF ExpandReference, expand, strings, history, EnvTypes, TypeInv, PlaceOK

LEMMA ExpandSizedTypes ==
  ASSUME EnvironmentAssumption, EnvTypes, ExpandSized PROVE EnvTypes'
<1>1. /\ rest # <<>> /\ Head(rest) \in Names /\ Tail(rest) \in Seq(Names \cup {0})
      /\ ret.result \in Nat
  BY FirstOfRest DEF ExpandSized, EnvTypes, TypeInv, PlaceOK
<1>2. CASE pc' = "Expand" /\ rest' = Tail(rest) /\ UNCHANGED <<op, get, ValLen>>
           /\ room' \in Nat /\ total' \in Nat
  BY <1>1, <1>2 DEF ExpandSized, get, strings, history, EnvTypes, TypeInv, PlaceOK
<1>3. CASE ret.result \in 1..room /\ ValLen' = ret.result
           /\ LookAtList(Head(rest), room, "ExpandCopy") /\ UNCHANGED <<rest, room, total>>
  <2>1. /\ name' = Head(rest) /\ nSize' = room /\ op' = "ExpandCopy" /\ key' \in Keys /\ need' = 0
        /\ ret' \in [result : Nat, copied : Values \cup {Absent}] /\ pc' \in {"Query", "Answered"}
    BY <1>1, <1>3, LookAtListTypes DEF EnvTypes, TypeInv
  <2> QED  BY <1>1, <1>3, <2>1 DEF ExpandSized, strings, history, EnvTypes, TypeInv, PlaceOK
<1> QED
  BY <1>1, <1>2, <1>3, SMTT(40) DEF ExpandSized, EnvTypes, TypeInv

LEMMA ExpandCopiedTypes ==
  ASSUME EnvTypes, ExpandCopied PROVE EnvTypes'
<1>1. rest # <<>> /\ Tail(rest) \in Seq(Names \cup {0}) /\ ValLen \in 1..room /\ room \in Nat
  BY FirstOfRest DEF ExpandCopied, EnvTypes, TypeInv, PlaceOK
<1>2. /\ filled' = filled + (ValLen - 1) /\ room' = room - (ValLen - 1)
      /\ total' = total + ValLen - 1 /\ filled \in Nat /\ total \in Nat
  BY DEF ExpandCopied, Advance, EnvTypes, TypeInv
<1>3. filled' \in Nat /\ room' \in Nat /\ total' \in Nat
  BY <1>1, <1>2
<1> QED
  BY <1>1, <1>3 DEF ExpandCopied, get, strings, history, EnvTypes, TypeInv, PlaceOK

LEMMA ExpandReturnTypes ==
  ASSUME EnvTypes, ExpandReturn PROVE EnvTypes'
<1>1. ret' \in [result : Nat, copied : Values \cup {Absent}]
  BY DEF ExpandReturn, EnvTypes, TypeInv
<1> QED
  BY <1>1 DEF ExpandReturn, expand, strings, history, EnvTypes, TypeInv, PlaceOK

(* The steps of a copy of the environment.                                 *)
LEMMA StringsTypes ==
  ASSUME EnvironmentAssumption, EnvTypes,
         GetEnvironmentStringsW \/ Measure \/ Fill \/ FreeEnvironmentStringsW
  PROVE  EnvTypes'
<1>1. CASE GetEnvironmentStringsW
  <2>1. /\ inForce' \subseteq Values \cup {Absent} /\ missed' \in BOOLEAN
        /\ past' \in [Looks -> SUBSET (Values \cup {Absent})]
    BY <1>1, NoPast, Zenon DEF GetEnvironmentStringsW, NotWatched
  <2> QED
  BY <1>1, <2>1, NoAnswerType DEF GetEnvironmentStringsW, ForgetExpand, EnvTypes, TypeInv, PlaceOK,
       EnvironmentAssumption, Names, Keys
<1>2. CASE Measure
  <2>1. /\ pc' \in {"Measure", "Fill", "Held", "Idle"} /\ key' \in Keys /\ heap' \in Int
        /\ steady' \in BOOLEAN
    <3>1. CASE EndOfKey /\ (OtherKey \/ (LastKey /\ AllocateBlock))
      <4>1. pc' \in {"Measure", "Fill", "Held", "Idle"} /\ key' \in Keys /\ heap' \in Int
        BY <1>2, <3>1 DEF Measure, OtherKey, LastKey, AllocateBlock, EnvTypes, TypeInv, Keys
      <4>2. steady' \in BOOLEAN
        BY <3>1 DEF EndOfKey, EnvTypes, TypeInv
      <4> QED  BY <4>1, <4>2
    <3> QED  BY <1>2, <3>1 DEF Measure, EnvTypes, TypeInv
  <2> QED  BY <1>2, <2>1 DEF Measure, StringsUntouched, expand, EnvTypes, TypeInv, PlaceOK
<1>3. CASE Fill
  <2>1. pc' \in {"Fill", "Held"} /\ key' \in Keys /\ heap' = heap /\ steady' \in BOOLEAN
    <3>1. CASE EndOfKey /\ (OtherKey \/ (LastKey /\ pc' = "Held" /\ UNCHANGED heap))
      <4>1. pc' \in {"Fill", "Held"} /\ key' \in Keys /\ heap' = heap
        BY <1>3, <3>1 DEF Fill, OtherKey, LastKey, EnvTypes, TypeInv, Keys
      <4>2. steady' \in BOOLEAN
        BY <3>1 DEF EndOfKey, EnvTypes, TypeInv
      <4> QED  BY <4>1, <4>2
    <3> QED  BY <1>3, <3>1 DEF Fill, EnvTypes, TypeInv
  <2> QED  BY <1>3, <2>1 DEF Fill, StringsUntouched, expand, EnvTypes, TypeInv, PlaceOK
<1>4. CASE FreeEnvironmentStringsW
  BY <1>4 DEF FreeEnvironmentStringsW, get, expand, history, EnvTypes, TypeInv, PlaceOK
<1> QED  BY <1>1, <1>2, <1>3, <1>4

LEMMA NextTypes ==
  ASSUME EnvironmentAssumption PROVE EnvTypes /\ [Next]_vars => EnvTypes'
<1> SUFFICES ASSUME EnvTypes, [Next]_vars PROVE EnvTypes'
  OBVIOUS
<1>1. CASE Reader
  BY <1>1, GetTypes, QueryKeyTypes, ReadKeyTypes, ExpandTypes, ExpandCharacterTypes,
     ExpandReferenceTypes, ExpandSizedTypes, ExpandCopiedTypes, ExpandReturnTypes, StringsTypes
  DEF Reader
<1>2. CASE Others
  <2>1. ASSUME NEW place \in Places PROVE place[1] \in Keys /\ place[2] \in Names
    BY <2>1 DEF EnvironmentAssumption
  <2> QED  BY <1>2, <2>1, SetTypes, RegistryTypes DEF Others
<1>3. CASE UNCHANGED vars
  BY <1>3 DEF vars, get, expand, strings, history, EnvTypes, TypeInv, PlaceOK
<1> QED  BY <1>1, <1>2, <1>3 DEF Next

(* The constants, the types and every place of the model are consistent.   *)
THEOREM EnvTypesCorrect == ASSUME EnvironmentAssumption PROVE Spec => []EnvTypes
<1>1. Init => EnvTypes
  BY InitTypes
<1>2. EnvTypes /\ [Next]_vars => EnvTypes'
  BY NextTypes
<1> QED  BY <1>1, <1>2, PTL DEF Spec

(***************************************************************************)
(* The heap: three blocks for each variable on the list, and one block in  *)
(* use where a block is in use.                                            *)
(***************************************************************************)
Listed(list) == {n \in Names : list[n] # Absent}
InUse == IF pc \in {"Read", "Fill", "Held"} THEN 1 ELSE 0

LEMMA ListedFinite ==
  ASSUME EnvironmentAssumption, NEW list
  PROVE  IsFiniteSet(Listed(list)) /\ Cardinality(Listed(list)) \in Nat
<1>1. IsFiniteSet(Names)
  BY FS_Interval DEF Names, EnvironmentAssumption
<1>2. IsFiniteSet(Listed(list))
  BY <1>1, FS_Subset DEF Listed
<1> QED  BY <1>2, FS_CardinalityType

(* One variable more, or one less.                                         *)
LEMMA ListedChange ==
  ASSUME EnvironmentAssumption, NEW list \in [Names -> Values \cup {Absent}],
         NEW n \in Names, NEW value \in Values \cup {Absent}
  PROVE  Cardinality(Listed([list EXCEPT ![n] = value]))
           = Cardinality(Listed(list)) + (IF value # Absent THEN 1 ELSE 0)
                                       - (IF list[n] # Absent THEN 1 ELSE 0)
<1> DEFINE new == [list EXCEPT ![n] = value]
<1>0. IsFiniteSet(Listed(list)) /\ Cardinality(Listed(list)) \in Nat
  BY ListedFinite
<1>1. CASE value # Absent /\ list[n] # Absent
  <2>1. Listed(new) = Listed(list)
    BY <1>1 DEF Listed
  <2> QED  BY <1>0, <1>1, <2>1
<1>2. CASE value # Absent /\ list[n] = Absent
  <2>1. Listed(new) = Listed(list) \cup {n} /\ n \notin Listed(list)
    BY <1>2 DEF Listed
  <2>2. Cardinality(Listed(new)) = Cardinality(Listed(list)) + 1
    BY <1>0, <2>1, FS_AddElement
  <2> QED  BY <1>0, <1>2, <2>2
<1>3. CASE value = Absent /\ list[n] # Absent
  <2>1. Listed(new) = Listed(list) \ {n} /\ n \in Listed(list)
    BY <1>3 DEF Listed
  <2>2. Cardinality(Listed(new)) = Cardinality(Listed(list)) - 1
    BY <1>0, <2>1, FS_RemoveElement, ZenonT(60)
  <2> QED  BY <1>0, <1>3, <2>2
<1>4. CASE value = Absent /\ list[n] = Absent
  <2>1. Listed(new) = Listed(list)
    BY <1>4 DEF Listed
  <2> QED  BY <1>0, <1>4, <2>1
<1> QED  BY <1>1, <1>2, <1>3, <1>4

LEMMA BalancedIs ==
  HeapBalanced <=> heap = 3 * Cardinality(Listed(EnvironmentList)) + InUse
  BY EntryPartsCount DEF HeapBalanced, OnList, Listed, InUse

LEMMA BalancedNext ==
  HeapBalanced' <=> heap' = 3 * Cardinality(Listed(EnvironmentList')) + InUse'
  BY EntryPartsCount DEF HeapBalanced, OnList, Listed, InUse

(* A step of the reader frees what it used and accounts for what it got.   *)
LEMMA ReaderHeap ==
  ASSUME EnvTypes, Reader
  PROVE  EnvironmentList' = EnvironmentList /\ heap' - heap = InUse' - InUse
<1> USE DEF EnvTypes, TypeInv, PlaceOK
<1>1. ASSUME NEW n \in Names, NEW size \in Sizes, GetEnvironmentVariableW(n, size)
      PROVE  EnvironmentList' = EnvironmentList /\ heap' - heap = InUse' - InUse
  BY <1>1 DEF GetEnvironmentVariableW, LookAtList, Returns, InUse
<1>2. CASE QueryKey
  <2>1. CASE NextKey /\ UNCHANGED heap
    BY <1>2, <2>1 DEF QueryKey, NextKey, Returns, Untouched, InUse
  <2>2. CASE pc' = "Read" /\ heap' = heap + 1
    BY <1>2, <2>2 DEF QueryKey, Untouched, InUse
  <2> QED  BY <1>2, <2>1, <2>2 DEF QueryKey
<1>3. CASE ReadKey
  <2>1. pc' \notin {"Read", "Fill", "Held"}
    BY <1>3 DEF ReadKey, NextKey, Returns
  <2> QED  BY <1>3, <2>1 DEF ReadKey, Untouched, InUse
<1>4. ASSUME NEW text \in Sources, NEW size \in Sizes, ExpandEnvironmentStringsW(text, size)
      PROVE  EnvironmentList' = EnvironmentList /\ heap' - heap = InUse' - InUse
  BY <1>4 DEF ExpandEnvironmentStringsW, InUse
<1>5. CASE ExpandCharacter \/ ExpandReference \/ ExpandSized \/ ExpandCopied \/ ExpandReturn
  <2>1. pc \in {"Expand", "Answered"} /\ UNCHANGED <<EnvironmentList, heap>>
    BY <1>5 DEF ExpandCharacter, ExpandReference, ExpandSized, ExpandCopied, ExpandReturn
  <2>2. pc' \notin {"Read", "Fill", "Held"}
    BY <1>5 DEF ExpandCharacter, ExpandReference, ExpandSized, ExpandCopied, ExpandReturn,
         LookAtList, Returns
  <2> QED  BY <2>1, <2>2 DEF InUse
<1>6. CASE GetEnvironmentStringsW
  BY <1>6 DEF GetEnvironmentStringsW, InUse
<1>7. CASE Measure
  BY <1>7 DEF Measure, OtherKey, LastKey, AllocateBlock, StringsUntouched, InUse
<1>8. CASE Fill
  BY <1>8 DEF Fill, OtherKey, LastKey, StringsUntouched, InUse
<1>9. CASE FreeEnvironmentStringsW
  BY <1>9 DEF FreeEnvironmentStringsW, InUse
<1> QED  BY <1>1, <1>2, <1>3, <1>4, <1>5, <1>6, <1>7, <1>8, <1>9 DEF Reader

LEMMA SetHeap ==
  ASSUME EnvironmentAssumption, EnvTypes, HeapBalanced, NEW n \in Names,
         NEW value \in Values \cup {Absent}, SetEnvironmentVariableW(n, value)
  PROVE  HeapBalanced'
<1>1. heap = 3 * Cardinality(Listed(EnvironmentList)) + InUse /\ InUse' = InUse /\ InUse \in {0, 1}
  BY BalancedIs DEF SetEnvironmentVariableW, InUse
<1>2. Cardinality(Listed(EnvironmentList)) \in Nat /\ heap \in Int
  BY ListedFinite DEF EnvTypes, TypeInv
<1>3. EnvironmentList \in [Names -> Values \cup {Absent}]
  BY DEF EnvTypes, TypeInv
<1>4. Cardinality(Listed([EnvironmentList EXCEPT ![n] = value]))
        = Cardinality(Listed(EnvironmentList)) + (IF value # Absent THEN 1 ELSE 0)
                                       - (IF EnvironmentList[n] # Absent THEN 1 ELSE 0)
  BY <1>3, ListedChange
<1>5. CASE value = Absent /\ EnvironmentList[n] # Absent /\ heap' = heap - 3
           /\ EnvironmentList' = [EnvironmentList EXCEPT ![n] = Absent]
  BY <1>1, <1>2, <1>4, <1>5, BalancedNext
<1>6. CASE value # Absent /\ EnvironmentList[n] # Absent /\ heap' = heap
           /\ EnvironmentList' = [EnvironmentList EXCEPT ![n] = value]
  BY <1>1, <1>2, <1>4, <1>6, BalancedNext
<1>7. CASE value # Absent /\ EnvironmentList[n] = Absent /\ heap' = heap + 3
           /\ EnvironmentList' = [EnvironmentList EXCEPT ![n] = value]
  BY <1>1, <1>2, <1>4, <1>7, BalancedNext
<1>8. CASE heap' = heap /\ EnvironmentList' = EnvironmentList
  BY <1>1, <1>8, BalancedNext
<1>9. \/ value = Absent /\ EnvironmentList[n] # Absent /\ heap' = heap - 3
            /\ EnvironmentList' = [EnvironmentList EXCEPT ![n] = Absent]
      \/ value # Absent /\ EnvironmentList[n] # Absent /\ heap' = heap
            /\ EnvironmentList' = [EnvironmentList EXCEPT ![n] = value]
      \/ value # Absent /\ EnvironmentList[n] = Absent /\ heap' = heap + 3
            /\ EnvironmentList' = [EnvironmentList EXCEPT ![n] = value]
      \/ heap' = heap /\ EnvironmentList' = EnvironmentList
  <2>1. ASSUME NEW got \in {{}, {"Entry"}, {"Entry", "Name"}, {"Entry", "Value"}},
               heap' = heap + Cardinality(got) - Cardinality(TakenBack(got))
        PROVE  heap' = heap
    BY <1>2, <2>1, RefusedEntry
  <2> QED  BY <2>1, EntryPartsCount DEF SetEnvironmentVariableW
<1> QED  BY <1>5, <1>6, <1>7, <1>8, <1>9

(* No path of the code leaks a block of the process heap or frees one      *)
(* twice: setting, reading, expanding or copying variables, whatever       *)
(* allocation or registry call fails and whoever changes them meanwhile.   *)
THEOREM HeapIsBalanced == ASSUME EnvironmentAssumption PROVE Spec => []HeapBalanced
<1>1. Init => HeapBalanced
  <2> SUFFICES ASSUME Init PROVE HeapBalanced
    OBVIOUS
  <2>1. Listed(EnvironmentList) = {}
    BY DEF Init, Listed
  <2>2. Cardinality(Listed(EnvironmentList)) = 0
    BY <2>1, FS_EmptySet
  <2> QED  BY <2>2, BalancedIs DEF Init, InUse
<1>2. EnvTypes /\ HeapBalanced /\ [Next]_vars => HeapBalanced'
  <2> SUFFICES ASSUME EnvTypes, HeapBalanced, [Next]_vars PROVE HeapBalanced'
    OBVIOUS
  <2>1. CASE Reader
    <3>1. EnvironmentList' = EnvironmentList /\ heap' - heap = InUse' - InUse
      BY <2>1, ReaderHeap
    <3>2. heap = 3 * Cardinality(Listed(EnvironmentList)) + InUse
      BY BalancedIs
    <3>3. heap' \in Int /\ Cardinality(Listed(EnvironmentList)) \in Nat
      BY NextTypes, ListedFinite DEF EnvTypes, TypeInv
    <3>4. InUse \in {0, 1} /\ InUse' \in {0, 1}
      BY DEF InUse
    <3> QED  BY <3>1, <3>2, <3>3, <3>4, BalancedNext, SMTT(40)
  <2>2. ASSUME NEW k \in Keys, NEW n \in Names, NEW datum \in Data \cup {Absent, Other},
               ZwSetValueKey(k, n, datum)
        PROVE  HeapBalanced'
    BY <2>2, BalancedIs, BalancedNext DEF ZwSetValueKey, InUse
  <2>3. CASE Others
    <3>1. ASSUME NEW place \in Places PROVE place[1] \in Keys /\ place[2] \in Names
      BY <3>1 DEF EnvironmentAssumption
    <3> QED  BY <2>2, <2>3, <3>1, SetHeap DEF Others
  <2>4. CASE UNCHANGED vars
    BY <2>4, BalancedIs, BalancedNext DEF vars, InUse
  <2> QED  BY <2>1, <2>3, <2>4 DEF Next
<1> QED  BY <1>1, <1>2, EnvTypesCorrect, PTL DEF Spec

(***************************************************************************)
(* A reading.  While it is between its queries, its look at the list found *)
(* nothing, the key it has left had no string, and the size it holds is    *)
(* that of the value under the key it is at; all this as long as nobody    *)
(* changes what it looked at.                                              *)
(***************************************************************************)
FromRegistry(n) ==
    IF registry[1][n] \in Data THEN registry[1][n] - 1
    ELSE IF registry[2][n] \in Data THEN registry[2][n] - 1
    ELSE Absent

Reading(value, size) == IF value = Absent THEN NoAnswer ELSE AnswerOf(value, size)

LookOK ==
    pc \in {"Query", "Read"} =>
        /\ steady => /\ key = 2 => registry[1][name] \notin Data
                     /\ pc = "Read" => need = registry[key][name]
        /\ listSteady => EnvironmentList[name] = Absent

LEMMA FromRegistryType ==
  ASSUME EnvironmentAssumption, TypeInv, NEW n \in Names
  PROVE  /\ FromRegistry(n) \in Values \cup {Absent}
         /\ EnvironmentList[n] = Absent => InForce(EnvironmentList, registry, n) = FromRegistry(n)
         /\ EnvironmentList[n] # Absent => InForce(EnvironmentList, registry, n) = EnvironmentList[n]
  BY InForceIs DEF EnvironmentAssumption, TypeInv, FromRegistry, Values, Data, Keys

(* A value the first query measured and nobody changed still fits.         *)
LEMMA MeasuredFits ==
  ASSUME EnvironmentAssumption, TypeInv, need = registry[key][name]
  PROVE  ~Outgrew(registry[key][name])
<1>1. CASE need = Other
  BY <1>1 DEF Outgrew, EnvironmentAssumption
<1>2. CASE need # Other /\ need \in Data
  <2>1. need \in 1..(need + Slack)
    BY <1>2 DEF Data, EnvironmentAssumption
  <2> QED  BY <1>2, <2>1 DEF Outgrew
<1> QED  BY <1>1, <1>2 DEF Outgrew

(* One of the two ways a key gives nothing: the reading goes on with the   *)
(* other key, or says that there is no such variable.                      *)
LEMMA NothingHere ==
  ASSUME EnvironmentAssumption, EnvTypes, QueryKey \/ ReadKey, NextKey, steady' \/ ~missed'
  PROVE  registry[key][name] \notin Data /\ UNCHANGED <<steady, missed>>
<1>1. CASE QueryKey
  <2>1. registry[key][name] = Absent /\ UNCHANGED <<steady, missed>>
    BY <1>1 DEF QueryKey, Misses, NextKey, Returns
  <2> QED  BY <1>1, <2>1 DEF EnvironmentAssumption
<1>2. CASE ReadKey
  <2>1. ~ (Returns(AnswerOf(registry[key][name] - 1, nSize), op) /\ Fits(registry[key][name]))
    <3> SUFFICES ASSUME Returns(AnswerOf(registry[key][name] - 1, nSize), op),
                        Fits(registry[key][name])
                 PROVE  FALSE
      OBVIOUS
    <3>1. key = 2 /\ ret' = NoAnswer
      BY DEF Returns, NextKey
    <3>2. ret' = AnswerOf(registry[key][name] - 1, nSize)
      BY DEF Returns
    <3>3. registry[key][name] - 1 \in Values /\ nSize \in Nat
      BY DEF Fits, Data, Values, EnvironmentAssumption, EnvTypes, TypeInv
    <3>4. AnswerOf(registry[key][name] - 1, nSize) # NoAnswer
      BY <3>3 DEF AnswerOf, NoAnswer, Values, EnvironmentAssumption
    <3> QED  BY <3>1, <3>2, <3>4
  <2> QED  BY <1>2, <2>1 DEF ReadKey, Misses
<1> QED  BY <1>1, <1>2

(* What a reading ends with, if the registry did not change under it, is   *)
(* what the registry holds.                                                *)
LEMMA ReadingEnds ==
  ASSUME EnvironmentAssumption, EnvTypes, LookOK, QueryKey \/ ReadKey,
         pc' \notin {"Query", "Read"}, steady'
  PROVE  ret' = Reading(FromRegistry(name), nSize) /\ steady
<1>1. pc \in {"Query", "Read"}
  BY DEF QueryKey, ReadKey
<1>2. CASE NextKey
  <2>1. registry[key][name] \notin Data /\ steady /\ key = 2 /\ ret' = NoAnswer
    BY <1>2, NothingHere DEF NextKey, Returns
  <2>2. registry[1][name] \notin Data
    BY <1>1, <2>1 DEF LookOK
  <2> QED  BY <2>1, <2>2 DEF FromRegistry, Reading
<1>3. CASE /\ pc = "Read" /\ Fits(registry[key][name])
           /\ Returns(AnswerOf(registry[key][name] - 1, nSize), op) /\ UNCHANGED steady
  <2>1. registry[key][name] \in Data /\ ret' = AnswerOf(registry[key][name] - 1, nSize)
    BY <1>3 DEF Fits, Returns
  <2>2. key = 2 => registry[1][name] \notin Data
    BY <1>1, <1>3 DEF LookOK
  <2>3. FromRegistry(name) = registry[key][name] - 1
    BY <2>1, <2>2 DEF FromRegistry, EnvTypes, TypeInv, Keys
  <2>4. registry[key][name] - 1 # Absent
    BY <2>1 DEF Data, Values, EnvironmentAssumption
  <2> QED  BY <1>3, <2>1, <2>3, <2>4 DEF Reading
<1> QED  BY <1>2, <1>3 DEF QueryKey, ReadKey

LEMMA QueryLook ==
  ASSUME EnvironmentAssumption, EnvTypes, LookOK, QueryKey \/ ReadKey PROVE LookOK'
<1>0. /\ pc \in {"Query", "Read"}
      /\ UNCHANGED <<EnvironmentList, registry, name, op, listSteady>>
  BY DEF QueryKey, ReadKey, Untouched
<1> SUFFICES ASSUME pc' \in {"Query", "Read"} PROVE LookOK'
  BY DEF LookOK
<1>1. listSteady' => EnvironmentList'[name'] = Absent
  BY <1>0 DEF LookOK
<1>2. ASSUME steady'
      PROVE  /\ key' = 2 => registry'[1][name'] \notin Data
             /\ pc' = "Read" => need' = registry'[key'][name']
  <2>1. steady
    BY <1>2 DEF QueryKey, ReadKey, Misses
  <2>2. CASE NextKey
    <3>1. key = 1 /\ key' = 2 /\ pc' = "Query"
      BY <2>2 DEF NextKey, Returns
    <3>2. registry[1][name] \notin Data
      BY <1>2, <2>2, <3>1, NothingHere
    <3> QED  BY <1>0, <2>1, <3>1, <3>2
  <2>3. CASE pc' = "Read" /\ need' = registry[key][name] /\ UNCHANGED key
    BY <1>0, <2>1, <2>3 DEF LookOK
  <2>4. CASE Returns(AnswerOf(registry[key][name] - 1, nSize), op)
    BY <2>4 DEF Returns
  <2> QED  BY <2>2, <2>3, <2>4 DEF QueryKey, ReadKey
<1> QED  BY <1>0, <1>1, <1>2 DEF LookOK

LEMMA NextLook ==
  ASSUME EnvironmentAssumption, EnvTypes, LookOK, [Next]_vars PROVE LookOK'
<1>1. ASSUME NEW n \in Names, NEW size \in Sizes, GetEnvironmentVariableW(n, size) PROVE LookOK'
  <2>1. CASE EnvironmentList[n] # Absent
    BY <1>1, <2>1 DEF GetEnvironmentVariableW, LookAtList, Returns, LookOK
  <2>2. CASE EnvironmentList[n] = Absent
    <3>1. /\ pc' = "Query" /\ key' = 1 /\ name' = n
          /\ UNCHANGED <<EnvironmentList, registry>>
      BY <1>1, <2>2 DEF GetEnvironmentVariableW, LookAtList
    <3> QED  BY <2>2, <3>1 DEF LookOK
  <2> QED  BY <2>1, <2>2
<1>2. CASE QueryKey \/ ReadKey
  BY <1>2, QueryLook
<1>3. ASSUME NEW text \in Sources, NEW size \in Sizes, ExpandEnvironmentStringsW(text, size)
      PROVE  LookOK'
  BY <1>3 DEF ExpandEnvironmentStringsW, LookOK
<1>4. CASE ExpandCharacter \/ ExpandCopied \/ ExpandReturn
  BY <1>4 DEF ExpandCharacter, ExpandCopied, ExpandReturn, LookOK
<1>5. CASE ExpandReference \/ ExpandSized
  <2>1. CASE pc' = "Expand"
    BY <2>1 DEF LookOK
  <2>2. ASSUME NEW size, NEW for \in {"ExpandSize", "ExpandCopy"}, LookAtList(Head(rest), size, for)
        PROVE  LookOK'
    <3>1. UNCHANGED <<EnvironmentList, registry>>
      BY <1>5 DEF ExpandReference, ExpandSized
    <3>2. \/ pc' = "Answered"
          \/ /\ pc' = "Query" /\ key' = 1 /\ name' = Head(rest) /\ op' = for
             /\ EnvironmentList[Head(rest)] = Absent
      BY <2>2 DEF LookAtList, Returns
    <3> QED  BY <3>1, <3>2 DEF LookOK
  <2> QED  BY <1>5, <2>1, <2>2 DEF ExpandReference, ExpandSized
<1>6. CASE GetEnvironmentStringsW \/ Measure \/ Fill \/ FreeEnvironmentStringsW
  <2>1. pc' \in {"Held", "Idle", "Measure", "Fill"}
    BY <1>6 DEF GetEnvironmentStringsW, Measure, Fill, FreeEnvironmentStringsW, OtherKey, LastKey,
         AllocateBlock
  <2> QED  BY <2>1 DEF LookOK
<1>7. ASSUME NEW n \in Names, NEW value \in Values \cup {Absent}, SetEnvironmentVariableW(n, value)
      PROVE  LookOK'
  <2>1. /\ UNCHANGED <<pc, op, name, key, need, registry, steady>>
        /\ listSteady' => Between
    BY <1>7 DEF SetEnvironmentVariableW, get
  <2> QED  BY <2>1 DEF LookOK, Between
<1>8. ASSUME NEW k \in Keys, NEW n \in Names, NEW datum \in Data \cup {Absent, Other},
             ZwSetValueKey(k, n, datum)
      PROVE  LookOK'
  <2>1. /\ UNCHANGED <<pc, op, name, key, need, EnvironmentList, listSteady>>
        /\ steady' => Between
    BY <1>8 DEF ZwSetValueKey, get
  <2> QED  BY <2>1 DEF LookOK, Between
<1>9. CASE UNCHANGED vars
  BY <1>9 DEF vars, get, history, LookOK, FromRegistry
<1>10. ASSUME NEW place \in Places PROVE place[1] \in Keys /\ place[2] \in Names
  BY <1>10 DEF EnvironmentAssumption
<1> QED
  BY <1>1, <1>2, <1>3, <1>4, <1>5, <1>6, <1>7, <1>8, <1>9, <1>10 DEF Next, Reader, Others

(* What an answer says.                                                    *)
LEMMA AnswerSays ==
  ASSUME EnvironmentAssumption, NEW v \in Values \cup {Absent}, NEW size \in Nat,
         NEW answer, answer = Reading(v, size)
  PROVE  /\ answer.copied # Absent => answer.copied = v
         /\ answer.copied = Absent /\ answer.result > 0 => answer.result - 1 = v
         /\ answer = NoAnswer => v = Absent
         /\ v # Absent /\ size <= v => answer.result = v + 1
         /\ v # Absent /\ size > v => answer.copied = v
         /\ v = Absent => answer.result = 0
<1>1. CASE v = Absent
  BY <1>1 DEF Reading, NoAnswer
<1>2. CASE v # Absent
  <2>1. v \in Nat /\ v # Absent /\ answer = AnswerOf(v, size)
    BY <1>2 DEF Reading, Values, EnvironmentAssumption
  <2> QED  BY <2>1 DEF AnswerOf, NoAnswer
<1> QED  BY <1>1, <1>2

LEMMA ToldReading ==
  ASSUME EnvironmentAssumption, NEW v \in Values \cup {Absent}, NEW size \in Nat
  PROVE  Told(Reading(v, size)) = v
<1>1. CASE v = Absent
  BY <1>1 DEF Reading, NoAnswer, Told
<1>2. CASE v # Absent
  <2>1. v \in Nat /\ Reading(v, size) = AnswerOf(v, size)
    BY <1>2 DEF Reading, Values, EnvironmentAssumption
  <2> QED  BY <1>2, <2>1 DEF AnswerOf, Told
<1> QED  BY <1>1, <1>2

(* The history of a reading between its queries.  Each place has given what *)
(* it gives now, the list nothing, and, unless a query failed, so has a key *)
(* that was left.  And if all places but one are as they were, whatever     *)
(* that one has given made a value that was in force.                      *)
Given(l) == Gives(EnvironmentList, registry, l, name)
Mixed(l, v) == FirstOf([m \in Looks |-> IF m = l THEN v ELSE Given(m)])
Still(l) == \A v, w \in past[l] : v = w
StillBut(l) == \A m \in Looks \ {l} : Still(m)

PastOK ==
    pc \in {"Query", "Read"} /\ op = "Get" =>
        /\ \A l \in Looks : Given(l) \in past[l]
        /\ Absent \in past[0]
        /\ key = 2 /\ ~missed => Absent \in past[1]
        /\ \A l \in Looks : StillBut(l) => \A v \in past[l] : Mixed(l, v) \in inForce

(* A change adds to what a place has given and to what was in force.       *)
LEMMA ChangePast ==
  ASSUME EnvTypes, PastOK, Changed(EnvironmentList', registry'),
         UNCHANGED <<pc, op, name, key>>
  PROVE  PastOK'
<1> SUFFICES ASSUME pc \in {"Query", "Read"}, op = "Get" PROVE PastOK'
  BY DEF PastOK
<1>1. /\ inForce' = inForce \cup {InForce(EnvironmentList', registry', name)}
      /\ past' = [l \in Looks |-> past[l] \cup {Gives(EnvironmentList', registry', l, name)}]
      /\ UNCHANGED missed
  BY DEF Changed, Between
<1>2. /\ \A l \in Looks : Given(l)' = Gives(EnvironmentList', registry', l, name)
      /\ \A l \in Looks : past'[l] = past[l] \cup {Given(l)'}
  BY <1>1 DEF Given
<1>3. /\ \A l \in Looks : Given(l) \in past[l]
      /\ Absent \in past[0]
      /\ key = 2 /\ ~missed => Absent \in past[1]
      /\ \A l \in Looks : StillBut(l) => \A v \in past[l] : Mixed(l, v) \in inForce
  BY DEF PastOK
<1>4. ASSUME NEW l \in Looks, StillBut(l)', NEW v \in past'[l]
      PROVE  Mixed(l, v)' \in inForce'
  <2>1. ASSUME NEW m \in Looks \ {l} PROVE Still(m) /\ Given(m)' = Given(m)
    BY <1>2, <1>3, <1>4 DEF StillBut, Still
  <2>2. CASE v \in past[l]
    <3>1. Mixed(l, v)' = Mixed(l, v)
      <4>1. [m \in Looks |-> IF m = l THEN v ELSE Given(m)]'
              = [m \in Looks |-> IF m = l THEN v ELSE Given(m)]
        BY <2>1
      <4> QED  BY <4>1 DEF Mixed, FirstOf
    <3> QED  BY <1>1, <1>3, <2>1, <2>2, <3>1 DEF StillBut
  <2>3. CASE v = Given(l)'
    <3>1. [m \in Looks |-> IF m = l THEN v ELSE Given(m)]'
            = [m \in Looks |-> Gives(EnvironmentList', registry', m, name)]
      BY <1>2, <2>3
    <3>2. Mixed(l, v)' = InForce(EnvironmentList', registry', name)
      BY <3>1 DEF Mixed, InForce, FirstOf
    <3> QED  BY <1>1, <3>2
  <2> QED  BY <1>2, <2>2, <2>3
<1>5. 0 \in Looks /\ 1 \in Looks
  BY DEF Looks
<1> QED  BY <1>1, <1>2, <1>3, <1>4, <1>5 DEF PastOK

LEMMA GetPast ==
  ASSUME EnvTypes, NEW n \in Names, NEW size \in Sizes, GetEnvironmentVariableW(n, size)
  PROVE  PastOK'
<1> SUFFICES ASSUME pc' = "Query" PROVE PastOK'
  BY DEF GetEnvironmentVariableW, LookAtList, Returns, PastOK
<1>1. /\ name' = n /\ key' = 1 /\ EnvironmentList[n] = Absent
      /\ UNCHANGED <<EnvironmentList, registry>>
      /\ inForce' = {InForce(EnvironmentList, registry, n)}
      /\ past' = [l \in Looks |-> {Gives(EnvironmentList, registry, l, n)}]
  BY DEF GetEnvironmentVariableW, LookAtList, Returns
<1>2. \A l \in Looks : Given(l)' = Gives(EnvironmentList, registry, l, n)
  BY <1>1 DEF Given
<1>3. Given(0)' = Absent /\ 0 \in Looks
  BY <1>1 DEF Given, Gives, Looks
<1>4. ASSUME NEW l \in Looks, NEW v \in past'[l] PROVE Mixed(l, v)' \in inForce'
  <2>1. v = Given(l)'
    BY <1>1, <1>2, <1>4
  <2>2. [m \in Looks |-> IF m = l THEN v ELSE Given(m)]'
          = [m \in Looks |-> Gives(EnvironmentList, registry, m, n)]
    BY <1>2, <2>1
  <2>3. Mixed(l, v)' = InForce(EnvironmentList, registry, n)
    BY <2>2 DEF Mixed, InForce, FirstOf
  <2> QED  BY <1>1, <2>3
<1> QED  BY <1>1, <1>2, <1>3, <1>4 DEF PastOK

LEMMA QueryPast ==
  ASSUME EnvironmentAssumption, EnvTypes, PastOK, QueryKey \/ ReadKey
  PROVE  PastOK'
<1> SUFFICES ASSUME pc' \in {"Query", "Read"}, op' = "Get" PROVE PastOK'
  BY DEF PastOK
<1>1. /\ pc \in {"Query", "Read"} /\ op = "Get" /\ key \in Keys
      /\ UNCHANGED <<EnvironmentList, registry, name, past, inForce>>
  BY DEF QueryKey, ReadKey, Untouched, EnvTypes, TypeInv
<1>2. /\ \A l \in Looks : Given(l)' = Given(l) /\ StillBut(l)' = StillBut(l)
      /\ \A l \in Looks : \A v \in past[l] : Mixed(l, v)' = Mixed(l, v)
  <2>1. \A l \in Looks : Given(l)' = Given(l)
    BY <1>1 DEF Given, Gives
  <2>2. \A l \in Looks : StillBut(l)' = StillBut(l)
    BY <1>1 DEF StillBut, Still
  <2>3. ASSUME NEW l \in Looks, NEW v \in past[l] PROVE Mixed(l, v)' = Mixed(l, v)
    <3>1. [m \in Looks |-> IF m = l THEN v ELSE Given(m)]'
            = [m \in Looks |-> IF m = l THEN v ELSE Given(m)]
      BY <2>1
    <3> QED  BY <3>1 DEF Mixed, FirstOf
  <2> QED  BY <2>1, <2>2, <2>3
<1>3. ASSUME key' = 2, ~missed' PROVE Absent \in past[1]
  <2>1. missed' = missed \/ Misses
    BY DEF QueryKey, ReadKey
  <2>2. CASE key = 2
    BY <1>1, <1>3, <2>1, <2>2 DEF PastOK, Misses
  <2>3. CASE key = 1
    <3>1. NextKey
      BY <1>3, <2>3 DEF QueryKey, ReadKey, Returns
    <3>2. registry[1][name] \notin Data
      BY <1>3, <2>3, <3>1, NothingHere
    <3>3. Given(1) = Absent /\ 1 \in Looks
      BY <3>2 DEF Given, Gives, Looks
    <3> QED  BY <1>1, <3>3 DEF PastOK
  <2> QED  BY <1>1, <2>2, <2>3 DEF Keys
<1> QED  BY <1>1, <1>2, <1>3 DEF PastOK

(* If only one place changed, what the reading ends with was in force.     *)
LEMMA OneMoved ==
  ASSUME PastOK, pc \in {"Query", "Read"}, op = "Get", \A l, m \in Moved : l = m,
         NEW v, \/ v = Given(1) /\ v # Absent
                \/ v = Given(2) /\ Absent \in past[1]
  PROVE  v \in inForce
<1>1. PICK l \in Looks : StillBut(l)
  <2>1. CASE Moved = {}
    <3>1. \A m \in Looks : Still(m)
      BY <2>1 DEF Moved, Still
    <3>2. 0 \in Looks
      BY DEF Looks
    <3> QED  BY <3>1, <3>2 DEF StillBut
  <2>2. CASE Moved # {}
    <3>1. PICK l \in Moved : TRUE
      BY <2>2
    <3>2. l \in Looks /\ \A m \in Looks \ {l} : m \notin Moved
      BY <3>1 DEF Moved
    <3> QED  BY <3>2 DEF StillBut, Still, Moved
  <2> QED  BY <2>1, <2>2
<1>2. /\ \A m \in Looks : Given(m) \in past[m]
      /\ Absent \in past[0]
      /\ \A w \in past[l] : Mixed(l, w) \in inForce
  BY <1>1 DEF PastOK
<1>3. \A m \in Looks \ {l} : \A w \in past[m] : Given(m) = w
  BY <1>1, <1>2 DEF StillBut, Still
<1>4. 0 \in Looks /\ 1 \in Looks /\ 2 \in Looks /\ l \in {0, 1, 2}
  BY DEF Looks
<1>5. \A w : Mixed(l, w) = LET g == [m \in {0, 1, 2} |-> IF m = l THEN w ELSE Given(m)]
                           IN  IF g[0] # Absent THEN g[0]
                               ELSE IF g[1] # Absent THEN g[1] ELSE g[2]
  <2>1. Looks = {0, 1, 2}
    BY DEF Looks
  <2> QED  BY <2>1 DEF Mixed, FirstOf
<1>6. CASE l = 0
  <2>1. Mixed(0, Absent) = IF Given(1) # Absent THEN Given(1) ELSE Given(2)
    BY <1>5, <1>6
  <2>2. Mixed(0, Absent) = v
    BY <1>3, <1>4, <1>6, <2>1
  <2> QED  BY <1>2, <1>6, <2>2
<1>7. CASE l = 1
  <2>1. Given(0) = Absent
    BY <1>2, <1>3, <1>4, <1>7
  <2>2. \A w : Mixed(1, w) = IF w # Absent THEN w ELSE Given(2)
    BY <1>5, <1>7, <2>1
  <2>3. CASE v = Given(1) /\ v # Absent
    BY <1>2, <1>4, <1>7, <2>2, <2>3
  <2>4. CASE v = Given(2) /\ Absent \in past[1]
    BY <1>2, <1>7, <2>2, <2>4
  <2> QED  BY <2>3, <2>4
<1>8. CASE l = 2
  <2>1. Given(0) = Absent
    BY <1>2, <1>3, <1>4, <1>8
  <2>2. \A w : Mixed(2, w) = IF Given(1) # Absent THEN Given(1) ELSE w
    BY <1>5, <1>8, <2>1
  <2>3. CASE v = Given(1) /\ v # Absent
    BY <1>2, <1>4, <1>8, <2>2, <2>3
  <2>4. CASE v = Given(2) /\ Absent \in past[1]
    BY <1>2, <1>3, <1>4, <1>8, <2>2, <2>4
  <2> QED  BY <2>3, <2>4
<1> QED  BY <1>4, <1>6, <1>7, <1>8

(* The end of a reading.                                                   *)
LEMMA QueryInForce ==
  ASSUME EnvironmentAssumption, EnvTypes, PastOK, QueryKey \/ ReadKey
  PROVE  ReadWasInForce'
<1> SUFFICES ASSUME pc' = "Idle", op' = "Get" PROVE ReadWasInForce'
  BY DEF ReadWasInForce
<1>1. /\ pc \in {"Query", "Read"} /\ op = "Get" /\ key \in Keys
      /\ UNCHANGED <<past, inForce>>
  BY DEF QueryKey, ReadKey, Untouched, EnvTypes, TypeInv
<1>2. Moved' = Moved
  BY <1>1 DEF Moved
<1>3. CASE /\ pc = "Read" /\ Fits(registry[key][name])
           /\ Returns(AnswerOf(registry[key][name] - 1, nSize), op) /\ UNCHANGED missed
  <2> DEFINE v == registry[key][name] - 1
  <2>1. v \in Values /\ v # Absent /\ nSize \in Nat /\ v = Given(key)
    BY <1>1, <1>3 DEF Fits, Data, Values, EnvironmentAssumption, EnvTypes, TypeInv, Given, Gives, Keys
  <2>2. ret' = AnswerOf(v, nSize)
    BY <1>3 DEF Returns
  <2>3. Told(ret') = v
    BY <2>1, <2>2, ToldReading DEF Reading
  <2> HIDE DEF v
  <2>4. key \in Looks /\ v \in past[key]
    BY <1>1, <2>1 DEF PastOK, Keys, Looks
  <2>5. ASSUME ~missed', \A l, m \in Moved' : l = m PROVE v \in inForce
    <3>1. key = 2 => Absent \in past[1]
      BY <1>1, <1>3, <2>5 DEF PastOK
    <3>2. \/ v = Given(1) /\ v # Absent
          \/ v = Given(2) /\ Absent \in past[1]
      BY <1>1, <2>1, <3>1 DEF Keys
    <3> QED  BY <1>1, <1>2, <2>5, <3>2, OneMoved
  <2>6. Told(ret)' = v
    BY <2>3 DEF Told
  <2> QED  BY <1>1, <2>1, <2>4, <2>5, <2>6 DEF ReadWasInForce
<1>4. CASE NextKey
  <2>1. key = 2 /\ ret' = NoAnswer
    BY <1>4 DEF NextKey, Returns
  <2>2. Told(ret') = Absent
    BY <2>1 DEF NoAnswer, Told
  <2>3. ASSUME ~missed' PROVE Given(2) = Absent /\ Absent \in past[0] /\ Absent \in past[1] /\ Absent \in past[2]
    <3>1. registry[2][name] \notin Data /\ ~missed
      BY <1>4, <2>1, <2>3, NothingHere
    <3>2. Given(2) = Absent /\ 2 \in Looks
      BY <3>1 DEF Given, Gives, Looks
    <3> QED  BY <1>1, <2>1, <3>1, <3>2 DEF PastOK
  <2>4. ~missed' => \A l \in Looks : Absent \in past[l]
    BY <2>3 DEF Looks
  <2>5. ~missed' /\ (\A l, m \in Moved' : l = m) => Absent \in inForce
    BY <1>1, <1>2, <2>3, OneMoved
  <2>6. Told(ret)' = Absent
    BY <2>2 DEF Told
  <2> QED  BY <1>1, <2>4, <2>5, <2>6 DEF ReadWasInForce
<1> QED  BY <1>1, <1>3, <1>4 DEF QueryKey, ReadKey

LEMMA GetInForce ==
  ASSUME EnvironmentAssumption, EnvTypes, NEW n \in Names, NEW size \in Sizes,
         GetEnvironmentVariableW(n, size)
  PROVE  ReadWasInForce'
<1>1. CASE EnvironmentList[n] = Absent
  BY <1>1 DEF GetEnvironmentVariableW, LookAtList, ReadWasInForce
<1>2. CASE EnvironmentList[n] # Absent
  <2> DEFINE v == EnvironmentList[n]
  <2>1. v \in Values /\ v # Absent /\ size \in Nat
    BY <1>2 DEF EnvTypes, TypeInv, EnvironmentAssumption
  <2>2. ret' = AnswerOf(v, size)
    BY <1>2 DEF GetEnvironmentVariableW, LookAtList, Returns
  <2>3. Told(ret)' = v
    <3>1. Told(ret') = v
      BY <2>1, <2>2, ToldReading DEF Reading
    <3> QED  BY <3>1 DEF Told
  <2>4. inForce' = {v}
    BY <2>1, FromRegistryType DEF GetEnvironmentVariableW, EnvTypes
  <2>5. 0 \in Looks /\ v \in past'[0]
    BY DEF GetEnvironmentVariableW, Gives, Looks
  <2> HIDE DEF v
  <2> QED  BY <2>1, <2>3, <2>4, <2>5 DEF ReadWasInForce
<1> QED  BY <1>1, <1>2

(* However often the list and the registry change while                    *)
(* GetEnvironmentVariableW is between its looks at them: a value it tells  *)
(* of was at one of the three places during the call; unless a query or an *)
(* allocation failed it says that there is none only if no place had one   *)
(* all the time; and if one place at most changed, what it tells was in    *)
(* force at one moment of the call.                                        *)
THEOREM AnswerWasInForce == ASSUME EnvironmentAssumption PROVE Spec => []ReadWasInForce
<1>1. Init => PastOK /\ ReadWasInForce
  BY DEF Init, PastOK, ReadWasInForce
<1>2. EnvTypes /\ PastOK /\ ReadWasInForce /\ [Next]_vars => PastOK' /\ ReadWasInForce'
  <2> SUFFICES ASSUME EnvTypes, PastOK, ReadWasInForce, [Next]_vars
               PROVE  PastOK' /\ ReadWasInForce'
    OBVIOUS
  <2>1. ASSUME NEW n \in Names, NEW size \in Sizes, GetEnvironmentVariableW(n, size)
        PROVE  PastOK' /\ ReadWasInForce'
    BY <2>1, GetPast, GetInForce
  <2>2. CASE QueryKey \/ ReadKey
    BY <2>2, QueryPast, QueryInForce
  <2>3. ASSUME NEW text \in Sources, NEW size \in Sizes, ExpandEnvironmentStringsW(text, size)
        PROVE  PastOK' /\ ReadWasInForce'
    BY <2>3 DEF ExpandEnvironmentStringsW, PastOK, ReadWasInForce
  <2>4. CASE ExpandCharacter \/ ExpandReference \/ ExpandSized \/ ExpandCopied \/ ExpandReturn
    <3>1. op' # "Get" \/ pc' \notin {"Idle", "Query", "Read"}
      BY <2>4 DEF ExpandCharacter, ExpandReference, ExpandSized, ExpandCopied, ExpandReturn,
           LookAtList, Returns
    <3> QED  BY <3>1 DEF PastOK, ReadWasInForce
  <2>5. CASE GetEnvironmentStringsW \/ Measure \/ Fill \/ FreeEnvironmentStringsW
    <3>1. op' = "Strings"
      BY <2>5 DEF GetEnvironmentStringsW, Measure, Fill, FreeEnvironmentStringsW, StringsUntouched,
           EnvTypes, PlaceOK
    <3> QED  BY <3>1 DEF PastOK, ReadWasInForce
  <2>6. ASSUME UNCHANGED <<pc, op, name, key, ret>>, Changed(EnvironmentList', registry')
        PROVE  PastOK' /\ ReadWasInForce'
    <3>1. PastOK'
      BY <2>6, ChangePast
    <3>2. ASSUME pc = "Idle" PROVE UNCHANGED <<past, inForce, missed>>
      BY <2>6, <3>2 DEF Changed, Between
    <3> QED  BY <2>6, <3>1, <3>2 DEF ReadWasInForce, Moved, Told
  <2>7. CASE Others
    BY <2>6, <2>7 DEF Others, SetEnvironmentVariableW, ZwSetValueKey, get
  <2>8. CASE UNCHANGED vars
    <3>1. UNCHANGED <<pc, op, name, key, ret, EnvironmentList, registry, past, inForce, missed>>
      BY <2>8 DEF vars, get, history
    <3>2. /\ Told(ret)' = Told(ret) /\ Moved' = Moved
          /\ \A l : Given(l)' = Given(l) /\ StillBut(l)' = StillBut(l)
      BY <3>1 DEF Told, Moved, Given, Gives, StillBut, Still
    <3>3. \A l, v : Mixed(l, v)' = Mixed(l, v)
      BY <3>2 DEF Mixed, FirstOf
    <3> QED  BY <3>1, <3>2, <3>3 DEF PastOK, ReadWasInForce
  <2> QED
    BY <2>1, <2>2, <2>3, <2>4, <2>5, <2>7, <2>8 DEF Next, Reader
<1> QED  BY <1>1, <1>2, EnvTypesCorrect, PTL DEF Spec

(***************************************************************************)
(* An expansion.  The text it has built and the room that is left make up  *)
(* the buffer until something did not fit, after which the total is beyond *)
(* it; and what a reading found is still so, if nothing changed.           *)
(***************************************************************************)
Quiet == steady /\ listSteady

Running ==
    \/ pc = "Expand"
    \/ pc \in {"Query", "Read", "Answered"} /\ op # "Get"
    \/ pc = "Idle" /\ op = "Expand"

BufferOK ==
    Running =>
        /\ room <= space
        /\ room > 0 => filled + room = space /\ total = filled
        /\ room = 0 => total >= space
        /\ Quiet => whole

ReturnOK == pc = "Idle" /\ op = "Expand" => ret.result = total + 1

Now(n) == InForce(EnvironmentList, registry, n)

FoundOK ==
    Quiet =>
        /\ pc = "Answered" => ret = Reading(Now(name), nSize)
        /\ pc \in {"Query", "Read", "Answered"} /\ op = "ExpandCopy" =>
            Now(name) # Absent /\ Now(name) = ValLen - 1

ExpandOK == BufferOK /\ ReturnOK /\ FoundOK

(* Nothing an expansion has changes when others act, and if they do it     *)
(* knows no more.                                                          *)
LEMMA OthersExpand ==
  ASSUME ExpandOK, Others PROVE ExpandOK'
<1>1. /\ UNCHANGED <<pc, op, name, nSize, ret, room, space, filled, total, ValLen, whole>>
      /\ ~Between => ~Quiet'
      /\ Quiet' => Quiet
  <2>1. ASSUME NEW n, NEW value, SetEnvironmentVariableW(n, value)
        PROVE  /\ UNCHANGED <<pc, op, get, expand>>
               /\ ~Between => ~Quiet'
               /\ Quiet' => Quiet
    BY <2>1 DEF SetEnvironmentVariableW, Quiet
  <2>2. ASSUME NEW k, NEW n, NEW datum, ZwSetValueKey(k, n, datum)
        PROVE  /\ UNCHANGED <<pc, op, get, expand>>
               /\ ~Between => ~Quiet'
               /\ Quiet' => Quiet
    BY <2>2 DEF ZwSetValueKey, Quiet
  <2> QED  BY <2>1, <2>2 DEF Others, get, expand
<1>2. BufferOK' /\ ReturnOK'
  BY <1>1 DEF ExpandOK, BufferOK, ReturnOK, Running
<1>3. FoundOK'
  BY <1>1 DEF FoundOK, Between
<1> QED  BY <1>2, <1>3 DEF ExpandOK

(* A look at the list that finds the variable.                             *)
LEMMA LookFinds ==
  ASSUME EnvironmentAssumption, EnvTypes, NEW n \in Names, NEW size \in Nat,
         NEW for \in {"ExpandSize", "ExpandCopy"}, LookAtList(n, size, for),
         UNCHANGED <<EnvironmentList, registry>>
  PROVE  /\ pc' \in {"Query", "Answered"} /\ Now(name)' = Now(n)
         /\ pc' = "Answered" => ret' = Reading(Now(name)', nSize')
<1>1. name' = n /\ nSize' = size /\ Now(name)' = Now(n)
  BY DEF LookAtList, Now, InForce
<1>2. CASE EnvironmentList[n] # Absent
  <2>1. Now(n) = EnvironmentList[n] /\ ret' = AnswerOf(EnvironmentList[n], size) /\ pc' = "Answered"
    BY <1>2, FromRegistryType DEF Now, EnvTypes, LookAtList, Returns
  <2>2. ret' = Reading(Now(n), size)
    BY <1>2, <2>1 DEF Reading
  <2> QED  BY <1>1, <2>1, <2>2 DEF Reading, NoAnswer, AnswerOf
<1>3. CASE EnvironmentList[n] = Absent
  BY <1>1, <1>3 DEF LookAtList
<1> QED  BY <1>2, <1>3

LEMMA QueryExpand ==
  ASSUME EnvironmentAssumption, EnvTypes, LookOK, ExpandOK, QueryKey \/ ReadKey
  PROVE  ExpandOK'
<1>1. /\ pc \in {"Query", "Read"} /\ (Quiet' => Quiet)
      /\ UNCHANGED <<EnvironmentList, registry, name, nSize, op, room, space, filled, total, ValLen, whole>>
  <2>1. steady' => steady
    BY DEF QueryKey, ReadKey, Misses
  <2> QED  BY <2>1 DEF QueryKey, ReadKey, Untouched, expand, Quiet
<1>2. pc' \in {"Query", "Read"} \/ pc' = IF op = "Get" THEN "Idle" ELSE "Answered"
  BY DEF QueryKey, ReadKey, NextKey, Returns
<1>3. BufferOK' /\ ReturnOK'
  BY <1>1, <1>2 DEF ExpandOK, BufferOK, ReturnOK, Running
<1>4. Now(name)' = Now(name)
  BY <1>1 DEF Now, InForce
<1>5. ASSUME Quiet', pc' = "Answered" PROVE ret' = Reading(Now(name)', nSize')
  <2>1. ret' = Reading(FromRegistry(name), nSize)
    BY <1>5, ReadingEnds DEF Quiet
  <2>2. EnvironmentList[name] = Absent
    BY <1>1, <1>5 DEF LookOK, Quiet
  <2>3. Now(name) = FromRegistry(name)
    BY <2>2, FromRegistryType DEF Now, EnvTypes, TypeInv
  <2> QED  BY <1>1, <1>4, <2>1, <2>3
<1>6. Reading(Now(name)', nSize') = Reading(Now(name), nSize)'
  BY <1>1 DEF Reading, NoAnswer, AnswerOf
<1>7. FoundOK'
  BY <1>1, <1>4, <1>5, <1>6 DEF ExpandOK, FoundOK
<1> QED  BY <1>3, <1>7 DEF ExpandOK

LEMMA CharacterExpand ==
  ASSUME EnvTypes, ExpandOK, ExpandCharacter PROVE ExpandOK'
<1>1. /\ room <= space
      /\ room > 0 => filled + room = space /\ total = filled
      /\ room = 0 => total >= space
      /\ Quiet => whole
  BY DEF ExpandCharacter, ExpandOK, BufferOK, Running
<1>2. Quiet' = Quiet /\ whole' = whole /\ space' = space /\ pc' = "Expand"
  BY DEF ExpandCharacter, history, Quiet
<1>3. /\ room' <= space'
      /\ room' > 0 => filled' + room' = space' /\ total' = filled'
      /\ room' = 0 => total' >= space'
  <2>1. room \in Nat /\ space \in Nat /\ total \in Nat /\ filled \in Nat
    BY DEF EnvTypes, TypeInv
  <2>2. /\ total' = total + 1 /\ space' = space
        /\ \/ room > 0 /\ filled' = filled + 1 /\ room' = room - 1
           \/ room = 0 /\ UNCHANGED <<filled, room>>
    BY DEF ExpandCharacter
  <2> QED  BY <1>1, <2>1, <2>2
<1> QED  BY <1>1, <1>2, <1>3 DEF ExpandOK, BufferOK, ReturnOK, FoundOK

LEMMA ReferenceExpand ==
  ASSUME EnvironmentAssumption, EnvTypes, ExpandOK, ExpandReference PROVE ExpandOK'
<1>1. /\ Head(rest) \in Names /\ LookAtList(Head(rest), 0, "ExpandSize") /\ pc = "Expand"
      /\ UNCHANGED <<EnvironmentList, registry, expand, history>>
  BY FirstOfRest DEF ExpandReference, EnvTypes
<1>2. /\ pc' \in {"Query", "Answered"} /\ op' = "ExpandSize"
      /\ pc' = "Answered" => ret' = Reading(Now(name)', nSize')
  <2>1. op' = "ExpandSize"
    BY <1>1 DEF LookAtList
  <2> QED  BY <1>1, <2>1, LookFinds
<1>3. Reading(Now(name)', nSize') = Reading(Now(name), nSize)'
  BY DEF Reading, NoAnswer, AnswerOf
<1>4. BufferOK' /\ ReturnOK'
  BY <1>1, <1>2 DEF expand, history, Quiet, ExpandOK, BufferOK, ReturnOK, Running
<1>5. FoundOK'
  BY <1>2, <1>3 DEF FoundOK
<1> QED  BY <1>4, <1>5 DEF ExpandOK

LEMMA SizedExpand ==
  ASSUME EnvironmentAssumption, EnvTypes, ExpandOK, ExpandSized PROVE ExpandOK'
<1>1. /\ room <= space
      /\ room > 0 => filled + room = space /\ total = filled
      /\ room = 0 => total >= space
      /\ Quiet => whole
      /\ Quiet => ret = Reading(Now(name), nSize)
  BY DEF ExpandSized, ExpandOK, BufferOK, FoundOK, Running
<1>2. /\ pc = "Answered" /\ op = "ExpandSize" /\ name = Head(rest) /\ nSize = 0
      /\ room \in Nat /\ space \in Nat /\ total \in Nat /\ filled \in Nat /\ ret.result \in Nat
      /\ name \in Names
  BY DEF ExpandSized, EnvTypes, TypeInv, PlaceOK
<1>3. /\ Quiet' = Quiet /\ whole' = whole /\ space' = space /\ filled' = filled
      /\ UNCHANGED <<EnvironmentList, registry>>
  BY DEF ExpandSized, history, Quiet
<1>4. CASE pc' = "Expand" /\ UNCHANGED <<room, total>>
  BY <1>1, <1>3, <1>4 DEF ExpandOK, BufferOK, ReturnOK, FoundOK
<1>5. CASE pc' = "Expand" /\ ret.result > room /\ room' = 0 /\ total' = total + ret.result - 1
  <2>1. total' >= space
    BY <1>1, <1>2, <1>5
  <2> QED  BY <1>1, <1>2, <1>3, <1>5, <2>1 DEF ExpandOK, BufferOK, ReturnOK, FoundOK
<1>6. CASE /\ ret.result \in 1..room /\ ValLen' = ret.result
           /\ LookAtList(Head(rest), room, "ExpandCopy") /\ UNCHANGED <<room, total>>
  <2>1. /\ pc' \in {"Query", "Answered"} /\ Now(name)' = Now(name)
        /\ pc' = "Answered" => ret' = Reading(Now(name)', nSize')
    BY <1>2, <1>3, <1>6, LookFinds
  <2>2. Reading(Now(name)', nSize') = Reading(Now(name), nSize)'
    BY DEF Reading, NoAnswer, AnswerOf
  <2>3. op' = "ExpandCopy"
    BY <1>6 DEF LookAtList
  <2>4. ASSUME Quiet PROVE Now(name) # Absent /\ Now(name) = ret.result - 1
    <3>1. Now(name) \in Values \cup {Absent} /\ ret = Reading(Now(name), 0)
      BY <1>1, <1>2, <2>4, InForceType DEF Now, EnvTypes, TypeInv
    <3>2. Now(name) # Absent
      BY <1>6, <3>1, AnswerSays
    <3>3. Now(name) \in Nat /\ 0 <= Now(name)
      BY <3>1, <3>2 DEF Values, EnvironmentAssumption
    <3>4. ret.result = Now(name) + 1
      BY <3>1, <3>2, <3>3, AnswerSays
    <3> QED  BY <3>2, <3>3, <3>4
  <2>5. FoundOK'
    BY <1>3, <1>6, <2>1, <2>2, <2>4 DEF FoundOK
  <2>6. BufferOK' /\ ReturnOK'
    BY <1>1, <1>3, <1>6, <2>1, <2>3 DEF BufferOK, ReturnOK
  <2> QED  BY <2>5, <2>6 DEF ExpandOK
<1> QED  BY <1>4, <1>5, <1>6 DEF ExpandSized, get

LEMMA CopiedExpand ==
  ASSUME EnvironmentAssumption, EnvTypes, ExpandOK, ExpandCopied PROVE ExpandOK'
<1>1. /\ room <= space
      /\ room > 0 => filled + room = space /\ total = filled
      /\ Quiet => whole
      /\ Quiet => ret = Reading(Now(name), nSize) /\ Now(name) # Absent /\ Now(name) = ValLen - 1
  BY DEF ExpandCopied, ExpandOK, BufferOK, FoundOK, Running
<1>2. /\ ValLen \in 1..room /\ nSize = room
      /\ room \in Nat /\ space \in Nat /\ total \in Nat /\ filled \in Nat
      /\ Now(name) \in Values \cup {Absent}
  BY InForceType DEF ExpandCopied, EnvTypes, TypeInv, PlaceOK, Now
<1>3. /\ Quiet' = Quiet /\ space' = space /\ pc' = "Expand"
      /\ filled' = filled + (ValLen - 1) /\ room' = room - (ValLen - 1)
      /\ total' = total + ValLen - 1 /\ whole' = (whole /\ ret.copied = ValLen - 1)
  BY DEF ExpandCopied, Advance, history, Quiet
<1>4. /\ room' > 0 /\ room' <= space' /\ filled' + room' = space' /\ total' = filled'
  BY <1>1, <1>2, <1>3
<1>5. ASSUME Quiet PROVE ret.copied = ValLen - 1
  <2>1. ValLen - 1 \in Nat /\ Now(name) = ValLen - 1 /\ room > ValLen - 1
    BY <1>1, <1>2, <1>5
  <2>2. Now(name) # Absent
    BY <1>1, <1>5
  <2> QED  BY <1>1, <1>2, <1>5, <2>1, <2>2, AnswerSays
<1>6. Quiet' => whole'
  BY <1>1, <1>3, <1>5
<1>7. room' # 0
  BY <1>4
<1> QED  BY <1>3, <1>4, <1>6, <1>7 DEF ExpandOK, BufferOK, ReturnOK, FoundOK

(* The caller of ExpandEnvironmentStringsW that is told its buffer was     *)
(* large enough has a text that ends inside it, of the length it was told, *)
(* whoever changed a variable during the call; and every value is there    *)
(* whole unless somebody did, or memory ran out.                           *)
THEOREM ExpansionIsWhole == ASSUME EnvironmentAssumption PROVE Spec => []ExpansionWhole
<1>1. Init => LookOK /\ ExpandOK
  BY DEF Init, LookOK, ExpandOK, BufferOK, ReturnOK, FoundOK, Running
<1>2. EnvTypes /\ LookOK /\ ExpandOK /\ [Next]_vars => LookOK' /\ ExpandOK'
  <2> SUFFICES ASSUME EnvTypes, LookOK, ExpandOK, [Next]_vars PROVE ExpandOK'
    BY NextLook
  <2>1. ASSUME NEW n \in Names, NEW size \in Sizes, GetEnvironmentVariableW(n, size)
        PROVE  ExpandOK'
    <3>1. op' = "Get" /\ pc' \in {"Idle", "Query"}
      BY <2>1 DEF GetEnvironmentVariableW, LookAtList, Returns
    <3> QED  BY <3>1 DEF ExpandOK, BufferOK, ReturnOK, FoundOK, Running
  <2>2. CASE QueryKey \/ ReadKey
    BY <2>2, QueryExpand
  <2>3. ASSUME NEW text \in Sources, NEW size \in Sizes, ExpandEnvironmentStringsW(text, size)
        PROVE  ExpandOK'
    <3>1. size \in Nat
      BY DEF EnvironmentAssumption
    <3> QED
      BY <2>3, <3>1 DEF ExpandEnvironmentStringsW, ExpandOK, BufferOK, ReturnOK, FoundOK
  <2>4. CASE ExpandCharacter \/ ExpandReference \/ ExpandSized \/ ExpandCopied
    BY <2>4, CharacterExpand, ReferenceExpand, SizedExpand, CopiedExpand
  <2>5. CASE ExpandReturn
    BY <2>5 DEF ExpandReturn, expand, history, Quiet, ExpandOK, BufferOK, ReturnOK, FoundOK, Running
  <2>6. CASE GetEnvironmentStringsW \/ Measure \/ Fill \/ FreeEnvironmentStringsW
    <3>1. op' = "Strings"
      BY <2>6 DEF GetEnvironmentStringsW, Measure, Fill, FreeEnvironmentStringsW, StringsUntouched,
           EnvTypes, PlaceOK
    <3>2. pc' \in {"Held", "Idle", "Measure", "Fill"}
      BY <2>6 DEF GetEnvironmentStringsW, Measure, Fill, FreeEnvironmentStringsW, OtherKey,
           LastKey, AllocateBlock
    <3> QED  BY <3>1, <3>2 DEF ExpandOK, BufferOK, ReturnOK, FoundOK, Running
  <2>7. CASE Others
    BY <2>7, OthersExpand
  <2>8. CASE UNCHANGED vars
    <3>1. Reading(Now(name), nSize)' = Reading(Now(name), nSize) /\ Now(name)' = Now(name)
      BY <2>8 DEF vars, get, Now, InForce, Reading, NoAnswer, AnswerOf
    <3> QED
      BY <2>8, <3>1 DEF vars, get, expand, history, Quiet, ExpandOK, BufferOK, ReturnOK, FoundOK,
           Running
  <2> QED  BY <2>1, <2>2, <2>3, <2>4, <2>5, <2>6, <2>7, <2>8 DEF Next, Reader
<1>3. EnvTypes /\ ExpandOK => ExpansionWhole
  <2> SUFFICES ASSUME EnvTypes, ExpandOK, pc = "Idle", op = "Expand", ret.result <= space
               PROVE  /\ filled = ret.result - 1 /\ room > 0
                      /\ steady /\ listSteady => whole
    BY DEF ExpansionWhole
  <2>1. /\ room > 0 => total = filled
        /\ room = 0 => total >= space
        /\ ret.result = total + 1
        /\ steady /\ listSteady => whole
    BY DEF ExpandOK, BufferOK, ReturnOK, Running, Quiet
  <2>2. room \in Nat /\ total \in Nat /\ space \in Nat /\ filled \in Nat
    BY DEF EnvTypes, TypeInv
  <2> QED  BY <2>1, <2>2
<1> QED  BY <1>1, <1>2, <1>3, EnvTypesCorrect, PTL DEF Spec

(***************************************************************************)
(* The strings.  Sums over the names are taken apart by induction over     *)
(* numbers: a set of counterexamples has a least one.                      *)
(***************************************************************************)
(* Every set of numbers has a least one: induction, without an operator.   *)
LEMMA LeastOf == ASSUME NEW T \in SUBSET Nat, T # {} PROVE \E x \in T : \A y \in T : x <= y
<1> DEFINE Less == {ss \in Nat \X Nat : ss[1] < ss[2]}
<1>1. IsWellFoundedOn(Less, Nat)
  BY NatLessThanWellFounded DEF OpToRel
<1>2. PICK x \in T : \A y \in T : ~ (<<y, x>> \in Less)
  <2> HIDE DEF Less
  <2> QED  BY <1>1, WFMin
<1>3. ASSUME NEW y \in T PROVE x <= y
  <2>1. y < x => <<y, x>> \in Less
    BY DEF Less
  <2>2. ~ (y < x)
    <3> HIDE DEF Less
    <3> QED  BY <1>2, <2>1
  <2> QED  BY <2>2
<1> QED  BY <1>3

(* What a pass has counted before each of the values it meets.             *)
Counts(p, cost, N) ==
    /\ p \in [0..N -> Nat] /\ p[0] = 0
    /\ \A i \in 0..(N - 1) : p[i + 1] = p[i] + cost[i]
    /\ \A i \in 0..N : p[i] <= p[N]

LEMMA CountsExist ==
  ASSUME NEW N \in Nat, NEW cost \in [0..(N - 1) -> Nat] PROVE \E p : Counts(p, cost, N)
<1> DEFINE Bad == {n \in 0..N : ~ \E p : Counts(p, cost, n)}
<1>1. SUFFICES ASSUME Bad # {} PROVE FALSE
  <2>1. N \in 0..N
    OBVIOUS
  <2>2. (~ \E p : Counts(p, cost, N)) => N \in Bad
    BY <2>1
  <2> QED  BY <2>2
<1>2. PICK n \in Bad : \A m \in Bad : n <= m
  <2>1. Bad \in SUBSET Nat
    OBVIOUS
  <2> HIDE DEF Bad
  <2> QED  BY <1>1, <2>1, LeastOf
<1>3. n # 0
  <2>1. Counts([i \in 0..0 |-> 0], cost, 0)
    BY DEF Counts
  <2> QED  BY <2>1, <1>2
<1>4. n - 1 \in 0..N /\ n - 1 \notin Bad
  BY <1>2, <1>3
<1>5. PICK p : Counts(p, cost, n - 1)
  BY <1>4
<1> DEFINE q == [i \in 0..n |-> IF i < n THEN p[i] ELSE p[n - 1] + cost[n - 1]]
<1>6. /\ n \in Nat \ {0} /\ n <= N /\ cost[n - 1] \in Nat
      /\ p \in [0..(n - 1) -> Nat] /\ p[0] = 0
      /\ \A i \in 0..(n - 2) : p[i + 1] = p[i] + cost[i]
      /\ \A i \in 0..(n - 1) : p[i] <= p[n - 1]
  BY <1>2, <1>3, <1>5 DEF Counts
<1>7. q \in [0..n -> Nat] /\ q[0] = 0
  BY <1>6
<1>8. ASSUME NEW i \in 0..(n - 1) PROVE q[i + 1] = q[i] + cost[i]
  <2>1. CASE i < n - 1
    BY <1>6, <1>8, <2>1
  <2>2. CASE i = n - 1
    BY <1>6, <2>2
  <2> QED  BY <1>8, <2>1, <2>2
<1>9. ASSUME NEW i \in 0..n PROVE q[i] <= q[n]
  <2>1. q[n] = p[n - 1] + cost[n - 1] /\ p[n - 1] \in Nat
    BY <1>6
  <2> QED  BY <1>6, <1>9, <2>1
<1>10. Counts(q, cost, n)
  <2> HIDE DEF q
  <2> QED  BY <1>7, <1>8, <1>9 DEF Counts
<1> QED  BY <1>2, <1>10

(* The values a pass of the list adds up have a sum: they are folded over  *)
(* the finite set of the names on it.                                      *)
Pick(s) == CHOOSE n \in s : TRUE

LEMMA PickIn == ASSUME NEW s, s # {} PROVE Pick(s) \in s
  BY DEF Pick

LEMMA TotalsExist ==
  ASSUME NEW S, IsFiniteSet(S), NEW cost \in [S -> Nat]
  PROVE  \E g \in [SUBSET S -> Nat] : \A s \in SUBSET S :
             g[s] = IF s = {} THEN 0 ELSE cost[Pick(s)] + g[s \ {Pick(s)}]
<1> DEFINE Upto(n) == {s \in SUBSET S : Cardinality(s) <= n}
           Adds(g, n) == /\ g \in [Upto(n) -> Nat]
                         /\ \A s \in Upto(n) :
                              g[s] = IF s = {} THEN 0 ELSE cost[Pick(s)] + g[s \ {Pick(s)}]
           Bad == {n \in Nat : ~ \E g : Adds(g, n)}
<1>0. ASSUME NEW s \in SUBSET S
      PROVE  /\ IsFiniteSet(s) /\ Cardinality(s) \in Nat /\ Cardinality(s) <= Cardinality(S)
             /\ Cardinality(s) = 0 => s = {}
             /\ s # {} => /\ Pick(s) \in s /\ s \ {Pick(s)} \in SUBSET S
                          /\ Cardinality(s \ {Pick(s)}) = Cardinality(s) - 1
  BY FS_Subset, FS_CardinalityType, FS_EmptySet, FS_RemoveElement, PickIn
<1>1. Bad = {}
  <2>1. SUFFICES ASSUME Bad # {} PROVE FALSE
    OBVIOUS
  <2>2. PICK n \in Bad : \A m \in Bad : n <= m
    BY <2>1, LeastOf
  <2>3. n # 0
    <3> DEFINE none == [s \in Upto(0) |-> 0]
    <3>1. ASSUME NEW s \in Upto(0) PROVE s = {} /\ none[s] = 0
      <4>1. s \in SUBSET S /\ Cardinality(s) <= 0 /\ none[s] = 0
        OBVIOUS
      <4>2. Cardinality(s) \in Nat /\ (Cardinality(s) = 0 => s = {})
        BY <1>0, <4>1
      <4> QED  BY <4>1, <4>2
    <3>2. none \in [Upto(0) -> Nat]
      OBVIOUS
    <3>3. Adds(none, 0)
      <4> HIDE DEF none, Upto
      <4> QED  BY <3>1, <3>2
    <3> HIDE DEF Adds
    <3> QED  BY <3>3, <2>2
  <2>4. n \in Nat /\ n - 1 \in Nat /\ n - 1 \notin Bad
    <3> HIDE DEF Adds
    <3>1. n \in Nat
      BY <2>2
    <3> HIDE DEF Bad
    <3> QED  BY <2>2, <2>3, <3>1
  <2>5. PICK g : Adds(g, n - 1)
    BY <2>4
  <2> DEFINE h == [s \in Upto(n) |-> IF s = {} THEN 0 ELSE cost[Pick(s)] + g[s \ {Pick(s)}]]
  <2>6. ASSUME NEW s \in Upto(n), s # {}
        PROVE  s \ {Pick(s)} \in Upto(n - 1) /\ s \ {Pick(s)} \in Upto(n) /\ cost[Pick(s)] \in Nat
    BY <1>0, <2>4, <2>6
  <2>7. h \in [Upto(n) -> Nat]
    <3> HIDE DEF Upto
    <3> QED  BY <2>5, <2>6
  <2>8. ASSUME NEW s \in Upto(n - 1) PROVE s \in Upto(n) /\ h[s] = g[s]
    <3>1. s \in Upto(n)
      <4>1. s \in SUBSET S /\ Cardinality(s) <= n - 1
        OBVIOUS
      <4>2. Cardinality(s) \in Nat
        BY <1>0, <4>1
      <4> QED  BY <2>4, <4>1, <4>2
    <3> HIDE DEF Upto
    <3> QED  BY <3>1, <2>5
  <2>9. ASSUME NEW s \in Upto(n)
        PROVE  h[s] = IF s = {} THEN 0 ELSE cost[Pick(s)] + h[s \ {Pick(s)}]
    <3> HIDE DEF Upto
    <3>1. CASE s = {}
      BY <3>1
    <3>2. CASE s # {}
      <4>1. h[s] = cost[Pick(s)] + g[s \ {Pick(s)}]
        BY <3>2
      <4>2. h[s \ {Pick(s)}] = g[s \ {Pick(s)}]
        <5> HIDE DEF h
        <5> QED  BY <2>6, <2>8, <3>2
      <4> HIDE DEF h
      <4> QED  BY <3>2, <4>1, <4>2
    <3> QED  BY <3>1, <3>2
  <2>10. Adds(h, n)
    <3> HIDE DEF h, Upto
    <3> QED  BY <2>7, <2>9
  <2> QED  BY <2>2, <2>10
<1>2. Cardinality(S) \in Nat /\ Upto(Cardinality(S)) = SUBSET S
  BY <1>0, FS_CardinalityType
<1>3. PICK g : Adds(g, Cardinality(S))
  BY <1>1, <1>2
<1> QED  BY <1>2, <1>3

LEMMA TotalsAreNumbers ==
  ASSUME NEW S, IsFiniteSet(S), NEW cost \in [S -> Nat], NEW g,
         \A s \in SUBSET S : g[s] = IF s = {} THEN 0 ELSE cost[Pick(s)] + g[s \ {Pick(s)}]
  PROVE  g[S] \in Nat
<1> DEFINE Wrong(n) == \E s \in SUBSET S : Cardinality(s) = n /\ g[s] \notin Nat
           Bad == {n \in Nat : Wrong(n)}
<1>1. SUFFICES ASSUME Bad # {} PROVE FALSE
  <2>1. Cardinality(S) \in Nat
    BY FS_CardinalityType
  <2> QED  BY <2>1
<1>2. PICK n \in Bad : \A m \in Bad : n <= m
  <2>1. Bad \in SUBSET Nat
    OBVIOUS
  <2> HIDE DEF Bad
  <2> QED  BY <1>1, <2>1, LeastOf
<1>3. PICK s \in SUBSET S : Cardinality(s) = n /\ g[s] \notin Nat
  BY <1>2
<1>4. s # {} /\ IsFiniteSet(s) /\ g[s] = cost[Pick(s)] + g[s \ {Pick(s)}]
  <2>1. g[s] = IF s = {} THEN 0 ELSE cost[Pick(s)] + g[s \ {Pick(s)}]
    OBVIOUS
  <2>2. s # {}
    BY <1>3, <2>1
  <2>3. IsFiniteSet(s)
    BY FS_Subset
  <2> QED  BY <2>1, <2>2, <2>3
<1>5. /\ Pick(s) \in s /\ s \ {Pick(s)} \in SUBSET S /\ n \in Nat
      /\ Cardinality(s \ {Pick(s)}) = n - 1 /\ cost[Pick(s)] \in Nat
  BY <1>2, <1>3, <1>4, PickIn, FS_RemoveElement
<1>6. n - 1 \in Nat
  BY <1>4, <1>5, FS_CardinalityType, FS_Subset
<1>7. n - 1 \notin Bad
  <2> HIDE DEF Bad
  <2> QED  BY <1>2, <1>5, <1>6
<1>8. g[s \ {Pick(s)}] \in Nat
  BY <1>5, <1>6, <1>7
<1> QED  BY <1>3, <1>4, <1>5, <1>8

LEMMA ListTotals ==
  ASSUME EnvironmentAssumption, TypeInv
  PROVE  ListTotal(Measured) \in Nat /\ ListTotal(Written) = ListTotal(Measured)
<1> DEFINE F(h) == [s \in SUBSET OnList |-> IF s = {} THEN 0
              ELSE Measured(EnvironmentList[Pick(s)] + 1) + h[s \ {Pick(s)}]]
           cost == [n \in OnList |-> Measured(EnvironmentList[n] + 1)]
<1>1. ListTotal(Measured) = (CHOOSE h : h = F(h))[OnList]
  BY DEF ListTotal, MapThenSumSet, MapThenFoldSet, Pick
<1>2. ListTotal(Written) = ListTotal(Measured)
  BY DEF ListTotal, MapThenSumSet, MapThenFoldSet, Written, Measured
<1>3. IsFiniteSet(OnList)
  BY ListedFinite DEF OnList, Listed
<1>4. cost \in [OnList -> Nat]
  BY DEF OnList, TypeInv, EnvironmentAssumption, Values, Measured
<1>5. PICK g \in [SUBSET OnList -> Nat] : \A s \in SUBSET OnList :
             g[s] = IF s = {} THEN 0 ELSE cost[Pick(s)] + g[s \ {Pick(s)}]
  <2> HIDE DEF cost
  <2> QED  BY <1>3, <1>4, TotalsExist
<1>6. g = F(g)
  <2>1. ASSUME NEW s \in SUBSET OnList PROVE g[s] = F(g)[s]
    <3>1. s # {} => cost[Pick(s)] = Measured(EnvironmentList[Pick(s)] + 1)
      BY PickIn
    <3> QED  BY <1>5, <3>1
  <2> QED  BY <2>1
<1> DEFINE sum == CHOOSE h : h = F(h)
<1>7. sum = F(sum)
  <2> HIDE DEF F
  <2> QED  BY <1>6
<1>8. ASSUME NEW s \in SUBSET OnList
      PROVE  sum[s] = IF s = {} THEN 0 ELSE cost[Pick(s)] + sum[s \ {Pick(s)}]
  <2>1. s # {} => cost[Pick(s)] = Measured(EnvironmentList[Pick(s)] + 1)
    BY PickIn
  <2>2. sum[s] = F(sum)[s]
    BY <1>7
  <2> HIDE DEF sum, cost
  <2> QED  BY <2>1, <2>2
<1>9. sum[OnList] \in Nat
  <2> HIDE DEF sum, cost
  <2> QED  BY <1>3, <1>4, <1>8, TotalsAreNumbers
<1> QED  BY <1>1, <1>2, <1>9

(* ZwEnumerateValueKey finds a value under every index below their number. *)
LEMMA NamedAt ==
  ASSUME EnvironmentAssumption, NEW k \in Keys, NEW i \in Nat, i < Cardinality(Stored(k))
  PROVE  NameAt(k, i) \in Stored(k)
<1> DEFINE Below(n) == {m \in Stored(k) : m < n}
           Enough == {n \in Nat : Cardinality(Below(n + 1)) > i}
<1>1. /\ LastName \in Nat /\ Stored(k) \subseteq Names /\ IsFiniteSet(Stored(k))
      /\ \A n \in Nat : IsFiniteSet(Below(n)) /\ Cardinality(Below(n)) \in Nat
  <2>1. IsFiniteSet(Names) /\ LastName \in Nat
    BY FS_Interval DEF Names, EnvironmentAssumption
  <2>2. Stored(k) \subseteq Names /\ IsFiniteSet(Stored(k))
    BY <2>1, FS_Subset DEF Stored
  <2> QED  BY <2>1, <2>2, FS_Subset, FS_CardinalityType
<1>2. Enough # {}
  <2>1. Below(LastName + 1) = Stored(k)
    BY <1>1 DEF Names
  <2> QED  BY <1>1, <2>1
<1>3. PICK n \in Enough : \A m \in Enough : n <= m
  <2>1. Enough \in SUBSET Nat
    OBVIOUS
  <2> HIDE DEF Enough
  <2> QED  BY <1>2, <2>1, LeastOf
<1>4. n \in Nat /\ Cardinality(Below(n + 1)) > i
  OBVIOUS
<1>5. Cardinality(Below(n)) <= i
  <2>1. CASE n = 0
    <3>1. Below(n) = {}
      BY <1>1, <2>1 DEF Names
    <3> HIDE DEF Below
    <3> QED  BY <3>1, FS_EmptySet
  <2>2. CASE n # 0
    <3>1. n - 1 \in Nat /\ n - 1 \notin Enough /\ (n - 1) + 1 = n
      <4> HIDE DEF Enough
      <4> QED  BY <1>3, <1>4, <2>2
    <3>2. ~ (Cardinality(Below(n)) > i)
      <4>1. ~ (Cardinality(Below((n - 1) + 1)) > i)
        BY <3>1
      <4> QED  BY <3>1, <4>1
    <3>3. Cardinality(Below(n)) \in Nat
      BY <1>1, <1>4
    <3> HIDE DEF Below
    <3> QED  BY <3>2, <3>3
  <2> QED  BY <2>1, <2>2
<1>6. Below(n + 1) = IF n \in Stored(k) THEN Below(n) \cup {n} ELSE Below(n)
  BY <1>1, <1>4 DEF Names
<1>7. n \in Stored(k) /\ Cardinality(Below(n)) = i
  <2>1. n \in Stored(k)
    <3> HIDE DEF Below
    <3> QED  BY <1>1, <1>4, <1>5, <1>6
  <2>2. Cardinality(Below(n + 1)) = Cardinality(Below(n)) + 1
    <3>1. n \notin Below(n)
      BY <1>4
    <3> HIDE DEF Below
    <3> QED  BY <1>1, <1>4, <1>6, <2>1, <3>1, FS_AddElement
  <2> HIDE DEF Below
  <2> QED  BY <1>1, <1>4, <1>5, <2>1, <2>2
<1> QED  BY <1>7 DEF NameAt

(* What a value adds to a pass, and what has been added before the index-th *)
(* value of a key, if nobody changes the registry.                          *)
CostAt(k, i) == LET datum == registry[k][NameAt(k, i)] IN IF datum = Other THEN 0 ELSE Measured(datum)
Many(k) == Cardinality(Stored(k))
CostsOf(k) == [i \in 0..(Many(k) - 1) |-> CostAt(k, i)]
CountOf(k) == CHOOSE p : Counts(p, CostsOf(k), Many(k))
Sum(k, i) == IF k = 1 THEN CountOf(1)[i] ELSE CountOf(1)[Many(1)] + CountOf(2)[i]

LEMMA StoredCount == ASSUME EnvironmentAssumption, NEW k \in Keys PROVE Many(k) \in Nat
<1>1. IsFiniteSet(Names)
  BY FS_Interval DEF Names, EnvironmentAssumption
<1>2. IsFiniteSet(Stored(k))
  BY <1>1, FS_Subset DEF Stored
<1> QED  BY <1>2, FS_CardinalityType DEF Many

LEMMA CostIsNumber ==
  ASSUME EnvironmentAssumption, TypeInv, NEW k \in Keys, NEW i \in 0..(Many(k) - 1)
  PROVE  /\ registry[k][NameAt(k, i)] \in Data \cup {Other}
         /\ CostAt(k, i) \in Nat
<1>1. NameAt(k, i) \in Stored(k)
  BY StoredCount, NamedAt DEF Many
<1>2. registry[k][NameAt(k, i)] \in Data \cup {Other}
  BY <1>1 DEF Stored, TypeInv
<1> QED  BY <1>2 DEF CostAt, Measured, Data, EnvironmentAssumption

LEMMA SumGrows ==
  ASSUME EnvironmentAssumption, TypeInv
  PROVE  /\ Sum(1, 0) = 0 /\ Sum(2, 0) = Sum(1, Many(1))
         /\ \A k \in Keys : /\ \A i \in 0..Many(k) : Sum(k, i) \in Nat /\ Sum(k, i) <= Sum(2, Many(2))
                            /\ \A i \in 0..(Many(k) - 1) : Sum(k, i + 1) = Sum(k, i) + CostAt(k, i)
<1>1. ASSUME NEW k \in Keys
      PROVE  /\ Many(k) \in Nat
             /\ CountOf(k) \in [0..Many(k) -> Nat] /\ CountOf(k)[0] = 0
             /\ \A i \in 0..(Many(k) - 1) : CountOf(k)[i + 1] = CountOf(k)[i] + CostAt(k, i)
             /\ \A i \in 0..Many(k) : CountOf(k)[i] <= CountOf(k)[Many(k)]
  <2>1. Many(k) \in Nat
    BY StoredCount
  <2>2. CostsOf(k) \in [0..(Many(k) - 1) -> Nat]
    BY CostIsNumber DEF CostsOf
  <2>3. \E p : Counts(p, CostsOf(k), Many(k))
    BY <2>1, <2>2, CountsExist
  <2>4. Counts(CountOf(k), CostsOf(k), Many(k))
    BY <2>3 DEF CountOf
  <2>5. \A i \in 0..(Many(k) - 1) : CostsOf(k)[i] = CostAt(k, i)
    BY DEF CostsOf
  <2> QED  BY <2>1, <2>4, <2>5 DEF Counts
<1>2. 1 \in Keys /\ 2 \in Keys /\ Keys = {1, 2}
  BY DEF Keys
<1>3. Sum(1, 0) = 0 /\ Sum(2, 0) = Sum(1, Many(1))
  <2>1. CountOf(1)[Many(1)] \in Nat
    BY <1>1, <1>2
  <2> QED  BY <1>1, <1>2, <2>1 DEF Sum
<1>4. ASSUME NEW i \in 0..Many(1)
      PROVE  Sum(1, i) \in Nat /\ Sum(1, i) <= Sum(2, Many(2))
  BY <1>1, <1>2 DEF Sum
<1>5. ASSUME NEW i \in 0..Many(2)
      PROVE  Sum(2, i) \in Nat /\ Sum(2, i) <= Sum(2, Many(2))
  <2>1. CountOf(1)[Many(1)] \in Nat
    BY <1>1, <1>2
  <2>2. CountOf(2)[i] \in Nat /\ CountOf(2)[Many(2)] \in Nat /\ CountOf(2)[i] <= CountOf(2)[Many(2)]
    <3>1. i \in 0..Many(2) /\ Many(2) \in 0..Many(2)
      BY <1>1, <1>2
    <3>2. /\ CountOf(2) \in [0..Many(2) -> Nat]
          /\ \A j \in 0..Many(2) : CountOf(2)[j] <= CountOf(2)[Many(2)]
      BY <1>1, <1>2
    <3> QED  BY <3>1, <3>2
  <2> QED  BY <2>1, <2>2 DEF Sum
<1>6. ASSUME NEW i \in 0..(Many(1) - 1) PROVE Sum(1, i + 1) = Sum(1, i) + CostAt(1, i)
  BY <1>1, <1>2 DEF Sum
<1>7. ASSUME NEW i \in 0..(Many(2) - 1) PROVE Sum(2, i + 1) = Sum(2, i) + CostAt(2, i)
  <2>1. i \in 0..Many(2) /\ i + 1 \in 0..Many(2)
    BY <1>1, <1>2
  <2>2. CountOf(2)[i] \in Nat /\ CountOf(1)[Many(1)] \in Nat
    BY <1>1, <1>2, <2>1
  <2>4. CostAt(2, i) \in Nat
    BY <1>2, CostIsNumber
  <2>3. CountOf(2)[i + 1] = CountOf(2)[i] + CostAt(2, i)
    BY <1>1, <1>2
  <2> QED  BY <2>2, <2>3, <2>4 DEF Sum
<1> QED  BY <1>2, <1>3, <1>4, <1>5, <1>6, <1>7

(***************************************************************************)
(* The two passes.  As long as nobody changes the registry, what either    *)
(* pass has counted is the sum of what it has met, and the second pass     *)
(* meets what the first one met.                                           *)
(***************************************************************************)
PassOK ==
    /\ TotalBytes \in Nat /\ Dst \in Nat /\ index \in Nat
    /\ pc \in {"Measure", "Fill"} /\ steady => index <= Many(key)
    /\ pc = "Measure" => Dst = 0 /\ (steady => TotalBytes = Sum(key, index))
    /\ pc = "Fill" /\ steady => TotalBytes = Sum(2, Many(2)) /\ Dst = Sum(key, index)
    /\ pc = "Held" /\ steady => Dst = TotalBytes

LEMMA PassFits == ASSUME EnvironmentAssumption, EnvTypes, PassOK PROVE StringsFit
<1>1. CASE pc = "Fill" /\ steady
  <2>1. key \in Keys /\ index \in 0..Many(key)
    BY <1>1, StoredCount DEF PassOK, EnvTypes, TypeInv
  <2>2. Sum(key, index) <= Sum(2, Many(2))
    BY <2>1, SumGrows DEF EnvTypes
  <2> QED  BY <1>1, <2>2 DEF PassOK, StringsFit
<1> QED  BY <1>1 DEF PassOK, StringsFit

LEMMA InitPass == Init => PassOK
  BY DEF Init, PassOK

LEMMA StringsPass ==
  ASSUME EnvironmentAssumption, EnvTypes, PassOK, GetEnvironmentStringsW PROVE PassOK'
<1>1. ListTotal(Measured) \in Nat /\ ListTotal(Written) = ListTotal(Measured)
  BY ListTotals DEF EnvTypes
<1>2. /\ index' = 0 /\ key' = 1 /\ TotalBytes' \in Nat /\ Dst' \in Nat
      /\ \/ pc' = "Held" /\ Dst' = TotalBytes'
         \/ pc' = "Idle"
         \/ pc' = "Measure" /\ TotalBytes' = 0 /\ Dst' = 0
  <2> DEFINE sum == ListTotal(Measured)
             copied == ListTotal(Written)
  <2>1. sum \in Nat /\ copied = sum
    BY <1>1
  <2>2. /\ index' = 0 /\ key' = 1
        /\ \/ pc' = "Held" /\ TotalBytes' = sum /\ Dst' = copied
           \/ pc' = "Idle" /\ TotalBytes' = sum /\ Dst' = 0
           \/ pc' = "Measure" /\ TotalBytes' = 0 /\ Dst' = 0
    BY DEF GetEnvironmentStringsW
  <2> HIDE DEF sum, copied
  <2> QED  BY <2>1, <2>2
<1>3. registry' = registry
  BY DEF GetEnvironmentStringsW
<1>4. Sum(1, 0)' = 0 /\ (0 <= Many(1))'
  <2>1. Sum(1, 0) = 0 /\ 0 <= Many(1)
    BY SumGrows, StoredCount DEF EnvTypes, Keys
  <2> QED  BY <1>3, <2>1 DEF Sum, CountOf, CostsOf, CostAt, Many, Stored, NameAt
<1> QED  BY <1>2, <1>4 DEF PassOK

(* What a pass does with the value it is at.                               *)
LEMMA ValueCounted ==
  ASSUME EnvironmentAssumption, EnvTypes, index \in Nat, index < Cardinality(Stored(key))
  PROVE  /\ CostAt(key, index) \in Nat /\ index + 1 <= Many(key)
         /\ Sum(key, index + 1) = Sum(key, index) + CostAt(key, index)
         /\ LET datum == registry[key][NameAt(key, index)] IN
            /\ Measured(datum) = Written(datum)
            /\ CostAt(key, index) = (IF datum = Other THEN 0 ELSE Measured(datum))
            /\ datum # Other => Measured(datum) \in Nat
<1>1. key \in Keys /\ Many(key) \in Nat /\ index \in 0..(Many(key) - 1)
  BY StoredCount DEF EnvTypes, TypeInv, Many
<1>2. CostAt(key, index) \in Nat /\ registry[key][NameAt(key, index)] \in Data \cup {Other}
  BY <1>1, CostIsNumber DEF EnvTypes
<1>3. Sum(key, index + 1) = Sum(key, index) + CostAt(key, index)
  BY <1>1, SumGrows DEF EnvTypes
<1> QED  BY <1>1, <1>2, <1>3 DEF CostAt, Measured, Written

LEMMA MeasurePass ==
  ASSUME EnvironmentAssumption, EnvTypes, PassOK, Measure PROVE PassOK'
<1>1. registry' = registry /\ pc = "Measure" /\ Dst' = 0 /\ Dst = 0 /\ key \in Keys
  BY DEF Measure, StringsUntouched, EndOfKey, PassOK, EnvTypes, TypeInv
<1>2. /\ \A k, i : Sum(k, i)' = Sum(k, i)
      /\ \A k : Many(k)' = Many(k)
  BY <1>1 DEF Sum, CountOf, CostsOf, CostAt, Many, Stored, NameAt
<1>3. /\ Sum(1, 0) = 0 /\ Sum(2, 0) = Sum(1, Many(1)) /\ Many(1) \in Nat /\ Many(2) \in Nat
  BY SumGrows, StoredCount DEF EnvTypes, Keys
<1>4. CASE EndOfKey /\ (OtherKey \/ (LastKey /\ AllocateBlock))
  <2>1. index' = 0 /\ TotalBytes' = TotalBytes
        /\ (steady' => steady /\ index >= Many(key))
    BY <1>4 DEF EndOfKey, Many
  <2>2. steady' => TotalBytes = Sum(key, Many(key))
    BY <1>1, <1>3, <2>1 DEF PassOK, Keys
  <2>3. CASE OtherKey
    BY <1>1, <1>2, <1>3, <2>1, <2>2, <2>3 DEF OtherKey, PassOK
  <2>4. CASE LastKey /\ AllocateBlock
    BY <1>1, <1>2, <1>3, <2>1, <2>2, <2>4 DEF LastKey, AllocateBlock, PassOK
  <2> QED  BY <1>4, <2>3, <2>4
<1>5. CASE index < Cardinality(Stored(key)) /\ index' = index + 1 /\ key' = key /\ pc' = pc
  <2>1. index \in Nat /\ TotalBytes \in Nat
    BY DEF PassOK
  <2>2. /\ TotalBytes' \in Nat
        /\ steady' => steady /\ TotalBytes' = TotalBytes + CostAt(key, index)
    BY <1>5, <2>1, ValueCounted DEF Measure, EndOfKey
  <2> QED  BY <1>1, <1>2, <1>5, <2>1, <2>2, ValueCounted DEF PassOK
<1> QED  BY <1>4, <1>5 DEF Measure

LEMMA FillPass ==
  ASSUME EnvironmentAssumption, EnvTypes, PassOK, Fill PROVE PassOK'
<1>1. registry' = registry /\ pc = "Fill" /\ TotalBytes' = TotalBytes /\ key \in Keys
  BY DEF Fill, StringsUntouched, EndOfKey, PassOK, EnvTypes, TypeInv
<1>2. /\ \A k, i : Sum(k, i)' = Sum(k, i)
      /\ \A k : Many(k)' = Many(k)
  BY <1>1 DEF Sum, CountOf, CostsOf, CostAt, Many, Stored, NameAt
<1>3. /\ Sum(1, 0) = 0 /\ Sum(2, 0) = Sum(1, Many(1)) /\ Many(1) \in Nat /\ Many(2) \in Nat
  BY SumGrows, StoredCount DEF EnvTypes, Keys
<1>4. CASE EndOfKey /\ (OtherKey \/ (LastKey /\ pc' = "Held" /\ UNCHANGED heap))
  <2>1. index' = 0 /\ Dst' = Dst
        /\ (steady' => steady /\ index >= Many(key))
    BY <1>4 DEF EndOfKey, Many
  <2>2. steady' => Dst = Sum(key, Many(key))
    BY <1>1, <1>3, <2>1 DEF PassOK, Keys
  <2>3. CASE OtherKey
    BY <1>1, <1>2, <1>3, <2>1, <2>2, <2>3 DEF OtherKey, PassOK
  <2>4. CASE LastKey /\ pc' = "Held"
    BY <1>1, <1>2, <1>3, <2>1, <2>2, <2>4 DEF LastKey, PassOK
  <2> QED  BY <1>4, <2>3, <2>4
<1>5. CASE index < Cardinality(Stored(key)) /\ index' = index + 1 /\ key' = key /\ pc' = pc
  <2>1. index \in Nat /\ Dst \in Nat
    BY DEF PassOK
  <2>2. /\ Dst' \in Nat
        /\ steady' => steady /\ Dst' = Dst + CostAt(key, index)
    BY <1>5, <2>1, ValueCounted DEF Fill, EndOfKey
  <2> QED  BY <1>1, <1>2, <1>5, <2>1, <2>2, ValueCounted DEF PassOK
<1> QED  BY <1>4, <1>5 DEF Fill

LEMMA NextPass ==
  ASSUME EnvironmentAssumption PROVE EnvTypes /\ PassOK /\ [Next]_vars => PassOK'
<1> SUFFICES ASSUME EnvTypes, PassOK, [Next]_vars PROVE PassOK'
  OBVIOUS
<1>1. ASSUME TotalBytes' \in Nat, Dst' \in Nat, index' \in Nat,
             pc' \notin {"Measure", "Fill"}, pc' # "Held" PROVE PassOK'
  BY <1>1 DEF PassOK
<1>2. ASSUME NEW n \in Names, NEW size \in Sizes, GetEnvironmentVariableW(n, size) PROVE PassOK'
  BY <1>1, <1>2 DEF GetEnvironmentVariableW, ForgetStrings, LookAtList, Returns
<1>3. CASE QueryKey \/ ReadKey
  BY <1>1, <1>3 DEF QueryKey, ReadKey, NextKey, Returns, Untouched, strings, PassOK, EnvTypes, PlaceOK
<1>4. ASSUME NEW text \in Sources, NEW size \in Sizes, ExpandEnvironmentStringsW(text, size)
      PROVE  PassOK'
  BY <1>1, <1>4 DEF ExpandEnvironmentStringsW, ForgetStrings
<1>5. CASE ExpandCharacter \/ ExpandReference \/ ExpandSized \/ ExpandCopied \/ ExpandReturn
  <2>1. pc' \in {"Expand", "Answered", "Query", "Idle"} /\ UNCHANGED strings
    BY <1>5 DEF ExpandCharacter, ExpandReference, ExpandSized, ExpandCopied, ExpandReturn,
         LookAtList, Returns
  <2> QED  BY <1>1, <2>1 DEF strings, PassOK
<1>6. CASE FreeEnvironmentStringsW
  BY <1>1, <1>6 DEF FreeEnvironmentStringsW, PassOK
<1>7. ASSUME UNCHANGED <<registry, pc, key, steady, strings>> PROVE PassOK'
  <2>1. Many(key)' = Many(key) /\ Many(2)' = Many(2)
    BY <1>7 DEF Many, Stored
  <2>2. Sum(key, index)' = Sum(key, index) /\ Sum(2, Many(2))' = Sum(2, Many(2))
    BY <1>7 DEF strings, Sum, CountOf, CostsOf, CostAt, Many, Stored, NameAt
  <2> QED  BY <1>7, <2>1, <2>2 DEF strings, PassOK
<1>8. ASSUME NEW n \in Names, NEW value \in Values \cup {Absent}, SetEnvironmentVariableW(n, value)
      PROVE  PassOK'
  BY <1>7, <1>8 DEF SetEnvironmentVariableW, get
<1>9. ASSUME NEW k \in Keys, NEW n \in Names, NEW datum \in Data \cup {Absent, Other},
             ZwSetValueKey(k, n, datum)
      PROVE  PassOK'
  <2>1. UNCHANGED <<pc, TotalBytes, Dst, index>> /\ steady' = (steady /\ Between)
    BY <1>9 DEF ZwSetValueKey, strings
  <2> QED  BY <2>1 DEF PassOK, Between
<1>10. CASE Others
  <2>1. ASSUME NEW place \in Places PROVE place[1] \in Keys /\ place[2] \in Names
    BY <2>1 DEF EnvironmentAssumption
  <2> QED  BY <1>8, <1>9, <1>10, <2>1 DEF Others
<1>11. CASE UNCHANGED vars
  BY <1>7, <1>11 DEF vars, get, history
<1> QED
  BY <1>2, <1>3, <1>4, <1>5, <1>6, <1>10, <1>11, StringsPass, MeasurePass, FillPass DEF Next, Reader

(* The block GetEnvironmentStringsW allocates for the strings of the       *)
(* registry is as long as what its second pass writes, however many names   *)
(* and values there are; from the list, it is measured and filled alike.   *)
THEOREM StringsAlwaysFit == ASSUME EnvironmentAssumption PROVE Spec => []StringsFit
<1>1. EnvTypes /\ PassOK => StringsFit
  BY PassFits
<1> QED  BY InitPass, NextPass, EnvTypesCorrect, <1>1, PTL DEF Spec

(* Every variable, the sums and the count of blocks included, stays in its  *)
(* type: no block of the heap is freed that was not there.                  *)
THEOREM VariablesTypeCorrect == ASSUME EnvironmentAssumption PROVE Spec => []TypeOK
<1>1. EnvTypes /\ PassOK /\ HeapBalanced => TypeOK
  <2> SUFFICES ASSUME EnvTypes, PassOK, HeapBalanced PROVE TypeOK
    OBVIOUS
  <2>1. heap = 3 * Cardinality(Listed(EnvironmentList)) + InUse /\ InUse \in {0, 1}
    BY BalancedIs DEF InUse
  <2>2. heap \in Nat
    BY <2>1, ListedFinite
  <2> QED  BY <2>2 DEF EnvTypes, TypeInv, PassOK, TypeOK
<1> QED  BY InitPass, NextPass, EnvTypesCorrect, HeapIsBalanced, <1>1, PTL DEF Spec
=============================================================================
