------------------------ MODULE EnvironmentVariables ------------------------
(***************************************************************************)
(* The environment of KernelBase.System.cpp: a list of variables on the    *)
(* PEB and, for a name that is not on it, two registry keys.               *)
(*                                                                         *)
(* The PEB lock covers one look at the list and one change of it; the      *)
(* registry is read in several calls, and anybody may change either in     *)
(* between.  Readers do not disturb each other, so one of them is modelled *)
(* step by step, beside any number of threads that set variables and       *)
(* whoever writes the registry.                                            *)
(*                                                                         *)
(* A value is its length in characters.  A registry datum is the number of *)
(* characters stored, terminator included, or Other for a type that is no  *)
(* string.  A name is one character long.                                  *)
(***************************************************************************)
EXTENDS Integers, Sequences, FiniteSetsExt

CONSTANTS LastName,     \* names are 1..LastName, in the order the registry lists them
          MaxLength,    \* values have at most this length
          Slack,        \* by how much a datum may grow between its two queries
          Sizes,        \* the buffer sizes callers pass; 0 asks for the size
          Sources,      \* the texts that are expanded: sequences of names, 0 a plain character
          Registries,   \* what the registry may hold at the start
          Places,       \* <<key, name>>: where others write the registry
          Absent, Other,
          MaxChanges    \* bound: changes of the registry and of the list during a call

Names == 1..LastName
Keys == 1..2
Values == 0..MaxLength
Data == 1..(MaxLength + 1)
Looks == 0..2 \* where a value is looked for, in this order: the list, the two keys

ASSUME EnvironmentAssumption ==
    /\ LastName \in Nat \ {0} /\ MaxLength \in Nat /\ Slack \in Nat /\ MaxChanges \in Nat
    /\ Sizes \subseteq Nat
    /\ Sources \subseteq Seq(Names \cup {0})
    /\ Registries \subseteq [Keys -> [Names -> Data \cup {Absent, Other}]]
    /\ Places \subseteq Keys \X Names
    /\ Absent \notin Values \cup Data /\ Other \notin Data \cup {Absent}

VARIABLES
    failing,            \* whether allocations and registry calls may fail; chosen at the start
    EnvironmentList,    \* the value of each name on the list of the PEB, or Absent
    registry,           \* the datum of each name under each key, or Absent
    heap,               \* how many blocks of the process heap the code has and has not freed
    pc, op,             \* the reader: where it is, and for whom
    name, nSize,        \* the arguments of GetEnvironmentVariableW
    key, need,          \* the key it is at, the size its first query gave
    ret,                \* what it returned, and the value it copied
    rest, space,        \* ExpandEnvironmentStringsW: the text left, the size of the buffer,
    room, filled, total,\* Remaining, the characters before Dst, TotalLen,
    ValLen, whole,      \* the size a reference was given; history: no value was cut or missed
    index, TotalBytes, Dst,    \* GetEnvironmentStringsW: value, size of the block, characters in it
    steady, listSteady, changes,     \* history since the call began: registry and memory as
                               \* before, list as before, how many changes;
    inForce, past, missed      \* of GetEnvironmentVariableW: the values in force for name, those
                               \* at each of the places it looks at, whether one got past it

get == <<name, nSize, key, need, ret>>
expand == <<rest, space, room, filled, total, ValLen, whole>>
strings == <<index, TotalBytes, Dst>>
history == <<steady, listSteady, changes, inForce, past, missed>>
vars == <<failing, EnvironmentList, registry, heap, pc, op, get, expand, strings, history>>

TypeOK ==
    /\ failing \in BOOLEAN
    /\ EnvironmentList \in [Names -> Values \cup {Absent}]
    /\ registry \in [Keys -> [Names -> Data \cup {Absent, Other}]]
    /\ heap \in Nat
    /\ pc \in {"Idle", "Query", "Read", "Answered", "Expand", "Measure", "Fill", "Held"}
    /\ op \in {"Get", "Strings", "Expand", "ExpandSize", "ExpandCopy"}
    /\ name \in Names /\ nSize \in Nat /\ key \in Keys /\ need \in Data \cup {0, Other}
    /\ ret \in [result : Nat, copied : Values \cup {Absent}]
    /\ rest \in Seq(Names \cup {0}) /\ space \in Nat /\ room \in Nat
    /\ filled \in Nat /\ total \in Nat /\ ValLen \in Nat /\ whole \in BOOLEAN
    /\ index \in Nat /\ TotalBytes \in Nat /\ Dst \in Nat
    /\ steady \in BOOLEAN /\ listSteady \in BOOLEAN /\ changes \in 0..MaxChanges
    /\ inForce \subseteq Values \cup {Absent}
    /\ past \in [Looks -> SUBSET (Values \cup {Absent})] /\ missed \in BOOLEAN

NoAnswer == [result |-> 0, copied |-> Absent]

Init ==
    /\ failing \in BOOLEAN
    /\ EnvironmentList = [n \in Names |-> Absent]
    /\ registry \in Registries
    /\ heap = 0
    /\ pc = "Idle" /\ op = "Strings"
    /\ name = 1 /\ nSize = 0 /\ key = 1 /\ need = 0 /\ ret = NoAnswer
    /\ rest = <<>> /\ space = 0 /\ room = 0 /\ filled = 0 /\ total = 0
    /\ ValLen = 0 /\ whole = TRUE
    /\ index = 0 /\ TotalBytes = 0 /\ Dst = 0
    /\ steady = TRUE /\ listSteady = TRUE /\ changes = 0
    /\ inForce = {} /\ past = [l \in Looks |-> {}] /\ missed = FALSE

(* What a look gives for a name; and the value in force: that of the first *)
(* look that gives one.                                                    *)
Gives(list, reg, l, n) ==
    IF l = 0 THEN list[n]
    ELSE IF reg[l][n] \in Data THEN reg[l][n] - 1
    ELSE Absent

FirstOf(given) ==
    IF given[0] # Absent THEN given[0] ELSE IF given[1] # Absent THEN given[1] ELSE given[2]

InForce(list, reg, n) == FirstOf([l \in Looks |-> Gives(list, reg, l, n)])

(* The history of a call that is no GetEnvironmentVariableW.               *)
NotWatched == inForce' = {} /\ past' = [l \in Looks |-> {}] /\ missed' = FALSE

(* The locals of one function mean nothing in a call of another.           *)
ForgetGet == name' = 1 /\ nSize' = 0 /\ key' = 1 /\ need' = 0 /\ ret' = NoAnswer
ForgetExpand ==
    /\ rest' = <<>> /\ space' = 0 /\ room' = 0 /\ filled' = 0 /\ total' = 0
    /\ ValLen' = 0 /\ whole' = TRUE
ForgetStrings == index' = 0 /\ TotalBytes' = 0 /\ Dst' = 0

-----------------------------------------------------------------------------
(* GetEnvironmentVariableW.  With room for the value and its terminator it *)
(* copies it and returns its length, else it returns the room it needs.    *)
AnswerOf(value, size) ==
    [result |-> IF size > value THEN value ELSE value + 1,
     copied |-> IF size > value THEN value ELSE Absent]

Returns(answer, for) ==
    /\ ret' = answer
    /\ pc' = IF for = "Get" THEN "Idle" ELSE "Answered"
    /\ key' = 1 /\ need' = 0

(* The look at the list, under the PEB lock, with which every call begins. *)
LookAtList(n, size, for) ==
    /\ name' = n /\ nSize' = size /\ op' = for
    /\ \/ /\ EnvironmentList[n] # Absent
          /\ Returns(AnswerOf(EnvironmentList[n], size), for)
       \/ /\ EnvironmentList[n] = Absent
          /\ pc' = "Query" /\ key' = 1 /\ need' = 0 /\ ret' = NoAnswer

GetEnvironmentVariableW(n, size) ==
    /\ pc = "Idle"
    /\ LookAtList(n, size, "Get")
    /\ steady' = TRUE /\ listSteady' = TRUE /\ changes' = 0
    /\ inForce' = {InForce(EnvironmentList, registry, n)}
    /\ past' = [l \in Looks |-> {Gives(EnvironmentList, registry, l, n)}]
    /\ missed' = FALSE
    /\ ForgetExpand /\ ForgetStrings
    /\ UNCHANGED <<failing, EnvironmentList, registry, heap>>

BadNextKey == Returns(NoAnswer, op) \* as if there were one key
NextKey ==
    \/ key = 1 /\ key' = 2 /\ pc' = "Query" /\ need' = 0 /\ UNCHANGED ret
    \/ key = 2 /\ Returns(NoAnswer, op)

Untouched == UNCHANGED <<failing, EnvironmentList, registry, op, name, nSize, expand, strings,
                         listSteady, changes, inForce, past>>

(* A call that fails and with it the look at the key.                      *)
Misses == steady' = FALSE /\ missed' = TRUE

(* Opening the key, asking for the size, allocating a buffer of that size. *)
QueryKey ==
    /\ pc = "Query"
    /\ \/ /\ registry[key][name] = Absent
          /\ NextKey /\ UNCHANGED <<heap, steady, missed>>
       \/ /\ failing /\ registry[key][name] # Absent
          /\ NextKey /\ Misses /\ UNCHANGED heap
       \/ /\ registry[key][name] # Absent
          /\ pc' = "Read" /\ need' = registry[key][name]
          /\ heap' = heap + 1
          /\ UNCHANGED <<key, ret, steady, missed>>
    /\ Untouched

(* The second query, into that buffer, which is freed on every way out.  A *)
(* string in place of data of another type may fit there or not.           *)
Fits(d) == d \in (IF need = Other THEN Data ELSE Data \cap 1..(need + Slack))
Outgrew(d) == d \in (IF need = Other THEN Data ELSE Data \ 1..(need + Slack))

ReadKey ==
    /\ pc = "Read"
    /\ LET datum == registry[key][name] IN
       \/ /\ Fits(datum)
          /\ Returns(AnswerOf(datum - 1, nSize), op) /\ UNCHANGED <<steady, missed>>
       \/ /\ datum \notin Data
          /\ NextKey /\ UNCHANGED <<steady, missed>>
       \/ /\ failing \/ Outgrew(datum)
          /\ NextKey /\ Misses
    /\ heap' = heap - 1
    /\ Untouched

-----------------------------------------------------------------------------
(* SetEnvironmentVariableW, under the PEB lock held exclusive.  A new entry *)
(* is three blocks; an allocation that fails takes back those before it.   *)
EntryParts == {"Entry", "Name", "Value"}
BadTakenBack(got) == got \ {"Value"} \* as if the value were forgotten
TakenBack(got) == got

Between == pc \in {"Idle", "Held"} \* no call is being modelled

Changed(list, reg) ==
    /\ changes' = IF Between THEN changes ELSE changes + 1
    /\ IF Between \/ op # "Get"
       THEN UNCHANGED <<inForce, past>>
       ELSE /\ inForce' = inForce \cup {InForce(list, reg, name)}
            /\ past' = [l \in Looks |-> past[l] \cup {Gives(list, reg, l, name)}]
    /\ UNCHANGED missed

SetEnvironmentVariableW(n, value) ==
    /\ Between \/ changes < MaxChanges
    /\ \/ /\ value = Absent /\ EnvironmentList[n] # Absent
          /\ heap' = heap - Cardinality(EntryParts)
          /\ EnvironmentList' = [EnvironmentList EXCEPT ![n] = Absent]
       \/ /\ value # Absent /\ EnvironmentList[n] # Absent
          /\ EnvironmentList' = [EnvironmentList EXCEPT ![n] = value]
          /\ UNCHANGED heap
       \/ /\ value # Absent /\ EnvironmentList[n] = Absent
          /\ heap' = heap + Cardinality(EntryParts)
          /\ EnvironmentList' = [EnvironmentList EXCEPT ![n] = value]
       \/ /\ value # Absent /\ EnvironmentList[n] = Absent /\ failing
          /\ \E got \in {{}, {"Entry"}, {"Entry", "Name"}, {"Entry", "Value"}} :
                heap' = heap + Cardinality(got) - Cardinality(TakenBack(got))
          /\ UNCHANGED EnvironmentList
    /\ Changed(EnvironmentList', registry)
    /\ listSteady' = (listSteady /\ Between)
    /\ UNCHANGED <<failing, registry, pc, op, get, expand, strings, steady>>

(* Somebody writes, or deletes, a value of the registry.                   *)
ZwSetValueKey(k, n, datum) ==
    /\ Between \/ changes < MaxChanges
    /\ registry[k][n] # datum
    /\ registry' = [registry EXCEPT ![k][n] = datum]
    /\ Changed(EnvironmentList, registry')
    /\ steady' = (steady /\ Between)
    /\ UNCHANGED <<failing, EnvironmentList, heap, pc, op, get, expand, strings, listSteady>>

-----------------------------------------------------------------------------
(* ExpandEnvironmentStringsW.  For each reference the variable is read     *)
(* twice: its size, and, if that fits, the value into what room is left.   *)
ExpandEnvironmentStringsW(text, size) ==
    /\ pc = "Idle"
    /\ pc' = "Expand" /\ op' = "Expand"
    /\ rest' = text /\ space' = size /\ room' = size
    /\ filled' = 0 /\ total' = 0 /\ ValLen' = 0 /\ whole' = TRUE
    /\ steady' = TRUE /\ listSteady' = TRUE /\ changes' = 0 /\ NotWatched
    /\ ForgetGet /\ ForgetStrings
    /\ UNCHANGED <<failing, EnvironmentList, registry, heap>>

ExpandCharacter ==
    /\ pc = "Expand" /\ rest # <<>> /\ Head(rest) = 0
    /\ rest' = Tail(rest)
    /\ total' = total + 1
    /\ \/ room > 0 /\ filled' = filled + 1 /\ room' = room - 1
       \/ room = 0 /\ UNCHANGED <<filled, room>>
    /\ UNCHANGED <<failing, EnvironmentList, registry, heap, pc, op, get, space, ValLen, whole,
                   strings, history>>

ExpandReference ==
    /\ pc = "Expand" /\ rest # <<>> /\ Head(rest) # 0
    /\ LookAtList(Head(rest), 0, "ExpandSize")
    /\ UNCHANGED <<failing, EnvironmentList, registry, heap, expand, strings, history>>

(* The size is known: no variable, no room, or the second reading.         *)
ExpandSized ==
    /\ pc = "Answered" /\ op = "ExpandSize"
    /\ \/ /\ ret.result = 0
          /\ pc' = "Expand" /\ rest' = Tail(rest)
          /\ UNCHANGED <<op, get, room, total, ValLen>>
       \/ /\ ret.result > room
          /\ pc' = "Expand" /\ rest' = Tail(rest)
          /\ room' = 0 /\ total' = total + ret.result - 1
          /\ UNCHANGED <<op, get, ValLen>>
       \/ /\ ret.result \in 1..room
          /\ ValLen' = ret.result
          /\ LookAtList(Head(rest), room, "ExpandCopy")
          /\ UNCHANGED <<rest, room, total>>
    /\ UNCHANGED <<failing, EnvironmentList, registry, heap, space, filled, whole, strings, history>>

(* Dst moves on by the size of the first reading, whatever the second gave. *)
BadAdvance(size) == size \* as if the terminator were kept
Advance(size) == size - 1

ExpandCopied ==
    /\ pc = "Answered" /\ op = "ExpandCopy"
    /\ pc' = "Expand" /\ rest' = Tail(rest)
    /\ filled' = filled + Advance(ValLen)
    /\ room' = room - Advance(ValLen)
    /\ total' = total + ValLen - 1
    /\ whole' = (whole /\ ret.copied = Advance(ValLen))
    /\ UNCHANGED <<failing, EnvironmentList, registry, heap, op, get, space, ValLen, strings, history>>

ExpandReturn ==
    /\ pc = "Expand" /\ rest = <<>>
    /\ pc' = "Idle" /\ op' = "Expand"
    /\ ret' = [result |-> total + 1, copied |-> Absent]
    /\ UNCHANGED <<failing, EnvironmentList, registry, heap, name, nSize, key, need, expand,
                   strings, history>>

-----------------------------------------------------------------------------
(* GetEnvironmentStringsW.  A list with entries is measured and copied     *)
(* under one acquisition of the PEB lock.  For an empty one the registry   *)
(* is measured in a first pass and copied in a second; in each, one value  *)
(* of one key is one step.  Sizes are counted in characters.               *)
BadMeasured(stored) == 1 + stored \* as if the "=" took no room
Measured(stored) == 1 + 1 + stored \* the name, the "=", the value with its terminator
Written(stored) == 1 + 1 + stored

OnList == {n \in Names : EnvironmentList[n] # Absent}
ListTotal(Size(_)) == MapThenSumSet(LAMBDA n : Size(EnvironmentList[n] + 1), OnList)

(* The values ZwEnumerateValueKey numbers from 0.                          *)
Stored(k) == {n \in Names : registry[k][n] # Absent}
NameAt(k, i) == CHOOSE n \in Stored(k) : Cardinality({m \in Stored(k) : m < n}) = i

GetEnvironmentStringsW ==
    /\ pc = "Idle"
    /\ steady' = TRUE /\ listSteady' = TRUE /\ changes' = 0 /\ NotWatched
    /\ op' = "Strings" /\ index' = 0 /\ key' = 1
    /\ \/ /\ OnList # {}
          /\ pc' = "Held" /\ heap' = heap + 1
          /\ TotalBytes' = ListTotal(Measured) /\ Dst' = ListTotal(Written)
       \/ /\ OnList # {} /\ failing
          /\ pc' = "Idle" /\ UNCHANGED heap
          /\ TotalBytes' = ListTotal(Measured) /\ Dst' = 0
       \/ /\ OnList = {}
          /\ pc' = "Measure" /\ UNCHANGED heap
          /\ TotalBytes' = 0 /\ Dst' = 0
    /\ name' = 1 /\ nSize' = 0 /\ need' = 0 /\ ret' = NoAnswer
    /\ ForgetExpand
    /\ UNCHANGED <<failing, EnvironmentList, registry>>

(* The end of a key, or no key at all: the other key, or what follows both. *)
OtherKey == key = 1 /\ key' = 2 /\ UNCHANGED <<pc, heap>>
LastKey == key = 2 /\ key' = 1

StringsUntouched ==
    UNCHANGED <<failing, EnvironmentList, registry, op, name, nSize, need, ret, expand,
                listSteady, changes, inForce, past, missed>>

EndOfKey ==
    /\ index' = 0
    /\ \/ index >= Cardinality(Stored(key)) /\ UNCHANGED steady
       \/ failing /\ steady' = FALSE
    /\ UNCHANGED <<TotalBytes, Dst>>

AllocateBlock ==
    \/ pc' = "Fill" /\ TotalBytes > 0 /\ heap' = heap + 1
    \/ pc' = "Held" /\ TotalBytes = 0 /\ heap' = heap + 1
    \/ pc' = "Idle" /\ failing /\ UNCHANGED heap

Measure ==
    /\ pc = "Measure"
    /\ \/ EndOfKey /\ (OtherKey \/ (LastKey /\ AllocateBlock))
       \/ /\ index < Cardinality(Stored(key))
          /\ index' = index + 1
          /\ LET datum == registry[key][NameAt(key, index)] IN
             \/ datum # Other /\ TotalBytes' = TotalBytes + Measured(datum) /\ UNCHANGED steady
             \/ datum = Other /\ UNCHANGED <<TotalBytes, steady>>
             \/ failing /\ steady' = FALSE /\ UNCHANGED TotalBytes
          /\ UNCHANGED <<pc, key, heap, Dst>>
    /\ StringsUntouched

Fill ==
    /\ pc = "Fill"
    /\ \/ EndOfKey /\ (OtherKey \/ (LastKey /\ pc' = "Held" /\ UNCHANGED heap))
       \/ /\ index < Cardinality(Stored(key))
          /\ index' = index + 1
          /\ LET datum == registry[key][NameAt(key, index)] IN
             \/ datum # Other /\ Dst' = Dst + Written(datum) /\ UNCHANGED steady
             \/ datum = Other /\ UNCHANGED <<Dst, steady>>
             \/ failing /\ steady' = FALSE /\ UNCHANGED Dst
          /\ UNCHANGED <<pc, key, heap, TotalBytes>>
    /\ StringsUntouched

FreeEnvironmentStringsW ==
    /\ pc = "Held"
    /\ pc' = "Idle" /\ heap' = heap - 1
    /\ TotalBytes' = 0 /\ Dst' = 0
    /\ UNCHANGED <<failing, EnvironmentList, registry, op, get, expand, index, history>>

-----------------------------------------------------------------------------
Reader ==
    \/ \E n \in Names, size \in Sizes : GetEnvironmentVariableW(n, size)
    \/ QueryKey \/ ReadKey
    \/ \E text \in Sources, size \in Sizes : ExpandEnvironmentStringsW(text, size)
    \/ ExpandCharacter \/ ExpandReference \/ ExpandSized \/ ExpandCopied \/ ExpandReturn
    \/ GetEnvironmentStringsW \/ Measure \/ Fill \/ FreeEnvironmentStringsW

Others ==
    \/ \E n \in Names, value \in Values \cup {Absent} : SetEnvironmentVariableW(n, value)
    \/ \E place \in Places, datum \in Data \cup {Absent, Other} :
            ZwSetValueKey(place[1], place[2], datum)

Next == Reader \/ Others

Spec == Init /\ [][Next]_vars

-----------------------------------------------------------------------------
(* Properties.                                                             *)

(* The value an answer tells of.                                           *)
Told(answer) ==
    IF answer.copied # Absent THEN answer.copied
    ELSE IF answer.result > 0 THEN answer.result - 1
    ELSE Absent

(* GetEnvironmentVariableW looks at the list and at two registry keys one  *)
(* after the other, each key twice, while others set, delete and write the *)
(* variable as often as they like.  A value it tells of was at one of the  *)
(* three places during the call.  If no query and no allocation failed (as *)
(* the second query does for a datum that outgrew the first), it says that *)
(* there is no value only if each place had none at some moment of the     *)
(* call; and if no more than one of the places changed, what it tells was  *)
(* in force at one moment of the call.                                     *)
Moved == {l \in Looks : \E v, w \in past[l] : v # w}

ReadWasInForce ==
    pc = "Idle" /\ op = "Get" =>
        /\ Told(ret) # Absent => \E l \in Looks : Told(ret) \in past[l]
        /\ Told(ret) = Absent /\ ~missed => \A l \in Looks : Absent \in past[l]
        /\ ~missed /\ (\A l, m \in Moved : l = m) => Told(ret) \in inForce

(* An expansion that returns no more than the size of the buffer has moved *)
(* on by exactly what it counted, whoever changes a variable between its   *)
(* two readings, and has ended the text inside the buffer; and it has put  *)
(* every value there whole unless a variable changed or memory ran out.    *)
ExpansionWhole ==
    pc = "Idle" /\ op = "Expand" /\ ret.result <= space =>
        /\ filled = ret.result - 1 /\ room > 0
        /\ steady /\ listSteady => whole

(* The block of GetEnvironmentStringsW is never written beyond its end,    *)
(* and holds every variable at the end, unless the registry changed or     *)
(* memory ran out between its two passes.                                  *)
StringsFit ==
    (pc = "Fill" \/ (pc = "Held" /\ op = "Strings")) /\ steady =>
        /\ Dst <= TotalBytes
        /\ pc = "Held" => Dst = TotalBytes

(* Whatever fails, the heap holds three blocks for each variable on the    *)
(* list, the buffer of a second query, and the block a caller was given:   *)
(* nothing leaks and nothing is freed twice.                               *)
HeapBalanced ==
    heap = Cardinality(EntryParts) * Cardinality(OnList)
           + (IF pc \in {"Read", "Fill", "Held"} THEN 1 ELSE 0)
=============================================================================
