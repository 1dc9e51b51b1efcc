----------------------------- MODULE CallSteps ------------------------------
(***************************************************************************)
(* The vocabulary in which the functions that only borrow are written      *)
(* down: they check their arguments, borrow what a system service needs (a *)
(* converted path, a handle, a block), call it, give everything back, and  *)
(* answer.                                                                 *)
(*                                                                         *)
(* A function is a record of what a successful call leaves with its caller *)
(* and of its steps.  A step names what it uses and its possible outcomes: *)
(* what the outcome borrows, what it gives back and to whom, whether it    *)
(* sets the last error before or after giving back, and where it leads.    *)
(* What an allocator that fails says of want of memory, and what its       *)
(* caller says of it at once, is told together.                            *)
(* A thing is a pair: its name in the code and its owner.                  *)
(***************************************************************************)
EXTENDS Integers, Sequences

String(names) == names \X {"Pool"}      \* RtlDosPathNameToNtPathName_U, RtlFreeUnicodeString
Block(names)  == names \X {"Heap"}      \* RtlAllocateHeap, LocalAlloc, RtlFreeHeap, LocalFree
Handle(names) == names \X {"Handle"}    \* a service that opens, ZwClose
Object(names) == names \X {"Object"}    \* a counted reference, ObDereferenceObject
View(names)   == names \X {"View"}      \* MmMapViewInSystemSpace, MmUnmapViewInSystemSpace
Lookaside(names) == names \X {"Lookaside"}  \* ExInitializeLookasideListEx and its memory
Effect(names) == names \X {"Effect"}    \* what the caller asked for: a change, an answer

(* Where an outcome leads: a step, or an answer.                           *)
Onward  == 0
Success == -1
Failure == -2
Pending == -3                           \* the answer of an overlapped call under way

Outcome(takes, drops, tells, to) ==
    [when |-> {}, unless |-> {}, takes |-> takes, drops |-> drops, tells |-> tells, to |-> to]

Goes(to)        == Outcome({}, {}, "No", to)
Gets(things)    == Outcome(things, {}, "No", Onward)
Gives(things)   == Outcome({}, things, "No", Onward)
Tells           == Outcome({}, {}, "After", Onward)         \* and goes on
Leads(drops,to) == Outcome({}, drops, "No", to)
Fails(drops)    == Outcome({}, drops, "After", Failure)     \* gives back, then tells
FailsTold(drops) == Outcome({}, drops, "Before", Failure)   \* tells, then gives back
FailsMute(drops) == Outcome({}, drops, "No", Failure)       \* leaves the last error as it is
Finishes(effect) == Outcome(Effect({effect}), {}, "No", Success)

(* An outcome possible only with, or only without, a thing: a null test.   *)
If(things, outcome)     == [outcome EXCEPT !.when = things]
Unless(things, outcome) == [outcome EXCEPT !.unless = things]
Releasing(things, Ends(_)) == {If(things, Ends(things)), Unless(things, Ends({}))}

Step(uses, may) == [uses |-> uses, may |-> may]

(* Arguments that are refused; a service, with what must be given back     *)
(* when it fails; one whose failure is ignored; the end.                   *)
Refuses            == Step({}, {Goes(Onward), Fails({})})
Takes(things, uses, undo) == Step(uses, {Gets(things), Fails(undo)})
Asks(uses, undo)   == Step(uses, {Goes(Onward), Fails(undo)})
Tries(things, uses) == Step(uses, {Gets(things), Goes(Onward)})
Returns(things)    == Step({}, {Gives(things)})
Choice(targets)    == Step({}, {Goes(to) : to \in targets})
Succeeds           == Step({}, {Goes(Success)})

Function(leaves, steps) == [leaves |-> leaves, steps |-> steps]

(* Nothing that can go wrong.                                              *)
Plain(effect) == Function(Effect({effect}), <<Step({}, {Finishes(effect)})>>)

(* RtlDosPathNameToNtPathName_U puts the path in a block of pool.          *)
Path(name, undo) == Takes(String({name}), {}, undo)

(* One system service does it all; with arguments refused before it.       *)
Service(effect) == Function(Effect({effect}), <<Takes(Effect({effect}), {}, {}), Succeeds>>)
Guarded(function) == [function EXCEPT !.steps = <<Refuses>> \o @]

(* A service that opens an object and hands the handle to the caller.      *)
Opens(handle) == Function(Handle({handle}), <<Takes(Handle({handle}), {}, {}), Succeeds>>)
=============================================================================
