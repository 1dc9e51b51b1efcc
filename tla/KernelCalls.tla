---------------------------- MODULE KernelCalls -----------------------------
(***************************************************************************)
(* A thread that calls the functions of a table one after the other, any   *)
(* service failing at any step.  Whatever path a call takes it has to give *)
(* back what it borrowed, to the owner it borrowed it from, and its answer *)
(* and the last error have to tell what happened.                          *)
(*                                                                         *)
(* What the functions borrow is theirs alone, so one call at a time is     *)
(* enough; what they share is the subject of the other modules.            *)
(***************************************************************************)
EXTENDS CallSteps

CONSTANTS
    Program,            \* the functions, by name
    OwnStatus,          \* those that answer a failure with a status, not the last error
    (* Known departures, by function.                                      *)
    MisplacesPath,      \* hands the pool block of a path to RtlFreeHeap
    Forgets,            \* may leave this thing behind: pairs of function and name
    Astray,             \* writes through a pointer it does not have
    Mute,               \* may fail and tell nothing
    Hasty, Spoils,      \* its success, its failure, does not tell all
    Blurs               \* tells of one failure over what it told of an earlier one

VARIABLES
    function, step,     \* the call and its next step
    held,               \* what it has borrowed, and the effects it has had
    lastError,          \* of the thread: as it was, or what this call made of it
    answer              \* Onward while the call runs

callVars == <<function, step, held, lastError, answer>>

Things == UNION {o.takes \cup o.drops : o \in UNION {s.may : s \in
              UNION {{Program[f].steps[i] : i \in DOMAIN Program[f].steps} : f \in DOMAIN Program}}}

(* The last error: as it was; set once; set again over what the same call  *)
(* had told; set by a block that was given to the wrong heap.              *)
Errors == {"Kept", "Told", "Retold", "Spoiled"}

CallTypeOK ==
    /\ function \in DOMAIN Program
    /\ step \in DOMAIN Program[function].steps
    /\ held \subseteq Things
    /\ lastError \in Errors
    /\ answer \in {Onward, Success, Failure, Pending}

Starts(f) == function = f /\ step = 1 /\ held = {} /\ lastError = "Kept" /\ answer = Onward

CallsInit == \E f \in DOMAIN Program : Starts(f)

-----------------------------------------------------------------------------
This == Program[function].steps[step]

Possible(o) == o.when \subseteq held /\ o.unless \cap held = {}

(* RtlFreeHeap looks a block up on its heap.  One it does not find stays   *)
(* where it is, and the last error becomes ERROR_INVALID_PARAMETER.        *)
Misplaced(o) == ~(o.drops \subseteq held)

(* BaseSetLastNTError keeps nothing of what it finds there.                *)
Tell(error) == IF error \in {"Told", "Retold"} THEN "Retold" ELSE "Told"

ErrorAfter(error, o, misplaced) ==
    IF o.tells = "After" THEN Tell(error)
    ELSE IF misplaced THEN "Spoiled"
    ELSE IF o.tells = "Before" THEN Tell(error)
    ELSE error

Proceed(o) ==
    /\ Possible(o)
    /\ held' = (held \ o.drops) \cup o.takes
    /\ lastError' = ErrorAfter(lastError, o, Misplaced(o))
    /\ \/ o.to < 0 /\ answer' = o.to /\ UNCHANGED step
       \/ o.to = Onward /\ step' = step + 1 /\ UNCHANGED answer
       \/ o.to > 0 /\ step' = o.to /\ UNCHANGED answer

Advance ==
    /\ answer = Onward
    /\ \E o \in This.may : Proceed(o)
    /\ UNCHANGED function

Call(f) ==
    /\ answer # Onward
    /\ function' = f /\ step' = 1 /\ held' = {} /\ lastError' = "Kept" /\ answer' = Onward

CallsNext == Advance \/ \E f \in DOMAIN Program : Call(f)

CallsSpec == CallsInit /\ [][CallsNext]_callVars

-----------------------------------------------------------------------------
(* Properties.                                                             *)

Loans(things) == {thing \in things : thing[2] # "Effect"}
Effects(things) == {thing \in things : thing[2] = "Effect"}
Leaves == Program[function].leaves

(* On every way out, whichever service failed, a call has given back every *)
(* path, block, handle, reference and view it borrowed, except those it    *)
(* hands its caller; a function of Forgets may leave what is named there.  *)
GivesBack ==
    answer # Onward =>
        \A thing \in Loans(held) \ (IF answer = Success THEN Leaves ELSE {}) :
            <<function, thing[1]>> \in Forgets

(* No step uses what was given back or never obtained, overwrites what it  *)
(* still holds, or gives something back twice or to another owner.         *)
UsesWhatItHolds ==
    answer = Onward =>
        /\ This.uses \subseteq held \/ function \in Astray
        /\ \A o \in This.may : Possible(o) =>
              /\ o.takes \cap held = {}
              /\ Misplaced(o) => function \in MisplacesPath

(* Success means that all the caller asked for is there; failure that      *)
(* nothing is, not even a part.  Undoing a part may itself be refused; the *)
(* functions of Hasty and Spoils do not keep to this.                      *)
AnswerTellsEffect ==
    /\ answer = Success => Leaves \subseteq held \/ function \in Hasty
    /\ answer = Failure =>
           \/ Effects(held) = {}
           \/ Effect({"Refused"}) \subseteq held
           \/ function \in Spoils

(* After a failure the last error tells what failed first: it has been set *)
(* once, and nothing done since, giving back or failing once more, has     *)
(* overwritten it.  The functions of MisplacesPath may overwrite it when   *)
(* they free a path, and those of Blurs with what they tell next.          *)
Telling(f) ==
    {"Told"} \cup (IF f \in MisplacesPath THEN {"Spoiled"} ELSE {})
             \cup (IF f \in Blurs THEN {"Retold"} ELSE {})

FailureTold ==
    answer = Failure /\ function \notin OwnStatus \cup Mute => lastError \in Telling(function)

(* No function leaves a path behind.                                       *)
GivesBackPaths == answer # Onward => \A thing \in held : thing[2] # "Pool"
=============================================================================
