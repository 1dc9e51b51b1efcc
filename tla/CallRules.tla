----------------------------- MODULE CallRules ------------------------------
(***************************************************************************)
(* Rules by which a function of KernelCalls can be seen to borrow well     *)
(* without following its paths: one look at each of its steps.             *)
(*                                                                         *)
(* A plan says, for each step, what the function certainly holds when it   *)
(* gets there, what it may hold, and what the last error may be by then.   *)
(* The rules ask that each outcome of each step leads from the plan of the *)
(* step to that of the next, and that what a step uses, takes, gives back  *)
(* and answers is right for everything its plan allows.                    *)
(***************************************************************************)
EXTENDS KernelCalls

CONSTANT Plan   \* by function and step: [sure, maybe : sets of things, errors : SUBSET Errors]

Answered == {Success, Failure, Pending}
Target(i, o) == IF o.to = Onward THEN i + 1 ELSE o.to

(* What an outcome makes of p, the plan of its step.                       *)
CanHappen(p, o) == o.when \subseteq p.maybe /\ o.unless \cap p.sure = {}
SureAfter(p, o) == ((p.sure \cup o.when) \ o.drops) \cup o.takes
MaybeAfter(p, o) == (p.maybe \ (o.unless \cup o.drops)) \cup o.takes
MayMisplace(p, o) ==
    {misplaced \in BOOLEAN :
        IF misplaced THEN ~(o.drops \subseteq p.sure \cup o.when) ELSE o.drops \subseteq p.maybe}
ErrorsAfter(p, o) ==
    {ErrorAfter(error, o, misplaced) : error \in p.errors, misplaced \in MayMisplace(p, o)}

(* An outcome answers, or leads to a step whose plan it keeps.             *)
Arrives(plan, i, o) ==
    \/ o.to \in Answered
    \/ /\ o.to \in Nat /\ Target(i, o) \in DOMAIN plan
       /\ LET next == plan[Target(i, o)] IN
          /\ next.sure \subseteq SureAfter(plan[i], o)
          /\ MaybeAfter(plan[i], o) \subseteq next.maybe
          /\ ErrorsAfter(plan[i], o) \subseteq next.errors

(* What an outcome takes cannot be there yet, and what it gives back is.   *)
Exchanges(f, p, o) ==
    /\ o.takes \cap (p.maybe \ o.unless) = {}
    /\ o.drops \subseteq p.sure \cup o.when \/ f \in MisplacesPath

(* An answer leaves no loan, and tells.                                    *)
Ends(f, p, o) ==
    /\ o.to \in Answered =>
           \A thing \in Loans(MaybeAfter(p, o)) \
                            (IF o.to = Success THEN Program[f].leaves ELSE {}) :
               <<f, thing[1]>> \in Forgets
    /\ o.to = Success => Program[f].leaves \subseteq SureAfter(p, o) \/ f \in Hasty
    /\ o.to = Failure =>
           /\ \/ Effects(MaybeAfter(p, o)) = {}
              \/ Effect({"Refused"}) \subseteq SureAfter(p, o)
              \/ f \in Spoils
           /\ ErrorsAfter(p, o) \subseteq Telling(f) \/ f \in OwnStatus \cup Mute

KeepsRules(f) ==
    LET steps == Program[f].steps
        plan == Plan[f]
    IN /\ DOMAIN plan = DOMAIN steps
       /\ 1 \in DOMAIN steps /\ plan[1].sure = {} /\ "Kept" \in plan[1].errors
       /\ \A i \in DOMAIN steps :
             /\ steps[i].uses \subseteq plan[i].sure \/ f \in Astray
             /\ \A o \in steps[i].may : CanHappen(plan[i], o) =>
                   Arrives(plan, i, o) /\ Exchanges(f, plan[i], o) /\ Ends(f, plan[i], o)

(* The function that runs keeps the rules: seen step by step, with any     *)
(* service failing, it borrows, gives back and answers as it should.       *)
RunsByRules == KeepsRules(function)

AllKeepRules == \A f \in DOMAIN Program : KeepsRules(f)
=============================================================================
