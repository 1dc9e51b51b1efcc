----------------------------- MODULE PathNames ------------------------------
(***************************************************************************)
(* Names of files: the conversion to NT names, full names and the current  *)
(* directory of Ntdll.Path.cpp, and the wildcards of FindFirstFileExW.     *)
(*                                                                         *)
(* One thread asks, another sets the current directory.  The directory is  *)
(* a buffer on the PEB that no lock guards: it is written character by     *)
(* character, and its length and its contents are read in two steps.       *)
(*                                                                         *)
(* A name is a sequence of symbols; "UNC" and "GLOBALROOT" are words of    *)
(* one symbol, "a" and "b" stand for all other characters.                 *)
(***************************************************************************)
EXTENDS Integers, Sequences, SequencesExt

CONSTANTS
    Symbols,        \* that names consist of, and the terminator
    MaxPath,        \* MAX_PATH: the elements of the buffer on the PEB
    MaxPathChars,   \* 0x7FFE
    CountModulus,   \* the range of a USHORT: the counts of a UNICODE_STRING
    FirstDirectory, \* of the process, L"C:\\Windows"
    Directories,    \* that are set
    Names,          \* that are asked for
    Capacities,     \* of the caller's buffer, in elements
    Patterns, FileNames

NUL == "NUL"

ASSUME SizesFit ==
    /\ MaxPath \in Nat /\ MaxPathChars \in Nat /\ CountModulus \in Nat /\ Capacities \subseteq Nat
    /\ {NUL, "\\"} \subseteq Symbols
    (* Strings end at their terminator.                                     *)
    /\ \A text \in Directories \cup Names \cup Patterns \cup FileNames \cup {FirstDirectory} :
           text \in Seq(Symbols \ {NUL})
    /\ FirstDirectory # <<>> /\ Len(FirstDirectory) < MaxPath
    /\ 2 * MaxPathChars + 2 < CountModulus

VARIABLES
    directory,      \* Peb->CurrentDirectory
    setting,        \* what is being set, and the next element to write
    call,           \* of the asking thread
    quiet           \* the directory has been left alone since the call began

vars == <<directory, setting, call, quiet>>

Separators == {"\\", "/"}
At(name, i) == IF i <= Len(name) THEN name[i] ELSE NUL
Separates(name, i) == At(name, i) \in Separators

(* wcslen.                                                                 *)
Text(buffer) == SubSeq(buffer, 1, (CHOOSE n \in 1..Len(buffer) :
                    buffer[n] = NUL /\ \A i \in 1..(n - 1) : buffer[i] # NUL) - 1)

Nobody == [name |-> <<>>, next |-> 0]
NoCall == [at |-> "None"]

Init ==
    /\ directory = [i \in 1..MaxPath |-> At(FirstDirectory, i)]
    /\ setting = Nobody /\ call = NoCall /\ quiet = TRUE

-----------------------------------------------------------------------------
(* RtlSetCurrentDirectory_U: a longer name is cut, and that is a success.  *)
SetCurrentDirectory(name) ==
    /\ setting = Nobody /\ name # <<>>
    /\ setting' = [name |-> SubSeq(name, 1, IF Len(name) < MaxPath THEN Len(name) ELSE MaxPath - 1),
                   next |-> 1]
    /\ UNCHANGED <<directory, call, quiet>>

WriteCharacter ==
    /\ setting # Nobody
    /\ directory' = [directory EXCEPT ![setting.next] = At(setting.name, setting.next)]
    /\ setting' = IF directory'[setting.next] = NUL THEN Nobody
                  ELSE [setting EXCEPT !.next = @ + 1]
    /\ quiet' = FALSE
    /\ UNCHANGED call

-----------------------------------------------------------------------------
(* RtlpDetermineDosPathNameType                                            *)
\* as if the character after the colon were not looked at
BadTypeOf(name) ==
    IF ~Separates(name, 1)
    THEN IF At(name, 2) = ":" /\ At(name, 3) # NUL THEN "DriveAbsolute" ELSE "Relative"
    ELSE IF ~Separates(name, 2) THEN "Unc"
    ELSE IF At(name, 3) = NUL THEN "ShortPrefix"
    ELSE IF At(name, 3) \notin {".", "?"} THEN "UncRoot"
    ELSE IF Separates(name, 4) THEN "Extended" ELSE "ShortPrefix"

TypeOf(name) ==
    IF ~Separates(name, 1)
    THEN IF At(name, 2) = ":" /\ At(name, 3) # NUL
         THEN IF Separates(name, 3) THEN "DriveAbsolute" ELSE "DriveRelative"
         ELSE "Relative"
    ELSE IF ~Separates(name, 2) THEN "Unc"
    ELSE IF At(name, 3) = NUL THEN "ShortPrefix"
    ELSE IF At(name, 3) \notin {".", "?"} THEN "UncRoot"
    ELSE IF Separates(name, 4) THEN "Extended" ELSE "ShortPrefix"

NtRoot == <<"\\", "?", "?", "\\">>
UncRoot == NtRoot \o <<"UNC", "\\">>
From(name, i) == SubSeq(name, i, Len(name))

(* The prefix, and the part of the name that follows it.                   *)
NtParts(name) ==
    CASE TypeOf(name) = "UncRoot" -> <<UncRoot, From(name, 3)>>
      [] TypeOf(name) = "DriveAbsolute" -> <<NtRoot, name>>
      [] OTHER ->                                              \* "Extended"
            IF At(name, 5) = "UNC" /\ Separates(name, 6) THEN <<UncRoot, From(name, 7)>>
            ELSE IF At(name, 3) = "." /\ At(name, 5) = "GLOBALROOT" /\ Separates(name, 6)
            THEN <<<<"\\">>, From(name, 6)>>
            ELSE <<NtRoot, From(name, 5)>>

Legal(name) == \A i \in DOMAIN name : name[i] \notin {"?", "*"}

Counted(name) ==
    [status |-> "Success", name |-> name,
     length |-> (2 * Len(name)) % CountModulus, maximum |-> (2 * (Len(name) + 1)) % CountModulus]
Fails(status) == [status |-> status]

Joined(prefix, source) ==
    IF Len(prefix) + Len(source) >= MaxPathChars THEN Fails("NameTooLong")
    ELSE Counted(prefix \o source)

(* RtlDosPathNameToNtPathName_U_WithStatus.  The pool may be exhausted.    *)
NtNames(name) ==
    IF name = <<>> THEN {Fails("PathSyntaxBad")}
    ELSE IF Len(name) >= MaxPathChars THEN {Fails("NameTooLong")}
    ELSE IF TypeOf(name) \in {"Relative", "DriveRelative", "ShortPrefix"} THEN {Fails("PathSyntaxBad")}
    ELSE IF TypeOf(name) = "Unc" THEN {Counted(name), Fails("InsufficientResources")}
    ELSE IF ~Legal(NtParts(name)[2]) THEN {Fails("NameInvalid")}
    ELSE {Joined(NtParts(name)[1], NtParts(name)[2]), Fails("InsufficientResources")}

Answers(op, name, answer) ==
    call' = [at |-> "Done", op |-> op, name |-> name, capacity |-> 0, answer |-> answer]

ToNtName(name) ==
    /\ call = NoCall
    /\ \E answer \in NtNames(name) : Answers("Nt", name, answer)
    /\ quiet' = TRUE
    /\ UNCHANGED <<directory, setting>>

-----------------------------------------------------------------------------
(* RtlGetFullPathName_UEx                                                  *)
Rest(name) == IF TypeOf(name) = "DriveRelative" THEN From(name, 3) ELSE name

(* The prefix has to leave room for a separator and the terminator.        *)
\* as if the separator were always there
BadDirectoryPrefix == Text(directory)

DirectoryPrefix ==
    LET cut == SubSeq(Text(directory), 1, IF Len(Text(directory)) < MaxPath - 1
                                          THEN Len(Text(directory)) ELSE MaxPath - 2)
    IN IF cut # <<>> /\ Last(cut) # "\\" THEN cut \o <<"\\">> ELSE cut

FullName(name) ==
    IF TypeOf(name) \in {"Relative", "DriveRelative"} THEN DirectoryPrefix \o Rest(name) ELSE name

FilePart(written) == 1 + CHOOSE i \in 0..Len(written) :
                        /\ i > 0 => written[i] \in Separators
                        /\ \A j \in (i + 1)..Len(written) : written[j] \notin Separators

Written(buffer) == [status |-> "Success", written |-> buffer, filePart |-> FilePart(Front(buffer))]

Begins ==
    /\ call = NoCall
    /\ quiet' = (setting = Nobody)
    /\ UNCHANGED <<directory, setting>>

FullAnswer(name, capacity, answer) ==
    call' = [at |-> "Done", op |-> "Full", name |-> name, capacity |-> capacity, answer |-> answer]

GetFullPathName(name, capacity) ==
    /\ Begins
    /\ IF name = <<>> THEN FullAnswer(name, capacity, Fails("NameInvalid"))
       ELSE IF TypeOf(name) = "DriveRelative" /\ Rest(name) = <<".">>
       THEN IF capacity <= Len(Text(directory)) THEN FullAnswer(name, capacity, Fails("BufferTooSmall"))
            ELSE call' = [at |-> "Copy", op |-> "Full", name |-> name, capacity |-> capacity,
                          length |-> Len(Text(directory))]
       ELSE FullAnswer(name, capacity,
                IF capacity <= Len(FullName(name)) THEN Fails("BufferTooSmall")
                ELSE Written(Append(FullName(name), NUL)))

(* The directory itself, as long as it was when its length was tested.     *)
\* as if the copy ran to the terminator there is now
BadCopied(length) == Len(Text(directory)) + 1

Copied(length) == length + 1

CopyDirectory ==
    /\ call.at = "Copy"
    /\ FullAnswer(call.name, call.capacity, Written(SubSeq(directory, 1, Copied(call.length))))
    /\ UNCHANGED <<directory, setting, quiet>>

(* RtlGetCurrentDirectory_U: a copy, cut to the buffer, and then a count.  *)
GetCurrentDirectory(capacity) ==
    /\ Begins
    /\ LET text == Text(directory) IN
       call' = IF capacity = 0
               THEN [at |-> "Done", op |-> "Current", name |-> <<>>, capacity |-> 0,
                     answer |-> [written |-> <<>>, count |-> Len(text) + 1]]
               ELSE [at |-> "Count", op |-> "Current", name |-> <<>>, capacity |-> capacity,
                     written |-> Append(SubSeq(text, 1, IF Len(text) < capacity THEN Len(text)
                                                        ELSE capacity - 1), NUL)]

CountDirectory ==
    /\ call.at = "Count"
    /\ call' = [at |-> "Done", op |-> "Current", name |-> <<>>, capacity |-> call.capacity,
                answer |-> [written |-> call.written, count |-> Len(Text(directory))]]
    /\ UNCHANGED <<directory, setting, quiet>>

-----------------------------------------------------------------------------
(* MatchWildcard: case is ignored; a star that another follows wants a     *)
(* character.                                                              *)
Lower(c) == CASE c = "A" -> "a" [] c = "B" -> "b" [] OTHER -> c

\* as if a question mark matched the end of the name too
BadMatchWildcard(pattern, name) ==
    LET Match[i \in 1..(Len(pattern) + 1)] == [j \in 1..(Len(name) + 1) |->
        IF i > Len(pattern) THEN j > Len(name)
        ELSE IF pattern[i] = "*"
        THEN i = Len(pattern) \/ \E k \in j..Len(name) : Match[i + 1][k]
        ELSE IF pattern[i] = "?" THEN Match[i + 1][IF j > Len(name) THEN j ELSE j + 1]
        ELSE j <= Len(name) /\ Lower(pattern[i]) = Lower(name[j]) /\ Match[i + 1][j + 1]]
    IN Match[1][1]

MatchWildcard(pattern, name) ==
    LET Match[i \in 1..(Len(pattern) + 1)] == [j \in 1..(Len(name) + 1) |->
        IF i > Len(pattern) THEN j > Len(name)
        ELSE IF pattern[i] = "*"
        THEN i = Len(pattern) \/ \E k \in j..Len(name) : Match[i + 1][k]
        ELSE /\ j <= Len(name)
             /\ pattern[i] = "?" \/ Lower(pattern[i]) = Lower(name[j])
             /\ Match[i + 1][j + 1]]
    IN Match[1][1]

MatchName(pattern, name) ==
    /\ call = NoCall
    /\ call' = [at |-> "Done", op |-> "Match", name |-> name, capacity |-> 0, pattern |-> pattern,
                answer |-> MatchWildcard(pattern, name)]
    /\ quiet' = TRUE
    /\ UNCHANGED <<directory, setting>>

-----------------------------------------------------------------------------
Return == call.at = "Done" /\ call' = NoCall /\ UNCHANGED <<directory, setting, quiet>>

Next ==
    \/ \E name \in Directories : SetCurrentDirectory(name)
    \/ WriteCharacter
    \/ \E name \in Names : ToNtName(name)
    \/ \E name \in Names, capacity \in Capacities : GetFullPathName(name, capacity)
    \/ CopyDirectory
    \/ \E capacity \in Capacities : GetCurrentDirectory(capacity)
    \/ CountDirectory
    \/ \E pattern \in Patterns, name \in FileNames : MatchName(pattern, name)
    \/ Return

Spec == Init /\ [][Next]_vars

-----------------------------------------------------------------------------
(* Properties.                                                             *)

Answered(op) == call.at = "Done" /\ call.op = op

(* The parts of a name between its separators.                             *)
Parts(name) ==
    LET Add(parts, c) ==
            IF c \in Separators THEN [parts EXCEPT !.open = FALSE]
            ELSE IF parts.open THEN [parts EXCEPT !.all[Len(parts.all)] = Append(@, c)]
            ELSE [all |-> Append(parts.all, <<c>>), open |-> TRUE]
    IN FoldLeft(Add, [all |-> <<>>, open |-> FALSE], name).all

(* What names a root, by its longest form, and the NT name of that root.   *)
(* The root of the object namespace gets a second separator.               *)
DosRoots ==
    {[dos |-> <<"\\">>, nt |-> <<"\\">>], [dos |-> <<"\\", "\\">>, nt |-> UncRoot],
     [dos |-> <<"\\", "\\", ".", "\\", "GLOBALROOT", "\\">>, nt |-> <<"\\", "\\">>]}
    \cup {[dos |-> <<"\\", "\\", c, "\\">>, nt |-> NtRoot] : c \in {".", "?"}}
    \cup {[dos |-> <<"\\", "\\", c, "\\", "UNC", "\\">>, nt |-> UncRoot] : c \in {".", "?"}}

Plainly(name) == [i \in DOMAIN name |-> IF name[i] = "/" THEN "\\" ELSE name[i]]
RootsOf(name) == {root \in DosRoots : IsPrefix(root.dos, Plainly(name))}
RootOf(name) == CHOOSE root \in RootsOf(name) : \A other \in RootsOf(name) : Len(other.dos) <= Len(root.dos)
OnDrive(name) == Len(name) > 2 /\ ~Separates(name, 1) /\ name[2] = ":"

(* A DOS name has an NT name exactly if it starts at a root, is legal and  *)
(* fits, and then they have the same parts; a relative one has none.  The  *)
(* counts of the NT name, 16 bits wide, are those of its characters.       *)
ConvertsAbsoluteNames ==
    Answered("Nt") /\ call.answer.status # "InsufficientResources" =>
        LET name == call.name
            drive == OnDrive(name) /\ Separates(name, 3)
            nt == IF drive THEN NtRoot ELSE RootOf(name).nt
            rest == IF drive THEN name ELSE From(name, Len(RootOf(name).dos) + 1)
            bare == RootOf(name).dos = <<"\\", "\\">> /\
                        (rest = <<>> \/ rest[1] \in {".", "?"})
            legal == Legal(rest) \/ RootOf(name).dos = <<"\\">>
            fits == Len(nt \o rest) < MaxPathChars /\ Len(name) < MaxPathChars
        IN /\ call.answer.status = "Success" <=>
                  /\ drive \/ (RootsOf(name) # {} /\ ~bare)
                  /\ drive => Legal(rest)
                  /\ ~drive => legal
                  /\ fits
           /\ call.answer.status = "Success" =>
                  /\ Parts(call.answer.name) = Parts(nt) \o Parts(rest)
                  /\ call.answer.length = 2 * Len(call.answer.name)
                  /\ call.answer.maximum = call.answer.length + 2

(* Whatever happens to the directory meanwhile, no more is written to the  *)
(* caller's buffer than it holds.                                          *)
WritesInBuffer ==
    (Answered("Full") /\ call.answer.status = "Success") \/ Answered("Current") =>
        Len(call.answer.written) <= call.capacity

(* With the directory left alone: a full name is the directory's parts and *)
(* then the name's own, or the name's alone if it is absolute; it ends in  *)
(* a terminator and its file part is the last part.  The directory read by *)
(* itself is what its count says, if it fits.  A directory that fills its  *)
(* buffer loses its last character in a full name and is left out.         *)
ResolvesFromOneDirectory ==
    quiet =>
        /\ Answered("Full") /\ call.answer.status = "Success"
               /\ Len(Text(directory)) < MaxPath - 1 =>
            LET name == call.name
                text == SubSeq(call.answer.written, 1, Len(call.answer.written) - 1)
                relative == ~Separates(name, 1) /\ ~(OnDrive(name) /\ Separates(name, 3))
                own == IF relative /\ OnDrive(name) THEN From(name, 3) ELSE name
                file == SubSeq(text, call.answer.filePart, Len(text))
            IN /\ Last(call.answer.written) = NUL
               /\ \/ Parts(text) = (IF relative THEN Parts(Text(directory)) ELSE <<>>) \o Parts(own)
                  \/ own = <<".">> /\ OnDrive(name) /\ text = Text(directory)
               /\ file = IF Last(text) \in Separators THEN <<>> ELSE Last(Parts(text))
        /\ Answered("Current") /\ call.capacity > Len(Text(directory)) =>
            /\ call.answer.written = Append(Text(directory), NUL)
            /\ call.answer.count = Len(Text(directory))

(* A pattern without adjacent stars matches a name exactly if the name can *)
(* be laid along it: every character or question mark takes one character, *)
(* a star any number, in order.                                            *)
Lies(name, pattern, place) ==
    /\ \A i, j \in DOMAIN name : i < j => place[i] <= place[j]
    /\ \A i \in DOMAIN name : pattern[place[i]] \in {"*", "?"}
                              \/ Lower(pattern[place[i]]) = Lower(name[i])
    /\ \A k \in DOMAIN pattern : pattern[k] # "*" =>
           \E i \in DOMAIN name : place[i] = k /\ \A j \in DOMAIN name \ {i} : place[j] # k

WildcardsMatch ==
    Answered("Match") /\ (\A k \in 1..(Len(call.pattern) - 1) :
                              call.pattern[k] # "*" \/ call.pattern[k + 1] # "*") =>
        call.answer = \E place \in [DOMAIN call.name -> DOMAIN call.pattern] :
                          Lies(call.name, call.pattern, place)
=============================================================================
