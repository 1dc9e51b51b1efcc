-------------------------- MODULE PathNamesProofs ---------------------------
(* Theorems about PathNames, for any size of the directory's buffer, any    *)
(* directories and names, and any buffers of callers.                       *)
EXTENDS PathNames, TLAPS, WellFoundedInduction

(* A terminator that is read can have been the last character only.         *)
LEMMA SmallestOf == ASSUME NEW T \in SUBSET Nat, T # {} PROVE \E x \in T : \A y \in T : x <= y
<1> DEFINE Less == {ss \in Nat \X Nat : ss[1] < ss[2]}
<1>1. IsWellFoundedOn(Less, Nat)
  BY NatLessThanWellFounded DEF OpToRel
<1>2. PICK x \in T : \A y \in T : ~ (<<y, x>> \in Less)
  <2> HIDE DEF Less
  <2> QED  BY <1>1, WFMin
<1>3. ASSUME NEW y \in T PROVE x <= y
  <2>1. y < x => <<y, x>> \in Less
    BY DEF Less
  <2>2. ~ (y < x)
    <3> HIDE DEF Less
    <3> QED  BY <1>2, <2>1
  <2> QED  BY <2>2
<1> QED  BY <1>3

(***************************************************************************)
(* The buffer has its terminator at every moment, also between the          *)
(* characters of a directory that is being set.                             *)
(***************************************************************************)
Terminated ==
    /\ directory \in [1..MaxPath -> Symbols]
    /\ directory[MaxPath] = NUL

SettingOK ==
    setting # Nobody =>
        /\ setting = [name |-> setting.name, next |-> setting.next]
        /\ setting.name \in Seq(Symbols)
        /\ Len(setting.name) < MaxPath
        /\ setting.next \in 1..(Len(setting.name) + 1)

CopyOK ==
    call.at = "Copy" => /\ call.capacity \in Nat /\ call.length \in Nat
                        /\ call.length < call.capacity

CountOK ==
    call.at = "Count" => Len(call.written) <= call.capacity

BufferInv == Terminated /\ SettingOK /\ CopyOK /\ CountOK /\ WritesInBuffer

LEMMA Strings ==
  ASSUME SizesFit,
         NEW name \in Directories \cup Names \cup Patterns \cup FileNames \cup {FirstDirectory}
  PROVE  name \in Seq(Symbols \ {NUL}) /\ name \in Seq(Symbols)
<1>1. name \in Seq(Symbols \ {NUL})
  BY DEF SizesFit
<1> QED  BY <1>1

LEMMA CharacterAt ==
  ASSUME SizesFit, NEW name \in Seq(Symbols), NEW i \in Nat \ {0}
  PROVE At(name, i) \in Symbols
<1>1. CASE i <= Len(name)
  <2>1. i \in 1..Len(name)
    BY <1>1
  <2> QED  BY <1>1, <2>1 DEF At
<1>2. CASE ~(i <= Len(name))
  BY <1>2 DEF At, SizesFit
<1> QED  BY <1>1, <1>2

(* The directory's text is what stands before its first terminator.        *)
LEMMA TextIs ==
  ASSUME SizesFit, Terminated
  PROVE  /\ Text(directory) \in Seq(Symbols) /\ Len(Text(directory)) + 1 \in 1..MaxPath
         /\ \A i \in 1..Len(Text(directory)) : Text(directory)[i] = directory[i]
         /\ directory[Len(Text(directory)) + 1] = NUL
<1> DEFINE Ends == {n \in 1..MaxPath : directory[n] = NUL}
           IsFirst(n) == directory[n] = NUL /\ \A i \in 1..(n - 1) : directory[i] # NUL
<1>1. MaxPath \in Nat /\ MaxPath > 0
  BY DEF SizesFit
<1>2. directory \in Seq(Symbols) /\ Len(directory) = MaxPath
  BY <1>1 DEF Terminated
<1>3. \E n \in 1..MaxPath : IsFirst(n)
  <2>1. Ends \in SUBSET Nat /\ Ends # {}
    BY <1>1 DEF Terminated
  <2>2. PICK n \in Ends : \A m \in Ends : n <= m
    <3> HIDE DEF Ends
    <3> QED  BY <2>1, SmallestOf
  <2>3. ASSUME NEW i \in 1..(n - 1) PROVE directory[i] # NUL
    BY <2>2, <2>3
  <2> QED  BY <2>2, <2>3
<1>4. PICK n \in 1..MaxPath : IsFirst(n) /\ n = CHOOSE m \in 1..MaxPath : IsFirst(m)
  <2> HIDE DEF IsFirst
  <2> QED  BY <1>3
<1>5. Text(directory) = SubSeq(directory, 1, n - 1)
  <2>1. n = CHOOSE m \in 1..Len(directory) :
                directory[m] = NUL /\ \A i \in 1..(m - 1) : directory[i] # NUL
    BY <1>2, <1>4
  <2> QED  BY <2>1, Zenon DEF Text
<1> DEFINE t == SubSeq(directory, 1, n - 1)
<1>6. /\ t \in Seq(Symbols) /\ Len(t) = n - 1 /\ n - 1 \in Nat
      /\ \A i \in 1..(n - 1) : t[i] = directory[i]
  <2>1. n \in Nat /\ n > 0 /\ n <= MaxPath
    BY <1>1
  <2> HIDE DEF IsFirst, Ends
  <2>2. \A i \in 1..(n - 1) : directory[i] \in Symbols
    BY <1>1, <2>1 DEF Terminated
  <2>3. t = [i \in 1..(n - 1) |-> directory[i]]
    BY <1>1, <1>2, <2>1
  <2> HIDE DEF t
  <2> QED  BY <2>1, <2>2, <2>3
<1> HIDE DEF t
<1>7. (n - 1) + 1 = n
  BY <1>1
<1>8. Text(directory) = t
  BY <1>5 DEF t
<1>9. directory[n] = NUL
  BY <1>4
<1> HIDE DEF IsFirst
<1> QED  BY <1>6, <1>7, <1>8, <1>9

LEMMA TextOfDirectory ==
  ASSUME SizesFit, Terminated
  PROVE  /\ Text(directory) \in Seq(Symbols)
         /\ Len(Text(directory)) < MaxPath
<1>1. Text(directory) \in Seq(Symbols) /\ Len(Text(directory)) + 1 \in 1..MaxPath
  BY TextIs
<1> DEFINE text == Text(directory)
<1> HIDE DEF text
<1>2. Len(text) \in Nat /\ MaxPath \in Nat /\ text \in Seq(Symbols) /\ Len(text) + 1 \in 1..MaxPath
  BY <1>1 DEF text, SizesFit
<1>3. Len(text) < MaxPath
  BY <1>2
<1> QED  BY <1>1, <1>3 DEF text

LEMMA FullNameIsText ==
  ASSUME SizesFit, Terminated, NEW name \in Names PROVE FullName(name) \in Seq(Symbols)
<1>1. name \in Seq(Symbols)
  BY Strings
<1>2. Rest(name) \in Seq(Symbols)
  <2>1. SubSeq(name, 3, Len(name)) \in Seq(Symbols)
    BY <1>1
  <2> QED  BY <1>1, <2>1 DEF Rest, From
<1>3. DirectoryPrefix \in Seq(Symbols)
  <2> DEFINE text == Text(directory)
             cut == SubSeq(text, 1, IF Len(text) < MaxPath - 1 THEN Len(text) ELSE MaxPath - 2)
  <2>1. text \in Seq(Symbols) /\ MaxPath \in Nat
    BY TextOfDirectory DEF SizesFit
  <2>2. cut \in Seq(Symbols)
    <3> HIDE DEF text
    <3> QED  BY <2>1
  <2>3. DirectoryPrefix = IF cut # <<>> /\ Last(cut) # "\\" THEN cut \o <<"\\">> ELSE cut
    BY Zenon DEF DirectoryPrefix
  <2>4. cut \o <<"\\">> \in Seq(Symbols)
    <3> HIDE DEF cut
    <3>1. "\\" \in Symbols
      BY DEF SizesFit
    <3> QED  BY <2>2, <3>1
  <2> HIDE DEF cut
  <2> QED  BY <2>2, <2>3, <2>4
<1> QED  BY <1>1, <1>2, <1>3 DEF FullName

-----------------------------------------------------------------------------
LEMMA InitBuffer == ASSUME SizesFit PROVE Init => BufferInv
<1> SUFFICES ASSUME Init PROVE BufferInv
  OBVIOUS
<1>1. FirstDirectory \in Seq(Symbols) /\ MaxPath \in Nat
  BY Strings DEF SizesFit
<1>2. directory \in [1..MaxPath -> Symbols]
  <2>1. ASSUME NEW i \in 1..MaxPath PROVE At(FirstDirectory, i) \in Symbols
    <3>1. i \in Nat \ {0}
      BY <1>1
    <3> QED  BY <1>1, <3>1, CharacterAt
  <2> QED  BY <2>1 DEF Init
<1>3. directory[MaxPath] = NUL
  BY <1>1 DEF Init, At, SizesFit
<1> QED  BY <1>2, <1>3 DEF Init, BufferInv, Terminated, SettingOK, CopyOK, CountOK,
                           WritesInBuffer, Answered, NoCall

(* What is set is cut to leave room for the terminator, so that no          *)
(* character is written behind the end and the last one written is NUL.     *)
LEMMA CutToFit ==
  ASSUME SizesFit, BufferInv, NEW name \in Directories, SetCurrentDirectory(name)
  PROVE  SettingOK'
<1> DEFINE length == IF Len(name) < MaxPath THEN Len(name) ELSE MaxPath - 1
           cut == SubSeq(name, 1, length)
<1>1. /\ name \in Seq(Symbols) /\ MaxPath \in Nat /\ MaxPath > 0
  BY Strings DEF SizesFit
<1>2. cut \in Seq(Symbols) /\ Len(cut) < MaxPath /\ Len(cut) \in Nat
  BY <1>1
<1>3. setting' = [name |-> cut, next |-> 1]
  BY DEF SetCurrentDirectory
<1> HIDE DEF cut
<1> QED  BY <1>2, <1>3 DEF SettingOK

LEMMA CharacterKeeps ==
  ASSUME SizesFit, BufferInv, WriteCharacter PROVE Terminated' /\ SettingOK'
<1> DEFINE name == setting.name
           next == setting.next
<1>1. /\ setting = [name |-> name, next |-> next]
      /\ name \in Seq(Symbols) /\ Len(name) < MaxPath
      /\ next \in 1..(Len(name) + 1)
  BY DEF WriteCharacter, BufferInv, SettingOK
<1>2. /\ MaxPath \in Nat /\ Len(name) \in Nat /\ next \in 1..MaxPath
  BY <1>1 DEF SizesFit
<1>3. directory' = [directory EXCEPT ![next] = At(name, next)]
  BY DEF WriteCharacter
<1>4. At(name, next) \in Symbols
  <2>1. next \in Nat \ {0}
    BY <1>2
  <2> HIDE DEF name, next
  <2> QED  BY <1>1, <2>1, CharacterAt
<1>5. Terminated'
  <2>1. next = MaxPath => At(name, next) = NUL
    BY <1>1, <1>2 DEF At
  <2>2. directory \in [1..MaxPath -> Symbols] /\ directory[MaxPath] = NUL
    BY DEF BufferInv, Terminated
  <2> HIDE DEF name, next
  <2> QED  BY <1>2, <1>3, <1>4, <2>1, <2>2 DEF Terminated
<1>6. SettingOK'
  <2>1. directory'[next] = At(name, next)
    <3> HIDE DEF name, next
    <3> QED  BY <1>2, <1>3 DEF BufferInv, Terminated
  <2>2. CASE At(name, next) = NUL
    BY <2>1, <2>2 DEF WriteCharacter, SettingOK
  <2>3. CASE At(name, next) # NUL
    <3>1. next <= Len(name)
      BY <2>3, <1>1, <1>2 DEF At
    <3>2. setting' = [setting EXCEPT !.next = next + 1]
      BY <2>1, <2>3 DEF WriteCharacter
    <3>3. setting' = [name |-> name, next |-> next + 1]
      <4> HIDE DEF name, next
      <4> QED  BY <1>1, <3>2
    <3> HIDE DEF name, next
    <3> QED  BY <1>1, <1>2, <3>1, <3>3 DEF SettingOK
  <2> QED  BY <2>2, <2>3
<1> QED  BY <1>5, <1>6

(* A full name is written if it fits with its terminator.                   *)
LEMMA FullFits ==
  ASSUME SizesFit, BufferInv, NEW name \in Names, NEW capacity \in Capacities,
         GetFullPathName(name, capacity)
  PROVE  CopyOK' /\ CountOK' /\ WritesInBuffer'
<1>1. capacity \in Nat
  BY DEF SizesFit
<1>2. ASSUME NEW status \in {"NameInvalid", "BufferTooSmall"},
             FullAnswer(name, capacity, Fails(status))
      PROVE  CopyOK' /\ CountOK' /\ WritesInBuffer'
  <2>1. /\ call'.at = "Done" /\ call'.op = "Full" /\ call'.answer.status = status
    BY <1>2 DEF FullAnswer, Fails
  <2> QED  BY <2>1 DEF CopyOK, CountOK, WritesInBuffer, Answered
<1>3. CASE name = <<>>
  BY <1>2, <1>3 DEF GetFullPathName
<1>4. CASE name # <<>> /\ TypeOf(name) = "DriveRelative" /\ Rest(name) = <<".">>
  <2>1. CASE capacity <= Len(Text(directory))
    BY <1>2, <1>4, <2>1 DEF GetFullPathName
  <2>2. CASE ~(capacity <= Len(Text(directory)))
    <3>1. /\ call'.at = "Copy" /\ call'.capacity = capacity
          /\ call'.length = Len(Text(directory))
      BY <1>4, <2>2 DEF GetFullPathName
    <3>2. Len(Text(directory)) \in Nat
      BY TextOfDirectory DEF BufferInv
    <3> QED  BY <1>1, <2>2, <3>1, <3>2 DEF CopyOK, CountOK, WritesInBuffer, Answered
  <2> QED  BY <2>1, <2>2
<1>5. CASE name # <<>> /\ ~(TypeOf(name) = "DriveRelative" /\ Rest(name) = <<".">>)
  <2>1. CASE capacity <= Len(FullName(name))
    BY <1>2, <1>5, <2>1 DEF GetFullPathName
  <2>2. CASE ~(capacity <= Len(FullName(name)))
    <3>1. FullAnswer(name, capacity, Written(Append(FullName(name), NUL)))
      BY <1>5, <2>2 DEF GetFullPathName
    <3>2. /\ call'.at = "Done" /\ call'.op = "Full" /\ call'.capacity = capacity
          /\ call'.answer.written = Append(FullName(name), NUL)
      BY <3>1 DEF FullAnswer, Written
    <3>3. FullName(name) \in Seq(Symbols) /\ NUL \in Symbols
      BY FullNameIsText DEF BufferInv, SizesFit
    <3>4. Len(Append(FullName(name), NUL)) <= capacity
      <4> DEFINE full == FullName(name)
      <4>1. Len(Append(full, NUL)) = Len(full) + 1 /\ Len(full) \in Nat
        <5> HIDE DEF full
        <5> QED  BY <3>3
      <4> QED  BY <1>1, <2>2, <4>1
    <3> QED  BY <3>2, <3>4 DEF CopyOK, CountOK, WritesInBuffer, Answered
  <2> QED  BY <2>1, <2>2
<1> QED  BY <1>3, <1>4, <1>5

(* The copy is as long as the directory was when the room was tested,       *)
(* whatever it has become since.                                            *)
LEMMA CopyFits ==
  ASSUME SizesFit, BufferInv, CopyDirectory PROVE CopyOK' /\ CountOK' /\ WritesInBuffer'
<1>1. /\ call.capacity \in Nat /\ call.length \in Nat /\ call.length < call.capacity
  BY DEF CopyDirectory, BufferInv, CopyOK
<1>2. /\ call'.at = "Done" /\ call'.op = "Full" /\ call'.capacity = call.capacity
      /\ call'.answer.written = SubSeq(directory, 1, Copied(call.length))
  BY DEF CopyDirectory, FullAnswer, Written
<1>3. Len(SubSeq(directory, 1, Copied(call.length))) <= call.capacity
  <2>1. ASSUME NEW n \in Nat \ {0} PROVE Len(SubSeq(directory, 1, n)) = n
    <3>1. SubSeq(directory, 1, n) = [i \in 1..n |-> directory[i]]
      BY <2>1
    <3> QED  BY <3>1
  <2> QED  BY <1>1, <2>1 DEF Copied
<1> QED  BY <1>2, <1>3 DEF CopyOK, CountOK, WritesInBuffer, Answered

LEMMA CurrentFits ==
  ASSUME SizesFit, BufferInv, NEW capacity \in Capacities, GetCurrentDirectory(capacity)
  PROVE  CopyOK' /\ CountOK' /\ WritesInBuffer'
<1>1. capacity \in Nat
  BY DEF SizesFit
<1>2. CASE capacity = 0
  <2>1. /\ call'.at = "Done" /\ call'.capacity = 0
        /\ call'.op = "Current" /\ call'.answer.written = <<>>
    BY <1>2 DEF GetCurrentDirectory
  <2> QED  BY <2>1 DEF CopyOK, CountOK, WritesInBuffer, Answered
<1>3. CASE capacity # 0
  <2> DEFINE text == Text(directory)
             cut == SubSeq(text, 1, IF Len(text) < capacity THEN Len(text) ELSE capacity - 1)
  <2>1. /\ call'.at = "Count" /\ call'.capacity = capacity
        /\ call'.written = Append(cut, NUL)
    BY <1>3 DEF GetCurrentDirectory
  <2>2. text \in Seq(Symbols)
    BY TextOfDirectory DEF BufferInv
  <2>3. cut \in Seq(Symbols) /\ Len(cut) < capacity
    <3> HIDE DEF text
    <3> QED  BY <1>1, <1>3, <2>2
  <2>4. Len(Append(cut, NUL)) <= capacity
    <3>1. NUL \in Symbols
      BY DEF SizesFit
    <3> HIDE DEF cut
    <3> QED  BY <1>1, <2>3, <3>1
  <2> QED  BY <2>1, <2>4 DEF CopyOK, CountOK, WritesInBuffer, Answered
<1> QED  BY <1>2, <1>3

LEMMA NextBuffer == ASSUME SizesFit PROVE BufferInv /\ [Next]_vars => BufferInv'
<1> SUFFICES ASSUME BufferInv, [Next]_vars PROVE BufferInv'
  OBVIOUS
<1>1. ASSUME UNCHANGED <<directory, setting>> PROVE Terminated' /\ SettingOK'
  BY <1>1 DEF BufferInv, Terminated, SettingOK
<1>2. ASSUME UNCHANGED call PROVE CopyOK' /\ CountOK' /\ WritesInBuffer'
  BY <1>2 DEF BufferInv, CopyOK, CountOK, WritesInBuffer, Answered
<1>3. ASSUME call'.at = "Done", call'.op \in {"Nt", "Match"}
      PROVE  CopyOK' /\ CountOK' /\ WritesInBuffer'
  BY <1>3 DEF CopyOK, CountOK, WritesInBuffer, Answered
<1>4. ASSUME NEW name \in Directories, SetCurrentDirectory(name) PROVE BufferInv'
  <2>1. UNCHANGED <<directory, call>>
    BY <1>4 DEF SetCurrentDirectory
  <2> QED  BY <1>2, <1>4, <2>1, CutToFit DEF BufferInv, Terminated
<1>5. CASE WriteCharacter
  BY <1>2, <1>5, CharacterKeeps DEF BufferInv, WriteCharacter
<1>6. ASSUME NEW name \in Names, ToNtName(name) PROVE BufferInv'
  BY <1>1, <1>3, <1>6 DEF BufferInv, ToNtName, Answers
<1>7. ASSUME NEW name \in Names, NEW capacity \in Capacities, GetFullPathName(name, capacity)
      PROVE  BufferInv'
  <2>1. UNCHANGED <<directory, setting>>
    BY <1>7 DEF GetFullPathName, Begins
  <2> QED  BY <1>1, <1>7, <2>1, FullFits DEF BufferInv
<1>8. CASE CopyDirectory
  <2>1. UNCHANGED <<directory, setting>>
    BY <1>8 DEF CopyDirectory
  <2> QED  BY <1>1, <1>8, <2>1, CopyFits DEF BufferInv
<1>9. ASSUME NEW capacity \in Capacities, GetCurrentDirectory(capacity) PROVE BufferInv'
  <2>1. UNCHANGED <<directory, setting>>
    BY <1>9 DEF GetCurrentDirectory, Begins
  <2> QED  BY <1>1, <1>9, <2>1, CurrentFits DEF BufferInv
<1>10. CASE CountDirectory
  <2>1. /\ call'.at = "Done" /\ call'.op = "Current" /\ call'.capacity = call.capacity
        /\ call'.answer.written = call.written /\ UNCHANGED <<directory, setting>>
    BY <1>10 DEF CountDirectory
  <2>2. Len(call.written) <= call.capacity
    BY <1>10 DEF CountDirectory, BufferInv, CountOK
  <2>3. CopyOK' /\ CountOK' /\ WritesInBuffer'
    BY <2>1, <2>2 DEF CopyOK, CountOK, WritesInBuffer, Answered
  <2> QED  BY <1>1, <2>1, <2>3 DEF BufferInv
<1>11. ASSUME NEW pattern \in Patterns, NEW name \in FileNames, MatchName(pattern, name)
       PROVE  BufferInv'
  <2>1. /\ call'.at = "Done" /\ call'.op = "Match" /\ UNCHANGED <<directory, setting>>
    BY <1>11 DEF MatchName
  <2> QED  BY <1>1, <1>3, <2>1 DEF BufferInv
<1>12. CASE Return
  <2>1. call' = NoCall /\ UNCHANGED <<directory, setting>>
    BY <1>12 DEF Return
  <2> QED  BY <1>1, <2>1 DEF BufferInv, CopyOK, CountOK, WritesInBuffer, Answered, NoCall
<1>13. CASE UNCHANGED vars
  BY <1>1, <1>2, <1>13 DEF vars, BufferInv
<1> QED  BY <1>4, <1>5, <1>6, <1>7, <1>8, <1>9, <1>10, <1>11, <1>12, <1>13 DEF Next

(* The buffer of the current directory has its terminator at every moment,  *)
(* also between the characters of RtlSetCurrentDirectory_U, so that nobody  *)
(* who reads it without a lock runs past its end.                           *)
THEOREM DirectoryIsTerminated == ASSUME SizesFit PROVE Spec => []Terminated
<1>1. BufferInv => Terminated
  BY DEF BufferInv
<1> QED  BY InitBuffer, NextBuffer, <1>1, PTL DEF Spec

(* RtlGetFullPathName_UEx and RtlGetCurrentDirectory_U write no more to the *)
(* caller's buffer than it holds, though another thread may set a longer    *)
(* directory between the test of the length and the copy.                   *)
THEOREM CopiesFit == ASSUME SizesFit PROVE Spec => []WritesInBuffer
<1>1. BufferInv => WritesInBuffer
  BY DEF BufferInv
<1> QED  BY InitBuffer, NextBuffer, <1>1, PTL DEF Spec

(***************************************************************************)
(* The parts of a name.  They are a fold over the positions of the name,   *)
(* which is taken apart by induction: what is wrong for some length is     *)
(* wrong for a least one.                                                  *)
(***************************************************************************)
Nothing == [all |-> <<>>, open |-> FALSE]

NextParts(parts, c) ==
    IF c \in Separators THEN [parts EXCEPT !.open = FALSE]
    ELSE IF parts.open THEN [parts EXCEPT !.all[Len(parts.all)] = Append(@, c)]
    ELSE [all |-> Append(parts.all, <<c>>), open |-> TRUE]

(* What the fold has gathered of each beginning of the name.               *)
Gathers(q, name) ==
    /\ q[0] = Nothing
    /\ \A n \in 1..Len(name) : q[n] = NextParts(q[n - 1], name[n])

LEMMA LargestOf ==
  ASSUME NEW n \in Nat, NEW s \in SUBSET (1..n), s # {}
  PROVE  Max(s) \in s /\ \A y \in s : y <= Max(s)
<1> DEFINE Above == {m \in Nat : \A y \in s : y <= m}
<1>1. n \in Above
  OBVIOUS
<1>2. PICK m \in Above : \A k \in Above : m <= k
  <2>1. Above \in SUBSET Nat
    OBVIOUS
  <2> HIDE DEF Above
  <2> QED  BY <1>1, <2>1, SmallestOf
<1>3. m \in Nat /\ \A y \in s : y <= m
  OBVIOUS
<1>4. m \in s
  <2> SUFFICES ASSUME m \notin s PROVE FALSE
    OBVIOUS
  <2>1. \A y \in s : y \in Nat /\ y >= 1 /\ y <= m - 1
    BY <1>3
  <2>2. PICK z : z \in s
    OBVIOUS
  <2>3. m - 1 \in Above
    BY <1>3, <2>1, <2>2
  <2> HIDE DEF Above
  <2>4. m <= m - 1
    BY <1>2, <2>3
  <2> QED  BY <1>3, <2>4
<1>5. \A y \in s : m >= y
  BY <1>3
<1> HIDE DEF Above
<1>6. Max(s) \in s /\ \A y \in s : Max(s) >= y
  BY <1>4, <1>5 DEF Max
<1>7. \A y \in s : y \in Nat
  OBVIOUS
<1> QED  BY <1>6, <1>7

LEMMA FoldExists ==
  ASSUME NEW name, NEW N \in Nat
  PROVE  \E g : g = [s \in SUBSET (1..N) |-> IF s = {} THEN Nothing
                         ELSE NextParts(g[s \ {Max(s)}], name[Max(s)])]
<1> DEFINE F(n, g) == [s \in SUBSET (1..n) |-> IF s = {} THEN Nothing
                           ELSE NextParts(g[s \ {Max(s)}], name[Max(s)])]
           Bad == {n \in Nat : ~ \E g : g = F(n, g)}
<1>1. SUFFICES ASSUME Bad # {} PROVE FALSE
  OBVIOUS
<1>2. PICK n \in Bad : \A m \in Bad : n <= m
  <2>1. Bad \in SUBSET Nat
    OBVIOUS
  <2> HIDE DEF Bad
  <2> QED  BY <1>1, <2>1, SmallestOf
<1>3. n \in Nat /\ ~ \E g : g = F(n, g)
  BY <1>2
<1>4. n # 0
  <2> SUFFICES ASSUME n = 0 PROVE \E g : g = F(n, g)
    BY <1>3
  <2> DEFINE g == [s \in SUBSET (1..n) |-> Nothing]
  <2>1. \A s \in SUBSET (1..n) : s = {}
    OBVIOUS
  <2>2. g = F(n, g)
    BY <2>1
  <2> QED  BY <2>2
<1>5. n - 1 \in Nat /\ n - 1 \notin Bad
  <2> HIDE DEF Bad
  <2>1. n - 1 \in Nat
    BY <1>3, <1>4
  <2> QED  BY <1>2, <1>3, <2>1
<1>6. PICK g : g = F(n - 1, g)
  BY <1>5
<1> DEFINE h == F(n, g)
<1>7. ASSUME NEW s \in SUBSET (1..n), s # {}
      PROVE  h[s \ {Max(s)}] = g[s \ {Max(s)}]
  <2>1. Max(s) \in s /\ \A y \in s : y <= Max(s)
    BY <1>3, <1>7, LargestOf
  <2> DEFINE r == s \ {Max(s)}
  <2>2. r \in SUBSET (1..(n - 1)) /\ r \in SUBSET (1..n)
    <3>1. Max(s) \in 1..n
      BY <2>1
    <3>2. ASSUME NEW y \in r PROVE y \in 1..(n - 1)
      <4>1. y \in 1..n /\ y <= Max(s) /\ y # Max(s)
        BY <2>1
      <4> QED  BY <1>3, <3>1, <4>1
    <3> HIDE DEF r
    <3>3. r \subseteq s
      BY DEF r
    <3> QED  BY <3>2, <3>3
  <2>3. /\ g[r] = IF r = {} THEN Nothing ELSE NextParts(g[r \ {Max(r)}], name[Max(r)])
        /\ h[r] = IF r = {} THEN Nothing ELSE NextParts(g[r \ {Max(r)}], name[Max(r)])
    <3> HIDE DEF r
    <3>1. g[r] = F(n - 1, g)[r]
      BY <1>6
    <3> QED  BY <2>2, <3>1
  <2> QED  BY <2>3
<1>8. h = F(n, h)
  <2>1. ASSUME NEW s \in SUBSET (1..n) PROVE F(n, g)[s] = F(n, h)[s]
    <3> HIDE DEF h
    <3> QED  BY <1>7
  <2>2. F(n, g) = F(n, h)
    <3> HIDE DEF h
    <3> QED  BY <2>1
  <2> QED  BY <2>2
<1> QED  BY <1>3, <1>8

LEMMA PartsGathered ==
  ASSUME NEW S, NEW name \in Seq(S)
  PROVE  \E q : Gathers(q, name) /\ Parts(name) = q[Len(name)].all
<1> DEFINE N == Len(name)
           F(g) == [s \in SUBSET (1..N) |-> IF s = {} THEN Nothing
                        ELSE NextParts(g[s \ {Max(s)}], name[Max(s)])]
           fold == CHOOSE g : g = F(g)
           q == [n \in 0..N |-> fold[1..n]]
<1>1. N \in Nat /\ DOMAIN name = 1..N
  OBVIOUS
<1>2. Parts(name) = fold[1..N].all
  BY <1>1 DEF Parts, FoldLeft, MapThenFoldSet, NextParts, Nothing
<1>3. fold = F(fold)
  <2>1. \E g : g = F(g)
    <3> HIDE DEF N
    <3> QED  BY <1>1, FoldExists
  <2> HIDE DEF F
  <2> QED  BY <2>1
<1> HIDE DEF fold, N
<1>4. \A s \in SUBSET (1..N) :
          fold[s] = IF s = {} THEN Nothing ELSE NextParts(fold[s \ {Max(s)}], name[Max(s)])
  <2> TAKE s \in SUBSET (1..N)
  <2>1. fold[s] = F(fold)[s]
    BY <1>3
  <2> QED  BY <2>1
<1>5. q[0] = Nothing
  <2>1. q[0] = fold[1..0] /\ 1..0 = {}
    BY <1>1
  <2> QED  BY <1>4, <2>1
<1>6. ASSUME NEW n \in 1..N PROVE q[n] = NextParts(q[n - 1], name[n])
  <2>1. /\ 1..n \in SUBSET (1..N) /\ 1..n # {} /\ n \in Nat /\ n - 1 \in 0..N /\ n \in 0..N
    BY <1>1
  <2>2. Max(1..n) = n
    <3>1. Max(1..n) \in 1..n /\ \A y \in 1..n : y <= Max(1..n)
      BY <1>1, <2>1, LargestOf
    <3> QED  BY <2>1, <3>1
  <2>3. (1..n) \ {n} = 1..(n - 1)
    BY <2>1
  <2> QED  BY <1>4, <2>1, <2>2, <2>3
<1>7. q[N] = fold[1..N]
  BY <1>1
<1>8. Gathers(q, name)
  <2> HIDE DEF q
  <2> QED  BY <1>5, <1>6 DEF Gathers, N
<1> QED  BY <1>2, <1>7, <1>8 DEF N

(* Each step of the fold adds to the parts it is given, and whether one is *)
(* open decides where.                                                     *)
PartsOK(parts, S) ==
    /\ parts = [all |-> parts.all, open |-> parts.open]
    /\ parts.all \in Seq(Seq(S)) /\ parts.open \in BOOLEAN
    /\ parts.open => parts.all # <<>>

LEMMA MakesParts ==
  ASSUME NEW S, NEW x \in Seq(Seq(S)), NEW b \in BOOLEAN, b => x # <<>>
  PROVE  PartsOK([all |-> x, open |-> b], S)
  BY DEF PartsOK

LEMMA NextPartsIs ==
  ASSUME NEW S, NEW x \in Seq(Seq(S)), NEW b \in BOOLEAN, b => x # <<>>, NEW c \in S
  PROVE  LET next == NextParts([all |-> x, open |-> b], c) IN
         /\ c \in Separators => next = [all |-> x, open |-> FALSE]
         /\ c \notin Separators /\ ~b => next = [all |-> Append(x, <<c>>), open |-> TRUE]
         /\ c \notin Separators /\ b =>
                next = [all |-> [x EXCEPT ![Len(x)] = Append(x[Len(x)], c)], open |-> TRUE]
         /\ PartsOK(next, S)
<1> DEFINE parts == [all |-> x, open |-> b]
           more == [x EXCEPT ![Len(x)] = Append(x[Len(x)], c)]
<1>1. parts.all = x /\ parts.open = b
  OBVIOUS
<1>2. c \in Separators => NextParts(parts, c) = [all |-> x, open |-> FALSE]
  BY DEF NextParts
<1>3. c \notin Separators /\ ~b => NextParts(parts, c) = [all |-> Append(x, <<c>>), open |-> TRUE]
  <2> HIDE DEF parts
  <2> QED  BY <1>1 DEF NextParts
<1>4. c \notin Separators /\ b => NextParts(parts, c) = [all |-> more, open |-> TRUE]
  BY DEF NextParts
<1>5. PartsOK([all |-> x, open |-> FALSE], S)
  BY MakesParts
<1>6. PartsOK([all |-> Append(x, <<c>>), open |-> TRUE], S)
  <2> DEFINE d == <<c>>
             z == Append(x, d)
  <2>1. d \in Seq(S)
    OBVIOUS
  <2> HIDE DEF d
  <2>2. z \in Seq(Seq(S)) /\ z # <<>>
    BY <2>1
  <2> HIDE DEF z
  <2>3. PartsOK([all |-> z, open |-> TRUE], S)
    BY <2>2, MakesParts
  <2> QED  BY <2>3 DEF z, d
<1>7. b => PartsOK([all |-> more, open |-> TRUE], S)
  <2> SUFFICES ASSUME b PROVE PartsOK([all |-> more, open |-> TRUE], S)
    OBVIOUS
  <2>1. Len(x) \in 1..Len(x) /\ x[Len(x)] \in Seq(S)
    OBVIOUS
  <2>2. Append(x[Len(x)], c) \in Seq(S)
    BY <2>1
  <2>3. more \in Seq(Seq(S)) /\ more # <<>>
    BY <2>1, <2>2
  <2> HIDE DEF more
  <2> QED  BY <2>3, MakesParts
<1> HIDE DEF parts, more
<1>8. PartsOK(NextParts(parts, c), S)
  BY <1>2, <1>3, <1>4, <1>5, <1>6, <1>7
<1> QED  BY <1>2, <1>3, <1>4, <1>8 DEF parts, more

LEMMA GathersParts ==
  ASSUME NEW S, NEW name \in Seq(S), NEW q, Gathers(q, name)
  PROVE  \A n \in 0..Len(name) : PartsOK(q[n], S)
<1> DEFINE Bad == {n \in 0..Len(name) : ~PartsOK(q[n], S)}
<1>1. SUFFICES ASSUME Bad # {} PROVE FALSE
  OBVIOUS
<1>2. PICK n \in Bad : \A m \in Bad : n <= m
  <2>1. Bad \in SUBSET Nat
    OBVIOUS
  <2> HIDE DEF Bad
  <2> QED  BY <1>1, <2>1, SmallestOf
<1>3. n \in 0..Len(name) /\ ~PartsOK(q[n], S)
  BY <1>2
<1>4. n # 0
  <2>1. PartsOK(q[0], S)
    BY DEF Gathers, Nothing, PartsOK
  <2> QED  BY <1>3, <2>1
<1>5. n - 1 \in 0..Len(name) /\ n \in 1..Len(name) /\ name[n] \in S
  BY <1>3, <1>4
<1>6. PartsOK(q[n - 1], S)
  <2>1. n - 1 \notin Bad
    <3> HIDE DEF Bad
    <3>1. n \in Nat
      BY <1>3
    <3> QED  BY <1>2, <1>5, <3>1
  <2> QED  BY <1>5, <2>1
<1>7. q[n] = NextParts(q[n - 1], name[n])
  BY <1>5 DEF Gathers
<1>8. PartsOK(q[n], S)
  <2> DEFINE x == q[n - 1].all
             b == q[n - 1].open
  <2>1. /\ q[n - 1] = [all |-> x, open |-> b] /\ x \in Seq(Seq(S))
        /\ b \in BOOLEAN /\ (b => x # <<>>)
    BY <1>6 DEF PartsOK
  <2> HIDE DEF x, b
  <2>2. PartsOK(NextParts([all |-> x, open |-> b], name[n]), S)
    BY <1>5, <2>1, NextPartsIs
  <2> QED  BY <1>7, <2>1, <2>2
<1> QED  BY <1>3, <1>8

LEMMA PartsAreNames == ASSUME NEW S, NEW name \in Seq(S) PROVE Parts(name) \in Seq(Seq(S))
<1>1. PICK q : Gathers(q, name) /\ Parts(name) = q[Len(name)].all
  BY PartsGathered
<1>2. PartsOK(q[Len(name)], S)
  BY <1>1, GathersParts
<1> QED  BY <1>1, <1>2 DEF PartsOK

LEMMA Joins ==
  ASSUME NEW T, NEW p \in Seq(T), NEW x \in Seq(T)
  PROVE  /\ p \o x \in Seq(T) /\ Len(p \o x) = Len(p) + Len(x)
         /\ \A i \in 1..(Len(p) + Len(x)) :
                (p \o x)[i] = IF i <= Len(p) THEN p[i] ELSE x[i - Len(p)]
  OBVIOUS

LEMMA SameSequence ==
  ASSUME NEW T, NEW p \in Seq(T), NEW x \in Seq(T), Len(p) = Len(x),
         \A i \in 1..Len(p) : p[i] = x[i]
  PROVE  p = x
  OBVIOUS

(* One sequence lies before another in a third.                            *)
LiesBehind(y, p, x) ==
    /\ Len(y) = Len(p) + Len(x)
    /\ \A i \in 1..(Len(p) + Len(x)) : y[i] = IF i <= Len(p) THEN p[i] ELSE x[i - Len(p)]

LEMMA AppendAfter ==
  ASSUME NEW T, NEW p \in Seq(T), NEW x \in Seq(T), NEW y \in Seq(T), NEW d \in T,
         LiesBehind(y, p, x)
  PROVE  Append(y, d) = p \o Append(x, d)
<1> DEFINE z == Append(x, d)
           l == Append(y, d)
           r == p \o z
<1>1. /\ z \in Seq(T) /\ Len(z) = Len(x) + 1
      /\ \A i \in 1..Len(z) : z[i] = IF i <= Len(x) THEN x[i] ELSE d
  OBVIOUS
<1>2. /\ l \in Seq(T) /\ Len(l) = Len(p) + Len(x) + 1
      /\ \A i \in 1..Len(l) : l[i] = IF i <= Len(p) + Len(x) THEN y[i] ELSE d
  <2>1. Len(y) = Len(p) + Len(x)
    BY DEF LiesBehind
  <2> QED  BY <2>1
<1> HIDE DEF z, l, r
<1>3. /\ r \in Seq(T) /\ Len(r) = Len(p) + Len(z)
      /\ \A i \in 1..(Len(p) + Len(z)) : r[i] = IF i <= Len(p) THEN p[i] ELSE z[i - Len(p)]
  BY <1>1, Joins DEF r
<1>4. /\ Len(p) \in Nat /\ Len(x) \in Nat
      /\ \A i \in 1..(Len(p) + Len(x)) : y[i] = IF i <= Len(p) THEN p[i] ELSE x[i - Len(p)]
  BY DEF LiesBehind
<1>5. ASSUME NEW i \in 1..Len(l) PROVE l[i] = r[i]
  <2>1. i \in Nat /\ i >= 1 /\ i <= Len(p) + Len(x) + 1 /\ i \in 1..(Len(p) + Len(z))
    BY <1>1, <1>2, <1>4
  <2>2. l[i] = IF i <= Len(p) + Len(x) THEN y[i] ELSE d
    BY <1>2
  <2>3. r[i] = IF i <= Len(p) THEN p[i] ELSE z[i - Len(p)]
    BY <1>3, <2>1
  <2>4. CASE i <= Len(p)
    BY <1>4, <2>1, <2>2, <2>3, <2>4
  <2>5. CASE i > Len(p)
    <3>1. i - Len(p) \in 1..Len(z)
      BY <1>1, <1>4, <2>1, <2>5
    <3>2. z[i - Len(p)] = IF i - Len(p) <= Len(x) THEN x[i - Len(p)] ELSE d
      BY <1>1, <3>1
    <3> QED  BY <1>4, <2>1, <2>2, <2>3, <2>5, <3>2
  <2> QED  BY <1>4, <2>1, <2>4, <2>5
<1>6. Len(l) = Len(r) /\ l \in Seq(T) /\ r \in Seq(T)
  BY <1>1, <1>2, <1>3, <1>4
<1>7. l = r
  BY <1>5, <1>6, SameSequence
<1> QED  BY <1>7 DEF l, r, z

(* The same, field by field.                                               *)
LEMMA NextFields ==
  ASSUME NEW S, NEW parts, PartsOK(parts, S), NEW c \in S
  PROVE  /\ c \in Separators => NextParts(parts, c).all = parts.all /\ ~NextParts(parts, c).open
         /\ c \notin Separators /\ ~parts.open =>
                NextParts(parts, c).all = Append(parts.all, <<c>>) /\ NextParts(parts, c).open
         /\ c \notin Separators /\ parts.open =>
                /\ NextParts(parts, c).all =
                       [parts.all EXCEPT ![Len(parts.all)] = Append(parts.all[Len(parts.all)], c)]
                /\ NextParts(parts, c).open
<1> DEFINE x == parts.all
           b == parts.open
           r == [all |-> x, open |-> b]
           next == NextParts(r, c)
<1>1. /\ parts = r /\ x \in Seq(Seq(S)) /\ b \in BOOLEAN /\ (b => x # <<>>)
  BY DEF PartsOK
<1> HIDE DEF x, b
<1>2. /\ c \in Separators => next = [all |-> x, open |-> FALSE]
      /\ c \notin Separators /\ ~b => next = [all |-> Append(x, <<c>>), open |-> TRUE]
      /\ c \notin Separators /\ b =>
             next = [all |-> [x EXCEPT ![Len(x)] = Append(x[Len(x)], c)], open |-> TRUE]
  <2> HIDE DEF r, next
  <2>1. /\ c \in Separators => NextParts(r, c) = [all |-> x, open |-> FALSE]
        /\ c \notin Separators /\ ~b => NextParts(r, c) = [all |-> Append(x, <<c>>), open |-> TRUE]
        /\ c \notin Separators /\ b => NextParts(r, c) =
                   [all |-> [x EXCEPT ![Len(x)] = Append(x[Len(x)], c)], open |-> TRUE]
    <3>1. parts = r
      BY <1>1
    <3>2. ASSUME c \in Separators PROVE NextParts(r, c) = [all |-> x, open |-> FALSE]
      BY <1>1, <3>2, NextPartsIs, ZenonT(60) DEF r
    <3>3. ASSUME c \notin Separators, ~b
          PROVE  NextParts(r, c) = [all |-> Append(x, <<c>>), open |-> TRUE]
      BY <1>1, <3>3, NextPartsIs DEF r
    <3>4. ASSUME c \notin Separators, b
          PROVE  NextParts(r, c) = [all |-> [x EXCEPT ![Len(x)] = Append(x[Len(x)], c)], open |-> TRUE]
      BY <1>1, <3>4, NextPartsIs, ZenonT(60) DEF r
    <3> QED  BY <3>2, <3>3, <3>4
  <2> QED  BY <2>1 DEF next
<1> DEFINE z == Append(x, <<c>>)
           w == [x EXCEPT ![Len(x)] = Append(x[Len(x)], c)]
<1> HIDE DEF next, z, w
<1>3. c \in Separators => next.all = x /\ ~next.open
  BY <1>2
<1>4. c \notin Separators /\ ~b => next.all = z /\ next.open
  BY <1>2 DEF z
<1>5. c \notin Separators /\ b => next.all = w /\ next.open
  BY <1>2 DEF w
<1>6. next = NextParts(parts, c)
  BY <1>1 DEF next
<1> QED  BY <1>3, <1>4, <1>5, <1>6 DEF z, w, x, b

(* A step does not look at the parts before those it is given.             *)
LEMMA NextPartsAfter ==
  ASSUME NEW S, NEW before \in Seq(Seq(S)), NEW u, NEW v, PartsOK(u, S), PartsOK(v, S),
         u.all = before \o v.all, NEW c \in S
  PROVE  (u.open <=> v.open) =>
             /\ NextParts(u, c).all = before \o NextParts(v, c).all
             /\ NextParts(u, c).open <=> NextParts(v, c).open
<1> DEFINE x == v.all
           y == u.all
           m == Len(before)
           k == Len(x)
<1>1. x \in Seq(Seq(S)) /\ y \in Seq(Seq(S)) /\ (v.open => x # <<>>) /\ y = before \o x
  BY DEF PartsOK
<1> HIDE DEF x, y
<1>2. m \in Nat /\ k \in Nat /\ Len(y) = m + k
  BY <1>1
<1>3. CASE c \in Separators
  <2>1. /\ NextParts(u, c).all = u.all /\ ~NextParts(u, c).open
        /\ NextParts(v, c).all = v.all /\ ~NextParts(v, c).open
    <3>1. NextParts(u, c).all = u.all /\ ~NextParts(u, c).open
      BY <1>3, NextFields, Zenon
    <3>2. NextParts(v, c).all = v.all /\ ~NextParts(v, c).open
      BY <1>3, NextFields, Zenon
    <3> QED  BY <3>1, <3>2, Zenon
  <2> QED  BY <1>1, <2>1 DEF x, y
<1>4. CASE c \notin Separators /\ ~v.open /\ ~u.open
  <2>1. /\ NextParts(u, c).all = Append(y, <<c>>) /\ NextParts(u, c).open
        /\ NextParts(v, c).all = Append(x, <<c>>) /\ NextParts(v, c).open
    BY <1>4, NextFields DEF x, y
  <2>2. Append(y, <<c>>) = before \o Append(x, <<c>>)
    <3> DEFINE d == <<c>>
    <3>1. d \in Seq(S)
      OBVIOUS
    <3> HIDE DEF d
    <3>2. LiesBehind(y, before, x)
      BY <1>1 DEF LiesBehind
    <3>3. y \in Seq(Seq(S)) /\ x \in Seq(Seq(S)) /\ before \in Seq(Seq(S))
      BY <1>1
    <3>4. Append(y, d) = before \o Append(x, d)
      BY <3>1, <3>2, <3>3, AppendAfter, Zenon
    <3> QED  BY <3>4 DEF d
  <2> QED  BY <2>1, <2>2
<1>5. CASE c \notin Separators /\ v.open /\ u.open
  <2> DEFINE left == [y EXCEPT ![Len(y)] = Append(y[Len(y)], c)]
             some == [x EXCEPT ![k] = Append(x[k], c)]
  <2>1. /\ NextParts(u, c).all = left /\ NextParts(u, c).open
        /\ NextParts(v, c).all = some /\ NextParts(v, c).open
    BY <1>5, NextFields, ZenonT(60) DEF x, y
  <2>2. left = before \o some
    <3>1. k \in 1..k /\ x[k] \in Seq(S) /\ y[m + k] = x[k] /\ m + k \in 1..(m + k)
      BY <1>1, <1>2, <1>5
    <3> DEFINE longer == Append(x[k], c)
    <3>2. longer \in Seq(S)
      BY <3>1
    <3>3. left = [y EXCEPT ![m + k] = longer]
      BY <1>2, <3>1
    <3> HIDE DEF longer, left
    <3>4. left \in Seq(Seq(S)) /\ Len(left) = m + k
      BY <1>1, <1>2, <3>1, <3>2, <3>3
    <3>5. some = [x EXCEPT ![k] = longer]
      BY DEF longer
    <3> HIDE DEF some
    <3>6. some \in Seq(Seq(S)) /\ Len(some) = k
      BY <1>1, <1>2, <3>1, <3>2, <3>5
    <3>7. before \o some \in Seq(Seq(S)) /\ Len(before \o some) = m + k
      BY <3>6, Joins
    <3>8. ASSUME NEW i \in 1..(m + k) PROVE left[i] = (before \o some)[i]
      <4>1. (before \o some)[i] = IF i <= m THEN before[i] ELSE some[i - m]
        BY <1>2, <3>6, <3>8
      <4>2. y[i] = IF i <= m THEN before[i] ELSE x[i - m]
        BY <1>1, <1>2, <3>8
      <4>3. left[i] = IF i = m + k THEN longer ELSE y[i]
        <5>1. DOMAIN y = 1..(m + k)
          BY <1>1, <1>2
        <5> HIDE DEF m, k
        <5> QED  BY <3>3, <3>8, <5>1
      <4>4. i > m => some[i - m] = IF i = m + k THEN longer ELSE x[i - m]
        BY <1>1, <1>2, <3>1, <3>5, <3>8
      <4> HIDE DEF m, k
      <4> QED  BY <1>2, <3>1, <3>8, <4>1, <4>2, <4>3, <4>4
    <3> DEFINE right == before \o some
    <3> HIDE DEF m, k, right
    <3>9. right \in Seq(Seq(S)) /\ Len(right) = m + k /\ \A i \in 1..(m + k) : left[i] = right[i]
      BY <3>7, <3>8 DEF right
    <3>10. left = right
      BY <1>2, <3>4, <3>9
    <3> QED  BY <3>10 DEF right
  <2> HIDE DEF left, some
  <2> QED  BY <2>1, <2>2
<1> QED  BY <1>3, <1>4, <1>5

(* Induction up to a number, over a set of the numbers for which it holds. *)
LEMMA Climbs ==
  ASSUME NEW n \in Nat, NEW Good, 0 \in Good,
         \A k \in 1..n : k - 1 \in Good => k \in Good
  PROVE  \A k \in 0..n : k \in Good
<1> DEFINE Bad == {k \in 0..n : k \notin Good}
<1>1. SUFFICES ASSUME Bad # {} PROVE FALSE
  OBVIOUS
<1>2. PICK k \in Bad : \A m \in Bad : k <= m
  <2>1. Bad \in SUBSET Nat
    OBVIOUS
  <2> HIDE DEF Bad
  <2> QED  BY <1>1, <2>1, SmallestOf
<1>3. k \in 0..n /\ k \notin Good
  OBVIOUS
<1>4. k \in 1..n
  BY <1>3
<1>5. k - 1 \notin Bad
  <2> HIDE DEF Bad
  <2> QED  BY <1>2, <1>4
<1> QED  BY <1>3, <1>4, <1>5

(* Parts that begin after a separator are gathered as if nothing were      *)
(* before them.                                                            *)
LEMMA PartsConcat ==
  ASSUME NEW S, NEW p \in Seq(S), NEW r \in Seq(S), NEW y \in Seq(S), LiesBehind(y, p, r),
         Len(p) > 0 => p[Len(p)] \in Separators
  PROVE  Parts(y) = Parts(p) \o Parts(r)
<1> DEFINE m == Len(p)
           n == Len(r)
<1>1. /\ m \in Nat /\ n \in Nat /\ Len(y) = m + n /\ Len(p) = m /\ Len(r) = n
      /\ \A i \in 1..m : y[i] = p[i] /\ i \in 1..(m + n) /\ i - 1 \in 0..m
      /\ \A i \in 1..n : /\ y[m + i] = r[i] /\ r[i] \in S
                         /\ m + i \in 1..(m + n) /\ m + i - 1 \in 0..(m + n)
                         /\ i - 1 \in 0..n /\ i \in 0..n
  <2>1. /\ m \in Nat /\ n \in Nat /\ Len(y) = m + n
        /\ \A i \in 1..(m + n) : y[i] = IF i <= m THEN p[i] ELSE r[i - m]
    BY SMTT(60) DEF LiesBehind
  <2>2. \A i \in 1..n : r[i] \in S
    OBVIOUS
  <2> HIDE DEF m, n
  <2>3. \A i \in 1..m : y[i] = p[i] /\ i \in 1..(m + n) /\ i - 1 \in 0..m
    BY <2>1
  <2>4. ASSUME NEW i \in 1..n
        PROVE  /\ y[m + i] = r[i]
               /\ m + i \in 1..(m + n) /\ m + i - 1 \in 0..(m + n)
               /\ i - 1 \in 0..n /\ i \in 0..n
    <3>1. m + i \in 1..(m + n) /\ ~(m + i <= m) /\ (m + i) - m = i
      BY <2>1
    <3>2. y[m + i] = r[i]
      BY <2>1, <3>1
    <3> QED  BY <2>1, <3>1, <3>2
  <2> QED  BY <2>1, <2>2, <2>3, <2>4 DEF m, n
<1> HIDE DEF m, n
<1>2. PICK q : Gathers(q, y) /\ Parts(y) = q[m + n].all
  BY <1>1, PartsGathered
<1>3. PICK qp : Gathers(qp, p) /\ Parts(p) = qp[m].all
  BY <1>1, PartsGathered
<1>4. PICK qr : Gathers(qr, r) /\ Parts(r) = qr[n].all
  BY <1>1, PartsGathered
<1>5. /\ \A i \in 0..(m + n) : PartsOK(q[i], S)
      /\ \A i \in 0..m : PartsOK(qp[i], S)
      /\ \A i \in 0..n : PartsOK(qr[i], S)
  <2>1. \A i \in 0..(m + n) : PartsOK(q[i], S)
    BY <1>1, <1>2, GathersParts
  <2>2. \A i \in 0..m : PartsOK(qp[i], S)
    BY <1>1, <1>3, GathersParts
  <2>3. \A i \in 0..n : PartsOK(qr[i], S)
    BY <1>1, <1>4, GathersParts
  <2> QED  BY <2>1, <2>2, <2>3
<1>6. /\ q[0] = Nothing /\ qp[0] = Nothing /\ qr[0] = Nothing
      /\ \A i \in 1..(m + n) : q[i] = NextParts(q[i - 1], y[i])
      /\ \A i \in 1..m : qp[i] = NextParts(qp[i - 1], p[i])
      /\ \A i \in 1..n : qr[i] = NextParts(qr[i - 1], r[i])
  BY <1>1, <1>2, <1>3, <1>4 DEF Gathers
<1>7. q[m] = qp[m]
  <2> DEFINE Good == {i \in 0..m : q[i] = qp[i]}
  <2>1. 0 \in Good
    BY <1>1, <1>6
  <2>2. \A i \in 1..m : i - 1 \in Good => i \in Good
    BY <1>1, <1>6
  <2>3. \A i \in 0..m : i \in Good
    <3> HIDE DEF Good
    <3> QED  BY <1>1, <2>1, <2>2, Climbs
  <2>4. m \in 0..m
    BY <1>1
  <2> QED  BY <2>3, <2>4
<1>8. ~qp[m].open
  <2>1. CASE m = 0
    BY <1>6, <2>1 DEF Nothing
  <2>2. CASE m # 0
    <3>1. m \in 1..m /\ m - 1 \in 0..m /\ p[m] \in Separators /\ p[m] \in S
      BY <1>1, <2>2
    <3>2. qp[m] = NextParts(qp[m - 1], p[m]) /\ PartsOK(qp[m - 1], S)
      BY <1>5, <1>6, <3>1
    <3>3. ~NextParts(qp[m - 1], p[m]).open
      BY <3>1, <3>2, NextFields, Zenon
    <3> QED  BY <3>2, <3>3
  <2> QED  BY <2>1, <2>2
<1> DEFINE before == Parts(p)
           Good == {k \in 0..n : /\ q[m + k].all = before \o qr[k].all
                                 /\ q[m + k].open <=> qr[k].open}
<1>9. before \in Seq(Seq(S))
  BY PartsAreNames
<1> HIDE DEF before
<1>10. 0 \in Good
  <2>1. m + 0 = m /\ q[m].all = before /\ ~q[m].open
    BY <1>1, <1>3, <1>7, <1>8 DEF before
  <2>2. qr[0].all = <<>> /\ ~qr[0].open
    BY <1>6 DEF Nothing
  <2>3. before = before \o <<>>
    BY <1>9
  <2>4. 0 \in 0..n
    BY <1>1
  <2>5. q[m + 0].all = before \o qr[0].all
    BY <2>1, <2>2, <2>3
  <2>6. q[m + 0].open <=> qr[0].open
    BY <2>1, <2>2
  <2> QED  BY <2>4, <2>5, <2>6
<1>11. ASSUME NEW k \in 1..n, k - 1 \in Good PROVE k \in Good
  <2> DEFINE u == q[m + k - 1]
             v == qr[k - 1]
  <2>1. u.all = before \o v.all /\ (u.open <=> v.open)
    <3>1. m + k - 1 = m + (k - 1)
      BY <1>1
    <3> QED  BY <1>11, <3>1
  <2>2. PartsOK(u, S) /\ PartsOK(v, S) /\ r[k] \in S /\ k \in 0..n
    BY <1>1, <1>5
  <2>3. q[m + k] = NextParts(u, r[k]) /\ qr[k] = NextParts(v, r[k])
    <3>1. m + k \in 1..(m + n) /\ m + (k - 1) = (m + k) - 1
      BY <1>1
    <3>2. y[m + k] = r[k]
      BY <1>1
    <3>3. q[m + k] = NextParts(u, y[m + k])
      <4> DEFINE j == m + k
      <4>1. j \in 1..(m + n) /\ u = q[j - 1]
        BY <3>1
      <4> HIDE DEF j, u
      <4>2. q[j] = NextParts(u, y[j])
        BY <1>6, <4>1
      <4> QED  BY <4>2 DEF j
    <3>4. qr[k] = NextParts(v, r[k])
      BY <1>6
    <3> QED  BY <3>2, <3>3, <3>4
  <2> HIDE DEF u, v
  <2>4. /\ NextParts(u, r[k]).all = before \o NextParts(v, r[k]).all
        /\ NextParts(u, r[k]).open <=> NextParts(v, r[k]).open
    BY <1>9, <2>1, <2>2, NextPartsAfter, Zenon
  <2>5. /\ q[m + k].all = before \o qr[k].all
        /\ q[m + k].open <=> qr[k].open
    BY <2>3, <2>4, Zenon
  <2> QED  BY <2>2, <2>5, Zenon
<1>12. n \in Good
  <2> HIDE DEF Good
  <2>1. \A k \in 0..n : k \in Good
    BY <1>1, <1>10, <1>11, Climbs
  <2> QED  BY <1>1, <2>1
<1> QED  BY <1>2, <1>4, <1>12 DEF before

(* Whatever gathers a name's parts has gathered them.                      *)
LEMMA GatheredParts ==
  ASSUME NEW S, NEW name \in Seq(S), NEW g, Gathers(g, name)
  PROVE  Parts(name) = g[Len(name)].all
<1>1. PICK q : Gathers(q, name) /\ Parts(name) = q[Len(name)].all
  BY PartsGathered
<1> DEFINE n == Len(name)
           Good == {k \in 0..n : q[k] = g[k]}
<1>2. n \in Nat
  OBVIOUS
<1>3. 0 \in Good
  BY <1>1, <1>2 DEF Gathers
<1>4. \A k \in 1..n : k - 1 \in Good => k \in Good
  BY <1>1, <1>2 DEF Gathers
<1>5. n \in Good
  <2> HIDE DEF Good, n
  <2>1. \A k \in 0..n : k \in Good
    BY <1>2, <1>3, <1>4, Climbs
  <2> QED  BY <1>2, <2>1
<1> QED  BY <1>1, <1>5

LEMMA PartsOfSeparators ==
  ASSUME NEW S, NEW name \in Seq(S), \A i \in 1..Len(name) : name[i] \in Separators
  PROVE  Parts(name) = <<>>
<1> DEFINE g == [k \in 0..Len(name) |-> Nothing]
<1>1. Gathers(g, name)
  <2>1. ASSUME NEW c \in Separators PROVE NextParts(Nothing, c) = Nothing
    BY DEF NextParts, Nothing
  <2>2. g[0] = Nothing /\ \A k \in 1..Len(name) : g[k] = Nothing /\ g[k - 1] = Nothing
    OBVIOUS
  <2> HIDE DEF g
  <2> QED  BY <2>1, <2>2 DEF Gathers
<1>2. Parts(name) = g[Len(name)].all
  <2> HIDE DEF g
  <2> QED  BY <1>1, GatheredParts
<1> QED  BY <1>2 DEF Nothing

LEMMA PartsOfOne ==
  ASSUME NEW S, NEW name \in Seq(S), name # <<>>,
         \A i \in 1..Len(name) : name[i] \notin Separators
  PROVE  Parts(name) = <<name>>
<1> DEFINE n == Len(name)
           g == [k \in 0..n |-> IF k = 0 THEN Nothing
                                ELSE [all |-> <<SubSeq(name, 1, k)>>, open |-> TRUE]]
<1>1. n \in Nat /\ n >= 1
  OBVIOUS
<1>2. g[0] = Nothing
  BY <1>1
<1>3. ASSUME NEW k \in 1..n PROVE g[k] = NextParts(g[k - 1], name[k])
  <2>1. CASE k = 1
    <3>1. g[k - 1] = Nothing /\ name[k] \notin Separators
      BY <1>2, <2>1
    <3>2. SubSeq(name, 1, 1) = <<name[1]>>
      <4> DEFINE l == SubSeq(name, 1, 1)
                 r == <<name[1]>>
      <4>1. /\ l \in Seq(S) /\ Len(l) = 1 /\ l[1] = name[1]
            /\ r \in Seq(S) /\ Len(r) = 1 /\ r[1] = name[1]
        BY <1>1
      <4> HIDE DEF l, r
      <4>2. l = r
        BY <4>1, SameSequence
      <4> QED  BY <4>2 DEF l, r
    <3>3. NextParts(Nothing, name[k]) = [all |-> <<<<name[1]>>>>, open |-> TRUE]
      BY <2>1, <3>1 DEF NextParts, Nothing
    <3>4. g[k] = [all |-> <<SubSeq(name, 1, 1)>>, open |-> TRUE]
      BY <1>1, <2>1
    <3> QED  BY <3>1, <3>2, <3>3, <3>4
  <2>2. CASE k # 1
    <3> DEFINE before == SubSeq(name, 1, k - 1)
               c == name[k]
    <3>1. g[k - 1] = [all |-> <<before>>, open |-> TRUE] /\ g[k] = [all |-> <<SubSeq(name, 1, k)>>, open |-> TRUE]
      BY <1>1, <2>2
    <3>2. SubSeq(name, 1, k) = Append(before, c)
      <4>1. before \in Seq(S) /\ c \in S /\ Len(before) = k - 1
        BY <1>1
      <4>2. /\ Len(Append(before, c)) = k /\ Append(before, c) \in Seq(S)
            /\ \A i \in 1..k : Append(before, c)[i] = name[i]
        BY <1>1, <4>1
      <4>3. /\ Len(SubSeq(name, 1, k)) = k /\ SubSeq(name, 1, k) \in Seq(S)
            /\ \A i \in 1..k : SubSeq(name, 1, k)[i] = name[i]
        BY <1>1
      <4> DEFINE l == SubSeq(name, 1, k)
                 r == Append(before, c)
      <4> HIDE DEF before, c, l, r, n
      <4>4. l = r
        <5>1. Len(l) = k /\ l \in Seq(S) /\ Len(r) = k /\ r \in Seq(S) /\ \A i \in 1..k : l[i] = r[i]
          BY <4>2, <4>3 DEF l, r
        <5> QED  BY <5>1, SameSequence
      <4> QED  BY <4>4 DEF l, r
    <3>3. c \notin Separators
      BY <1>1
    <3>4. before \in Seq(S)
      BY <1>1
    <3> HIDE DEF before, c, g
    <3>5. NextParts([all |-> <<before>>, open |-> TRUE], c) = [all |-> <<Append(before, c)>>, open |-> TRUE]
      <4> DEFINE x == <<before>>
                 d == Append(before, c)
                 y == <<d>>
      <4>1. /\ x \in Seq(Seq(S)) /\ x # <<>> /\ Len(x) = 1 /\ x[1] = before /\ c \in S
        BY <1>1, <3>4 DEF c
      <4>2. d \in Seq(S)
        BY <3>4, <4>1
      <4> HIDE DEF x, d
      <4>3. NextParts([all |-> x, open |-> TRUE], c) = [all |-> [x EXCEPT ![Len(x)] = Append(x[Len(x)], c)], open |-> TRUE]
        BY <3>3, <4>1, NextPartsIs, ZenonT(60)
      <4>4. Append(x[Len(x)], c) = d
        BY <4>1 DEF d
      <4>5. [x EXCEPT ![Len(x)] = d] = y
        BY <4>1, <4>2
      <4>6. NextParts([all |-> x, open |-> TRUE], c) = [all |-> y, open |-> TRUE]
        BY <4>3, <4>4, <4>5
      <4> QED  BY <4>6 DEF x, d
    <3> QED  BY <3>1, <3>2, <3>5 DEF c
  <2> QED  BY <2>1, <2>2
<1>4. Gathers(g, name)
  <2> HIDE DEF g
  <2> QED  BY <1>2, <1>3 DEF Gathers
<1>5. Parts(name) = g[n].all
  <2> HIDE DEF g
  <2> QED  BY <1>4, GatheredParts
<1>6. SubSeq(name, 1, n) = name
  OBVIOUS
<1> QED  BY <1>1, <1>5, <1>6

(***************************************************************************)
(* The roots that a name begins with.                                      *)
(***************************************************************************)
Letters == Symbols \cup Separators \cup {":", ".", "?", "UNC", "GLOBALROOT"}

LEMMA PlainNames ==
  ASSUME NEW name \in Seq(Letters)
  PROVE  /\ Plainly(name) \in Seq(Letters) /\ Len(Plainly(name)) = Len(name)
         /\ \A i \in 1..Len(name) :
                /\ name[i] \in Separators => Plainly(name)[i] = "\\"
                /\ name[i] \notin Separators => Plainly(name)[i] = name[i]
                /\ Separates(name, i) => name[i] \in Separators
                /\ ~Separates(name, i) => name[i] \notin Separators
<1> DEFINE p == [i \in 1..Len(name) |-> IF name[i] = "/" THEN "\\" ELSE name[i]]
<1>1. "\\" \in Letters
  BY DEF Letters, Separators
<1>2. \A i \in 1..Len(name) : (IF name[i] = "/" THEN "\\" ELSE name[i]) \in Letters
  BY <1>1
<1>3. p \in Seq(Letters) /\ Len(p) = Len(name)
  BY <1>2
<1>4. Plainly(name) = p
  BY DEF Plainly
<1>5. \A i \in 1..Len(name) : p[i] = IF name[i] = "/" THEN "\\" ELSE name[i]
  OBVIOUS
<1>6. \A i \in 1..Len(name) : /\ name[i] \in Separators => p[i] = "\\"
                              /\ name[i] \notin Separators => p[i] = name[i]
  BY <1>5 DEF Separators
<1>7. \A i \in 1..Len(name) : At(name, i) = name[i]
  BY DEF At
<1> HIDE DEF p
<1> QED  BY <1>3, <1>4, <1>6, <1>7 DEF Separates

LEMMA PrefixIs ==
  ASSUME NEW T, NEW d \in Seq(T), NEW s \in Seq(T)
  PROVE  /\ IsPrefix(d, s) => Len(d) <= Len(s) /\ \A i \in 1..Len(d) : d[i] = s[i]
         /\ Len(d) <= Len(s) /\ (\A i \in 1..Len(d) : d[i] = s[i]) => IsPrefix(d, s)
<1>1. ASSUME Len(d) <= Len(s)
      PROVE  /\ SubSeq(d, 1, Len(d)) = d
             /\ SubSeq(s, 1, Len(d)) \in Seq(T) /\ Len(SubSeq(s, 1, Len(d))) = Len(d)
             /\ \A i \in 1..Len(d) : SubSeq(s, 1, Len(d))[i] = s[i]
  BY <1>1
<1>2. ASSUME IsPrefix(d, s) PROVE Len(d) <= Len(s) /\ \A i \in 1..Len(d) : d[i] = s[i]
  BY <1>1, <1>2 DEF IsPrefix
<1>3. ASSUME Len(d) <= Len(s), \A i \in 1..Len(d) : d[i] = s[i] PROVE IsPrefix(d, s)
  <2> DEFINE r == SubSeq(s, 1, Len(d))
  <2>1. r \in Seq(T) /\ Len(r) = Len(d) /\ \A i \in 1..Len(d) : r[i] = d[i]
    BY <1>1, <1>3
  <2> HIDE DEF r
  <2>2. r = d
    BY <2>1, SameSequence
  <2> QED  BY <1>1, <1>3, <2>2 DEF r, IsPrefix
<1> QED  BY <1>2, <1>3

Slash == [dos |-> <<"\\">>, nt |-> <<"\\">>]
Unc == [dos |-> <<"\\", "\\">>, nt |-> UncRoot]
Device(c) == [dos |-> <<"\\", "\\", c, "\\">>, nt |-> NtRoot]
DeviceUnc(c) == [dos |-> <<"\\", "\\", c, "\\", "UNC", "\\">>, nt |-> UncRoot]
Global == [dos |-> <<"\\", "\\", ".", "\\", "GLOBALROOT", "\\">>, nt |-> <<"\\", "\\">>]

LEMMA AllRoots ==
  /\ DosRoots = {Slash, Unc, Global} \cup {Device(c) : c \in {".", "?"}} \cup {DeviceUnc(c) : c \in {".", "?"}}
  /\ \A root \in DosRoots : root.dos \in Seq(Letters)
<1>1. DosRoots = {Slash, Unc, Global} \cup {Device(c) : c \in {".", "?"}} \cup {DeviceUnc(c) : c \in {".", "?"}}
  BY DEF DosRoots, Slash, Unc, Global, Device, DeviceUnc
<1>2. {"\\", ".", "?", "UNC", "GLOBALROOT"} \subseteq Letters
  BY DEF Letters, Separators
<1>3. /\ Slash.dos \in Seq(Letters) /\ Unc.dos \in Seq(Letters) /\ Global.dos \in Seq(Letters)
  BY <1>2 DEF Slash, Unc, Global
<1>4. ASSUME NEW c \in {".", "?"} PROVE Device(c).dos \in Seq(Letters) /\ DeviceUnc(c).dos \in Seq(Letters)
  BY <1>2 DEF Device, DeviceUnc
<1> QED  BY <1>1, <1>3, <1>4

(* What it is to begin with each.                                          *)
DeviceName(name) ==
    /\ Len(name) >= 4 /\ name[1] \in Separators /\ name[2] \in Separators
    /\ name[3] \in {".", "?"} /\ name[4] \in Separators
WordedName(name, word) ==
    Len(name) >= 6 /\ name[5] = word /\ name[6] \in Separators

LEMMA RootsFound ==
  ASSUME NEW name \in Seq(Letters)
  PROVE  /\ Len(name) >= 1 /\ name[1] \in Separators => Slash \in RootsOf(name)
         /\ Len(name) >= 2 /\ name[1] \in Separators /\ name[2] \in Separators => Unc \in RootsOf(name)
         /\ DeviceName(name) => Device(name[3]) \in RootsOf(name)
         /\ DeviceName(name) /\ WordedName(name, "UNC") => DeviceUnc(name[3]) \in RootsOf(name)
         /\ DeviceName(name) /\ WordedName(name, "GLOBALROOT") /\ name[3] = "." => Global \in RootsOf(name)
<1> DEFINE p == Plainly(name)
<1>1. p \in Seq(Letters) /\ Len(p) = Len(name)
      /\ \A i \in 1..Len(name) : /\ name[i] \in Separators => p[i] = "\\"
                                 /\ name[i] \notin Separators => p[i] = name[i]
  BY PlainNames
<1>2. Separators = {"\\", "/"}
  BY DEF Separators
<1> HIDE DEF p
<1>3. ASSUME NEW root \in DosRoots, Len(root.dos) <= Len(name),
             \A i \in 1..Len(root.dos) : root.dos[i] = p[i]
      PROVE  root \in RootsOf(name)
  <2>1. root.dos \in Seq(Letters)
    BY AllRoots
  <2>2. IsPrefix(root.dos, p)
    BY <1>1, <1>3, <2>1, PrefixIs
  <2> QED  BY <2>2 DEF RootsOf, p
<1>4. ASSUME Len(name) >= 1, name[1] \in Separators PROVE Slash \in RootsOf(name)
  <2>1. Slash \in DosRoots /\ Len(Slash.dos) = 1 /\ Slash.dos[1] = "\\"
    BY AllRoots DEF Slash
  <2>2. p[1] = "\\" /\ Len(name) >= 1
    BY <1>1, <1>4
  <2> DEFINE root == Slash
  <2> HIDE DEF root
  <2>3. \A i \in 1..Len(root.dos) : root.dos[i] = p[i]
    <3>1. \A i \in 1..1 : i = 1
      OBVIOUS
    <3> QED  BY <2>1, <2>2, <3>1 DEF root
  <2>4. root \in RootsOf(name)
    BY <1>3, <2>1, <2>2, <2>3 DEF root
  <2> QED  BY <2>4 DEF root
<1>5. ASSUME Len(name) >= 2, name[1] \in Separators, name[2] \in Separators PROVE Unc \in RootsOf(name)
  <2>1. Unc \in DosRoots /\ Len(Unc.dos) = 2 /\ Unc.dos[1] = "\\" /\ Unc.dos[2] = "\\"
    BY AllRoots DEF Unc
  <2>2. p[1] = "\\" /\ p[2] = "\\" /\ Len(name) >= 2
    BY <1>1, <1>5
  <2> DEFINE root == Unc
  <2> HIDE DEF root
  <2>3. \A i \in 1..Len(root.dos) : root.dos[i] = p[i]
    <3>1. \A i \in 1..2 : i = 1 \/ i = 2
      OBVIOUS
    <3> QED  BY <2>1, <2>2, <3>1 DEF root
  <2>4. root \in RootsOf(name)
    BY <1>3, <2>1, <2>2, <2>3 DEF root
  <2> QED  BY <2>4 DEF root
<1>6. ASSUME DeviceName(name) PROVE Device(name[3]) \in RootsOf(name)
  <2> DEFINE root == Device(name[3])
  <2>1. /\ root \in DosRoots /\ Len(root.dos) = 4 /\ root.dos[1] = "\\" /\ root.dos[2] = "\\"
        /\ root.dos[3] = name[3] /\ root.dos[4] = "\\"
    BY <1>6, AllRoots DEF Device, DeviceName
  <2>2. p[1] = "\\" /\ p[2] = "\\" /\ p[3] = name[3] /\ p[4] = "\\" /\ Len(name) >= 4
    BY <1>1, <1>2, <1>6 DEF DeviceName
  <2> HIDE DEF root
  <2>3. \A i \in 1..Len(root.dos) : root.dos[i] = p[i]
    <3>1. \A i \in 1..4 : i = 1 \/ i = 2 \/ i = 3 \/ i = 4
      OBVIOUS
    <3> QED  BY <2>1, <2>2, <3>1
  <2>4. root \in RootsOf(name)
    BY <1>1, <1>3, <2>1, <2>2, <2>3
  <2> QED  BY <2>4 DEF root
<1>7. ASSUME DeviceName(name), WordedName(name, "UNC") PROVE DeviceUnc(name[3]) \in RootsOf(name)
  <2> DEFINE root == DeviceUnc(name[3])
  <2>1. /\ root \in DosRoots /\ Len(root.dos) = 6 /\ root.dos[1] = "\\" /\ root.dos[2] = "\\"
        /\ root.dos[3] = name[3] /\ root.dos[4] = "\\" /\ root.dos[5] = "UNC" /\ root.dos[6] = "\\"
    BY <1>7, AllRoots DEF DeviceUnc, DeviceName
  <2>2. /\ p[1] = "\\" /\ p[2] = "\\" /\ p[3] = name[3] /\ p[4] = "\\" /\ Len(name) >= 6
        /\ p[5] = "UNC" /\ p[6] = "\\"
    BY <1>1, <1>2, <1>7 DEF DeviceName, WordedName
  <2> HIDE DEF root
  <2>3. \A i \in 1..Len(root.dos) : root.dos[i] = p[i]
    <3>1. \A i \in 1..6 : i = 1 \/ i = 2 \/ i = 3 \/ i = 4 \/ i = 5 \/ i = 6
      OBVIOUS
    <3> QED  BY <2>1, <2>2, <3>1
  <2>4. root \in RootsOf(name)
    BY <1>1, <1>3, <2>1, <2>2, <2>3
  <2> QED  BY <2>4 DEF root
<1>8. ASSUME DeviceName(name), WordedName(name, "GLOBALROOT"), name[3] = "." PROVE Global \in RootsOf(name)
  <2> DEFINE root == Global
  <2>1. /\ root \in DosRoots /\ Len(root.dos) = 6 /\ root.dos[1] = "\\" /\ root.dos[2] = "\\"
        /\ root.dos[3] = name[3] /\ root.dos[4] = "\\" /\ root.dos[5] = "GLOBALROOT" /\ root.dos[6] = "\\"
    BY <1>8, AllRoots DEF Global, DeviceName
  <2>2. /\ p[1] = "\\" /\ p[2] = "\\" /\ p[3] = name[3] /\ p[4] = "\\" /\ Len(name) >= 6
        /\ p[5] = "GLOBALROOT" /\ p[6] = "\\"
    BY <1>1, <1>2, <1>8 DEF DeviceName, WordedName
  <2> HIDE DEF root
  <2>3. \A i \in 1..Len(root.dos) : root.dos[i] = p[i]
    <3>1. \A i \in 1..6 : i = 1 \/ i = 2 \/ i = 3 \/ i = 4 \/ i = 5 \/ i = 6
      OBVIOUS
    <3> QED  BY <2>1, <2>2, <3>1
  <2>4. root \in RootsOf(name)
    BY <1>1, <1>3, <2>1, <2>2, <2>3
  <2> QED  BY <2>4 DEF root
<1> QED  BY <1>4, <1>5, <1>6, <1>7, <1>8

(* And what a root found says of the name.                                 *)
LEMMA RootsKnown ==
  ASSUME NEW name \in Seq(Letters), NEW root \in RootsOf(name)
  PROVE  /\ Len(name) >= 1 /\ name[1] \in Separators
         /\ \/ root = Slash
            \/ root = Unc /\ Len(name) >= 2 /\ name[2] \in Separators
            \/ DeviceName(name) /\ root = Device(name[3])
            \/ DeviceName(name) /\ root = DeviceUnc(name[3]) /\ WordedName(name, "UNC")
            \/ DeviceName(name) /\ root = Global /\ WordedName(name, "GLOBALROOT") /\ name[3] = "."
<1> DEFINE p == Plainly(name)
<1>1. p \in Seq(Letters) /\ Len(p) = Len(name)
      /\ \A i \in 1..Len(name) : /\ name[i] \in Separators => p[i] = "\\"
                                 /\ name[i] \notin Separators => p[i] = name[i]
  BY PlainNames
<1>2. Separators = {"\\", "/"}
  BY DEF Separators
<1> HIDE DEF p
<1>3. root \in DosRoots /\ Len(root.dos) <= Len(name) /\ \A i \in 1..Len(root.dos) : root.dos[i] = p[i]
  <2>1. root \in DosRoots /\ IsPrefix(root.dos, p)
    BY DEF RootsOf, p
  <2>2. root.dos \in Seq(Letters)
    BY <2>1, AllRoots
  <2> QED  BY <1>1, <2>1, <2>2, PrefixIs
<1>4. \A i \in 1..Len(name) : /\ p[i] = "\\" => name[i] \in Separators
                              /\ p[i] \notin Separators => name[i] = p[i]
  BY <1>1, <1>2
<1>5. CASE root = Slash
  <2>1. Len(root.dos) = 1 /\ root.dos[1] = "\\"
    BY <1>5 DEF Slash
  <2> QED  BY <1>1, <1>3, <1>4, <1>5, <2>1
<1>6. CASE root = Unc
  <2>1. Len(root.dos) = 2 /\ root.dos[1] = "\\" /\ root.dos[2] = "\\"
    BY <1>6 DEF Unc
  <2> QED  BY <1>1, <1>3, <1>4, <1>6, <2>1
<1>7. ASSUME NEW c \in {".", "?"}, root = Device(c) PROVE DeviceName(name) /\ c = name[3]
  <2>1. /\ Len(root.dos) = 4 /\ root.dos[1] = "\\" /\ root.dos[2] = "\\"
        /\ root.dos[3] = c /\ root.dos[4] = "\\"
    BY <1>7 DEF Device
  <2>2. p[1] = "\\" /\ p[2] = "\\" /\ p[3] = c /\ p[4] = "\\" /\ Len(name) >= 4 /\ c \notin Separators
    BY <1>2, <1>3, <2>1
  <2> QED  BY <1>4, <2>2 DEF DeviceName
<1>8. ASSUME NEW c \in {".", "?"}, root = DeviceUnc(c)
      PROVE  DeviceName(name) /\ c = name[3] /\ WordedName(name, "UNC")
  <2>1. /\ Len(root.dos) = 6 /\ root.dos[1] = "\\" /\ root.dos[2] = "\\"
        /\ root.dos[3] = c /\ root.dos[4] = "\\" /\ root.dos[5] = "UNC" /\ root.dos[6] = "\\"
    BY <1>8 DEF DeviceUnc
  <2>2. /\ p[1] = "\\" /\ p[2] = "\\" /\ p[3] = c /\ p[4] = "\\" /\ Len(name) >= 6 /\ c \notin Separators
        /\ p[5] = "UNC" /\ p[6] = "\\" /\ "UNC" \notin Separators
    BY <1>2, <1>3, <2>1
  <2> QED  BY <1>4, <2>2 DEF DeviceName, WordedName
<1>9. ASSUME root = Global
      PROVE  DeviceName(name) /\ name[3] = "." /\ WordedName(name, "GLOBALROOT")
  <2>1. /\ Len(root.dos) = 6 /\ root.dos[1] = "\\" /\ root.dos[2] = "\\"
        /\ root.dos[3] = "." /\ root.dos[4] = "\\" /\ root.dos[5] = "GLOBALROOT" /\ root.dos[6] = "\\"
    BY <1>9 DEF Global
  <2>2. /\ p[1] = "\\" /\ p[2] = "\\" /\ p[3] = "." /\ p[4] = "\\" /\ Len(name) >= 6 /\ "." \notin Separators
        /\ p[5] = "GLOBALROOT" /\ p[6] = "\\" /\ "GLOBALROOT" \notin Separators
    BY <1>2, <1>3, <2>1
  <2> QED  BY <1>4, <2>2 DEF DeviceName, WordedName
<1>10. \/ root \in {Slash, Unc, Global}
       \/ \E c \in {".", "?"} : root = Device(c)
       \/ \E c \in {".", "?"} : root = DeviceUnc(c)
  BY <1>3, AllRoots
<1>11. DeviceName(name) => Len(name) >= 1 /\ name[1] \in Separators
  BY DEF DeviceName
<1> QED  BY <1>5, <1>6, <1>7, <1>8, <1>9, <1>10, <1>11

LEMMA RootOfIs ==
  ASSUME NEW name \in Seq(Letters), NEW root \in RootsOf(name),
         \A other \in RootsOf(name) : other # root => Len(other.dos) < Len(root.dos)
  PROVE  RootOf(name) = root
<1>1. \A other \in RootsOf(name) : Len(other.dos) \in Nat
  <2> TAKE other \in RootsOf(name)
  <2>1. other \in DosRoots
    BY DEF RootsOf
  <2>2. other.dos \in Seq(Letters)
    BY <2>1, AllRoots
  <2> QED  BY <2>2
<1> DEFINE Longest(r) == \A other \in RootsOf(name) : Len(other.dos) <= Len(r.dos)
<1>2. Longest(root)
  BY <1>1
<1>3. ASSUME NEW r \in RootsOf(name), Longest(r) PROVE r = root
  BY <1>1, <1>3
<1> HIDE DEF Longest
<1>4. root = CHOOSE r \in RootsOf(name) : Longest(r)
  BY <1>2, <1>3
<1> QED  BY <1>4 DEF RootOf, Longest

LEMMA RootLengths ==
  /\ Len(Slash.dos) = 1 /\ Len(Unc.dos) = 2 /\ Len(Global.dos) = 6
  /\ \A c : Len(Device(c).dos) = 4 /\ Len(DeviceUnc(c).dos) = 6
  /\ Slash.dos = <<"\\">> /\ Unc.dos = <<"\\", "\\">>
  /\ Slash.nt = <<"\\">> /\ Unc.nt = UncRoot /\ Global.nt = <<"\\", "\\">>
  /\ \A c : Device(c).nt = NtRoot /\ DeviceUnc(c).nt = UncRoot
<1>1. Len(Slash.dos) = 1 /\ Slash.dos = <<"\\">> /\ Slash.nt = <<"\\">>
  BY DEF Slash
<1>2. Len(Unc.dos) = 2 /\ Unc.dos = <<"\\", "\\">> /\ Unc.nt = UncRoot
  BY DEF Unc
<1>3. Len(Global.dos) = 6 /\ Global.nt = <<"\\", "\\">>
  BY DEF Global
<1>4. \A c : Len(Device(c).dos) = 4 /\ Device(c).nt = NtRoot
  BY DEF Device
<1>5. \A c : Len(DeviceUnc(c).dos) = 6 /\ DeviceUnc(c).nt = UncRoot
  BY DEF DeviceUnc
<1> QED  BY <1>1, <1>2, <1>3, <1>4, <1>5

LEMMA TheRoot ==
  ASSUME NEW name \in Seq(Letters)
  PROVE  /\ Len(name) = 0 \/ name[1] \notin Separators => RootsOf(name) = {}
         /\ Len(name) >= 1 /\ name[1] \in Separators /\ (Len(name) >= 2 => name[2] \notin Separators) =>
                RootOf(name) = Slash /\ Slash \in RootsOf(name)
         /\ Len(name) >= 2 /\ name[1] \in Separators /\ name[2] \in Separators /\ ~DeviceName(name) =>
                RootOf(name) = Unc /\ Unc \in RootsOf(name)
         /\ DeviceName(name) /\ ~WordedName(name, "UNC")
                /\ ~(name[3] = "." /\ WordedName(name, "GLOBALROOT")) =>
                RootOf(name) = Device(name[3]) /\ Device(name[3]) \in RootsOf(name)
         /\ DeviceName(name) /\ WordedName(name, "UNC") =>
                RootOf(name) = DeviceUnc(name[3]) /\ DeviceUnc(name[3]) \in RootsOf(name)
         /\ DeviceName(name) /\ name[3] = "." /\ WordedName(name, "GLOBALROOT") =>
                RootOf(name) = Global /\ Global \in RootsOf(name)
<1>0. /\ Len(Slash.dos) = 1 /\ Len(Unc.dos) = 2 /\ Len(Global.dos) = 6
      /\ Len(Device(name[3]).dos) = 4 /\ Len(DeviceUnc(name[3]).dos) = 6
  BY RootLengths, Zenon
<1>1. ASSUME Len(name) = 0 \/ name[1] \notin Separators PROVE RootsOf(name) = {}
  <2>1. \A root \in RootsOf(name) : Len(name) >= 1 /\ name[1] \in Separators
    BY RootsKnown
  <2> QED  BY <1>1, <2>1
<1>2. ASSUME Len(name) >= 1, name[1] \in Separators, Len(name) >= 2 => name[2] \notin Separators
      PROVE  RootOf(name) = Slash /\ Slash \in RootsOf(name)
  <2>1. Slash \in RootsOf(name)
    BY <1>2, RootsFound
  <2>2. \A other \in RootsOf(name) : other = Slash
    BY <1>2, RootsKnown DEF DeviceName
  <2> QED  BY <2>1, <2>2, RootOfIs
<1>3. ASSUME Len(name) >= 2, name[1] \in Separators, name[2] \in Separators, ~DeviceName(name)
      PROVE  RootOf(name) = Unc /\ Unc \in RootsOf(name)
  <2>1. Unc \in RootsOf(name)
    BY <1>3, RootsFound
  <2>2. \A other \in RootsOf(name) : other # Unc => other = Slash
    BY <1>3, RootsKnown
  <2>3. ASSUME NEW other \in RootsOf(name), other # Unc PROVE Len(other.dos) < Len(Unc.dos)
    <3>1. other = Slash => Len(other.dos) = 1
      BY <1>0, Zenon
    <3> QED  BY <1>0, <2>3, <2>2, <3>1
  <2> QED  BY <2>1, <2>3, RootOfIs
<1>4. ASSUME DeviceName(name), ~WordedName(name, "UNC"), ~(name[3] = "." /\ WordedName(name, "GLOBALROOT"))
      PROVE  RootOf(name) = Device(name[3]) /\ Device(name[3]) \in RootsOf(name)
  <2>1. Device(name[3]) \in RootsOf(name)
    BY <1>4, RootsFound
  <2>2. \A other \in RootsOf(name) : other # Device(name[3]) => other = Slash \/ other = Unc
    BY <1>4, RootsKnown
  <2>3. ASSUME NEW other \in RootsOf(name), other # Device(name[3]) PROVE Len(other.dos) < Len(Device(name[3]).dos)
    <3>1. other = Slash => Len(other.dos) = 1
      BY <1>0, Zenon
    <3>2. other = Unc => Len(other.dos) = 2
      BY <1>0, Zenon
    <3>7. Len(other.dos) = 1 \/ Len(other.dos) = 2
      BY <2>3, <2>2, <3>1, <3>2, Zenon
    <3>8. Len(other.dos) < 4
      <4> DEFINE n == Len(other.dos)
      <4>1. n = 1 \/ n = 2
        BY <3>7, Zenon
      <4> HIDE DEF n
      <4>2. n < 4
        BY <4>1
      <4> QED  BY <4>2 DEF n
    <3> QED  BY <1>0, <3>8, Zenon
  <2> QED  BY <2>1, <2>3, RootOfIs
<1>5. ASSUME DeviceName(name), WordedName(name, "UNC")
      PROVE  RootOf(name) = DeviceUnc(name[3]) /\ DeviceUnc(name[3]) \in RootsOf(name)
  <2>1. DeviceUnc(name[3]) \in RootsOf(name)
    BY <1>5, RootsFound
  <2>2. ~WordedName(name, "GLOBALROOT")
    BY <1>5 DEF WordedName
  <2>3. \A other \in RootsOf(name) :
            other # DeviceUnc(name[3]) => other = Slash \/ other = Unc \/ other = Device(name[3])
    BY <1>5, <2>2, RootsKnown
  <2>4. ASSUME NEW other \in RootsOf(name), other # DeviceUnc(name[3]) PROVE Len(other.dos) < Len(DeviceUnc(name[3]).dos)
    <3>1. other = Slash => Len(other.dos) = 1
      BY <1>0, Zenon
    <3>2. other = Unc => Len(other.dos) = 2
      BY <1>0, Zenon
    <3>3. other = Device(name[3]) => Len(other.dos) = 4
      BY <1>0, Zenon
    <3>7. Len(other.dos) = 1 \/ Len(other.dos) = 2 \/ Len(other.dos) = 4
      BY <2>4, <2>3, <3>1, <3>2, <3>3, Zenon
    <3>8. Len(other.dos) < 6
      <4> DEFINE n == Len(other.dos)
      <4>1. n = 1 \/ n = 2 \/ n = 4
        BY <3>7, Zenon
      <4> HIDE DEF n
      <4>2. n < 6
        BY <4>1
      <4> QED  BY <4>2 DEF n
    <3> QED  BY <1>0, <3>8, Zenon
  <2> QED  BY <2>1, <2>4, RootOfIs
<1>6. ASSUME DeviceName(name), name[3] = ".", WordedName(name, "GLOBALROOT")
      PROVE  RootOf(name) = Global /\ Global \in RootsOf(name)
  <2>1. Global \in RootsOf(name)
    BY <1>6, RootsFound
  <2>2. ~WordedName(name, "UNC")
    BY <1>6 DEF WordedName
  <2>3. \A other \in RootsOf(name) :
            other # Global => other = Slash \/ other = Unc \/ other = Device(name[3])
    BY <1>6, <2>2, RootsKnown
  <2>4. ASSUME NEW other \in RootsOf(name), other # Global PROVE Len(other.dos) < Len(Global.dos)
    <3>1. other = Slash => Len(other.dos) = 1
      BY <1>0, Zenon
    <3>2. other = Unc => Len(other.dos) = 2
      BY <1>0, Zenon
    <3>3. other = Device(name[3]) => Len(other.dos) = 4
      BY <1>0, Zenon
    <3>7. Len(other.dos) = 1 \/ Len(other.dos) = 2 \/ Len(other.dos) = 4
      BY <2>4, <2>3, <3>1, <3>2, <3>3, Zenon
    <3>8. Len(other.dos) < 6
      <4> DEFINE n == Len(other.dos)
      <4>1. n = 1 \/ n = 2 \/ n = 4
        BY <3>7, Zenon
      <4> HIDE DEF n
      <4>2. n < 6
        BY <4>1
      <4> QED  BY <4>2 DEF n
    <3> QED  BY <1>0, <3>8, Zenon
  <2> QED  BY <2>1, <2>4, RootOfIs
<1> QED  BY <1>1, <1>2, <1>3, <1>4, <1>5, <1>6

(***************************************************************************)
(* What the type of a name says of its first characters.                   *)
(***************************************************************************)
LEMMA NameCharacters ==
  ASSUME SizesFit, NEW name \in Seq(Symbols \ {NUL})
  PROVE  /\ name \in Seq(Letters)
         /\ \A i \in Nat \ {0} :
               /\ i <= Len(name) => At(name, i) = name[i] /\ name[i] # NUL
               /\ i > Len(name) => At(name, i) = NUL
               /\ Separates(name, i) => i <= Len(name) /\ name[i] \in Separators
               /\ ~Separates(name, i) => i > Len(name) \/ name[i] \notin Separators
<1>1. name \in Seq(Letters)
  BY DEF Letters
<1>2. \A i \in 1..Len(name) : name[i] # NUL
  OBVIOUS
<1>3. Separators = {"\\", "/"} /\ NUL = "NUL"
  BY DEF Separators, NUL
<1>4. ASSUME NEW i \in Nat \ {0}
      PROVE  /\ i <= Len(name) => At(name, i) = name[i] /\ name[i] # NUL
             /\ i > Len(name) => At(name, i) = NUL
  BY <1>2 DEF At
<1>5. NUL \notin Separators
  BY <1>3
<1> QED  BY <1>1, <1>4, <1>5 DEF Separates

LEMMA TypeSays ==
  ASSUME SizesFit, NEW name \in Seq(Symbols \ {NUL})
  PROVE  LET drive == OnDrive(name) /\ Separates(name, 3) IN
         /\ TypeOf(name) \in {"DriveAbsolute", "DriveRelative", "Relative", "Unc", "ShortPrefix", "UncRoot", "Extended"}
         /\ TypeOf(name) = "DriveAbsolute" => drive
         /\ TypeOf(name) # "DriveAbsolute" => ~drive
         /\ TypeOf(name) \in {"Relative", "DriveRelative"} => Len(name) = 0 \/ name[1] \notin Separators
         /\ TypeOf(name) = "DriveRelative" => OnDrive(name)
         /\ TypeOf(name) = "Relative" => ~OnDrive(name)
         /\ TypeOf(name) \in {"Unc", "UncRoot", "Extended", "ShortPrefix"} =>
                Len(name) >= 1 /\ name[1] \in Separators
         /\ TypeOf(name) = "Unc" => (Len(name) >= 2 => name[2] \notin Separators)
         /\ TypeOf(name) \in {"UncRoot", "Extended", "ShortPrefix"} => Len(name) >= 2 /\ name[2] \in Separators
         /\ TypeOf(name) = "UncRoot" => Len(name) >= 3 /\ name[3] \notin {".", "?"}
         /\ TypeOf(name) = "ShortPrefix" =>
                /\ ~DeviceName(name)
                /\ Len(name) >= 3 => name[3] \in {".", "?"}
         /\ TypeOf(name) = "Extended" => DeviceName(name)
<1>1. \A i \in Nat \ {0} :
               /\ i <= Len(name) => At(name, i) = name[i] /\ name[i] # NUL
               /\ i > Len(name) => At(name, i) = NUL
               /\ Separates(name, i) => i <= Len(name) /\ name[i] \in Separators
               /\ ~Separates(name, i) => i > Len(name) \/ name[i] \notin Separators
  BY NameCharacters
<1>2. Separators = {"\\", "/"} /\ NUL = "NUL"
  BY DEF Separators, NUL
<1>3. Len(name) \in Nat
  OBVIOUS
<1> DEFINE n == Len(name)
           S1 == Separates(name, 1)
           S2 == Separates(name, 2)
           S3 == Separates(name, 3)
           S4 == Separates(name, 4)
<1>4. /\ S1 => n >= 1 /\ name[1] \in Separators
      /\ S2 => n >= 2 /\ name[2] \in Separators
      /\ S3 => n >= 3 /\ name[3] \in Separators
      /\ S4 => n >= 4 /\ name[4] \in Separators
  BY <1>1
<1>5. /\ ~S1 => n < 1 \/ name[1] \notin Separators
      /\ ~S2 => n < 2 \/ name[2] \notin Separators
      /\ ~S3 => n < 3 \/ name[3] \notin Separators
      /\ ~S4 => n < 4 \/ name[4] \notin Separators
  BY <1>1, <1>3
<1>6. /\ n >= 2 => At(name, 2) = name[2]
      /\ n < 2 => At(name, 2) = NUL
      /\ n >= 3 => At(name, 3) = name[3] /\ name[3] # NUL
      /\ n < 3 => At(name, 3) = NUL
  BY <1>1, <1>3
<1> HIDE DEF n, S1, S2, S3, S4
<1>7. TypeOf(name) =
         IF ~S1 THEN IF At(name, 2) = ":" /\ At(name, 3) # NUL
                     THEN IF S3 THEN "DriveAbsolute" ELSE "DriveRelative" ELSE "Relative"
         ELSE IF ~S2 THEN "Unc"
         ELSE IF At(name, 3) = NUL THEN "ShortPrefix"
         ELSE IF At(name, 3) \notin {".", "?"} THEN "UncRoot"
         ELSE IF S4 THEN "Extended" ELSE "ShortPrefix"
  BY DEF TypeOf, S1, S2, S3, S4
<1>8. /\ ~S1 /\ n > 2 /\ name[2] = ":" => OnDrive(name)
      /\ OnDrive(name) => ~S1 /\ n > 2 /\ name[2] = ":"
  BY DEF OnDrive, S1, n
<1>9. n \in Nat /\ NUL # ":"
  BY <1>2, <1>3 DEF n
<1>10. DeviceName(name) => S4 /\ n >= 4
  BY <1>3, <1>5 DEF DeviceName, n
<1>11. S1 /\ S2 /\ S4 /\ name[3] \in {".", "?"} => DeviceName(name)
  BY <1>4 DEF DeviceName, n
<1>12. CASE ~S1
  <2>1. CASE At(name, 2) = ":" /\ At(name, 3) # NUL
    <3>1. n > 2 /\ name[2] = ":"
      BY <1>6, <1>9, <2>1
    <3>2. TypeOf(name) = IF S3 THEN "DriveAbsolute" ELSE "DriveRelative"
      BY <1>7, <1>12, <2>1
    <3> QED  BY <1>5, <1>8, <1>9, <1>12, <3>1, <3>2 DEF n, S3
  <2>2. CASE ~(At(name, 2) = ":" /\ At(name, 3) # NUL)
    <3>1. ~(n > 2 /\ name[2] = ":")
      BY <1>6, <1>9, <2>2
    <3>2. TypeOf(name) = "Relative"
      BY <1>7, <1>12, <2>2
    <3> QED  BY <1>5, <1>8, <1>9, <1>12, <3>1, <3>2 DEF n
  <2> QED  BY <2>1, <2>2
<1>13. CASE S1
  <2>1. TypeOf(name) =
         IF ~S2 THEN "Unc"
         ELSE IF At(name, 3) = NUL THEN "ShortPrefix"
         ELSE IF At(name, 3) \notin {".", "?"} THEN "UncRoot"
         ELSE IF S4 THEN "Extended" ELSE "ShortPrefix"
    BY <1>7, <1>13
  <2>2. ~OnDrive(name)
    BY <1>8, <1>13
  <2>3. CASE ~S2
    BY <1>4, <1>5, <1>9, <1>13, <2>1, <2>2, <2>3 DEF n
  <2>4. CASE S2
    <3>1. CASE At(name, 3) = NUL
      BY <1>4, <1>6, <1>9, <1>10, <1>13, <2>1, <2>2, <2>4, <3>1 DEF n
    <3>2. CASE At(name, 3) # NUL /\ At(name, 3) \notin {".", "?"}
      BY <1>4, <1>6, <1>9, <1>13, <2>1, <2>2, <2>4, <3>2 DEF n
    <3>3. CASE At(name, 3) # NUL /\ At(name, 3) \in {".", "?"}
      <4>1. n >= 3 /\ name[3] \in {".", "?"}
        BY <1>6, <1>9, <3>3
      <4>2. TypeOf(name) = IF S4 THEN "Extended" ELSE "ShortPrefix"
        BY <2>1, <2>4, <3>3
      <4> QED  BY <1>4, <1>10, <1>11, <1>13, <2>2, <2>4, <4>1, <4>2 DEF n
    <3> QED  BY <3>1, <3>2, <3>3
  <2> QED  BY <2>3, <2>4
<1> QED  BY <1>12, <1>13

LEMMA CountedIs ==
  ASSUME SizesFit, NEW name \in Seq(Letters), Len(name) < MaxPathChars
  PROVE  /\ Counted(name).status = "Success" /\ Counted(name).name = name
         /\ Counted(name).length = 2 * Len(Counted(name).name)
         /\ Counted(name).maximum = Counted(name).length + 2
<1> DEFINE n == Len(name)
<1>1. n \in Nat /\ n < MaxPathChars
  OBVIOUS
<1> HIDE DEF n
<1>2. 2 * n \in Nat /\ 2 * n < CountModulus /\ 2 * (n + 1) < CountModulus /\ CountModulus \in Nat
  BY <1>1 DEF SizesFit
<1>3. \A k \in Nat : k < CountModulus => k % CountModulus = k
  BY <1>2
<1>4. (2 * n) % CountModulus = 2 * n /\ (2 * (n + 1)) % CountModulus = 2 * n + 2
  BY <1>1, <1>2, <1>3
<1>5. Counted(name) = [status |-> "Success", name |-> name, length |-> 2 * n, maximum |-> 2 * n + 2]
  BY <1>4 DEF Counted, n
<1> QED  BY <1>5 DEF n

LEMMA JoinedIs ==
  ASSUME SizesFit, NEW p \in Seq(Letters), NEW s \in Seq(Letters)
  PROVE  /\ Len(p) + Len(s) >= MaxPathChars => Joined(p, s).status # "Success"
         /\ Len(p) + Len(s) < MaxPathChars =>
                /\ Joined(p, s).status = "Success" /\ Joined(p, s).name = p \o s
                /\ Joined(p, s).length = 2 * Len(Joined(p, s).name)
                /\ Joined(p, s).maximum = Joined(p, s).length + 2
<1>1. Len(p) + Len(s) >= MaxPathChars => Joined(p, s).status # "Success"
  BY DEF Joined, Fails
<1>2. ASSUME Len(p) + Len(s) < MaxPathChars
      PROVE  /\ Joined(p, s).status = "Success" /\ Joined(p, s).name = p \o s
             /\ Joined(p, s).length = 2 * Len(Joined(p, s).name)
             /\ Joined(p, s).maximum = Joined(p, s).length + 2
  <2> DEFINE y == p \o s
  <2>1. y \in Seq(Letters) /\ Len(y) = Len(p) + Len(s)
    BY Joins
  <2>2. MaxPathChars \in Nat /\ Len(p) \in Nat /\ Len(s) \in Nat
    BY DEF SizesFit
  <2>3. Joined(p, s) = Counted(y)
    BY <1>2, <2>2 DEF Joined
  <2> HIDE DEF y
  <2>4. Len(y) < MaxPathChars
    BY <1>2, <2>1
  <2>5. /\ Counted(y).status = "Success" /\ Counted(y).name = y
        /\ Counted(y).length = 2 * Len(Counted(y).name)
        /\ Counted(y).maximum = Counted(y).length + 2
    BY <2>1, <2>4, CountedIs
  <2> QED  BY <2>3, <2>5 DEF y
<1> QED  BY <1>1, <1>2

(* What follows an element, and what precedes it.                          *)
LEMMA FromIs ==
  ASSUME NEW T, NEW name \in Seq(T), NEW k \in Nat, 1 <= k, k <= Len(name) + 1
  PROVE  /\ From(name, k) \in Seq(T) /\ Len(From(name, k)) = Len(name) - (k - 1)
         /\ \A i \in 1..(Len(name) - (k - 1)) : From(name, k)[i] = name[(k - 1) + i]
<1>1. Len(name) \in Nat
  OBVIOUS
<1>2. From(name, k) = [i \in 1..(Len(name) - (k - 1)) |-> name[(k - 1) + i]]
  <2>1. SubSeq(name, k, Len(name)) = [i \in 1..((1 + Len(name)) - k) |-> name[(k + i) - 1]]
    BY <1>1
  <2>2. (1 + Len(name)) - k = Len(name) - (k - 1)
    BY <1>1
  <2>3. \A i \in 1..(Len(name) - (k - 1)) : (k + i) - 1 = (k - 1) + i
    OBVIOUS
  <2>4. From(name, k) = [i \in 1..(Len(name) - (k - 1)) |-> name[(k + i) - 1]]
    BY <2>1, <2>2, Zenon DEF From
  <2> QED  BY <2>3, <2>4
<1>3. \A i \in 1..(Len(name) - (k - 1)) : name[(k - 1) + i] \in T
  BY <1>1
<1> DEFINE n == Len(name) - (k - 1)
           f == [i \in 1..n |-> name[(k - 1) + i]]
<1>4. n \in Nat
  BY <1>1
<1>5. f \in Seq(T) /\ Len(f) = n /\ \A i \in 1..n : f[i] = name[(k - 1) + i]
  <2>1. \A i \in 1..n : name[(k - 1) + i] \in T
    BY <1>3
  <2> HIDE DEF n
  <2> QED  BY <1>4, <2>1
<1> QED  BY <1>2, <1>5

LEMMA Roots ==
  /\ NtRoot \in Seq(Letters) /\ UncRoot \in Seq(Letters) /\ <<"\\">> \in Seq(Letters)
  /\ Len(NtRoot) = 4 /\ Len(UncRoot) = 6
  /\ NtRoot[Len(NtRoot)] \in Separators /\ UncRoot[Len(UncRoot)] \in Separators
<1>1. {"\\", "?", "UNC"} \subseteq Letters /\ "\\" \in Separators
  BY DEF Letters, Separators
<1>2. NtRoot \in Seq(Letters) /\ Len(NtRoot) = 4 /\ NtRoot[4] = "\\"
  BY <1>1 DEF NtRoot
<1>3. <<"\\">> \in Seq(Letters)
  BY <1>1
<1> DEFINE w == <<"UNC", "\\">>
<1>4. w \in Seq(Letters) /\ Len(w) = 2 /\ w[2] = "\\"
  BY <1>1
<1> HIDE DEF w
<1>5. UncRoot = NtRoot \o w
  BY DEF UncRoot, w
<1>6. NtRoot \o w \in Seq(Letters) /\ Len(NtRoot \o w) = 6 /\ (NtRoot \o w)[6] = "\\"
  <2>1. /\ NtRoot \o w \in Seq(Letters) /\ Len(NtRoot \o w) = Len(NtRoot) + Len(w)
        /\ \A i \in 1..(Len(NtRoot) + Len(w)) :
               (NtRoot \o w)[i] = IF i <= Len(NtRoot) THEN NtRoot[i] ELSE w[i - Len(NtRoot)]
    BY <1>2, <1>4, Joins, Zenon
  <2> DEFINE y == NtRoot \o w
  <2> HIDE DEF y
  <2>2. y \in Seq(Letters) /\ Len(y) = 6 /\ \A i \in 1..6 : y[i] = IF i <= 4 THEN NtRoot[i] ELSE w[i - 4]
    BY <1>2, <1>4, <2>1 DEF y
  <2>3. y[6] = w[2]
    BY <2>2
  <2> QED  BY <1>4, <2>2, <2>3 DEF y
<1> QED  BY <1>1, <1>2, <1>3, <1>5, <1>6

(* Parts joined at a root.                                                 *)
LEMMA PartsJoined ==
  ASSUME NEW S, NEW p \in Seq(S), NEW r \in Seq(S), Len(p) > 0 => p[Len(p)] \in Separators
  PROVE  Parts(p \o r) = Parts(p) \o Parts(r)
<1> DEFINE y == p \o r
<1>1. y \in Seq(S) /\ LiesBehind(y, p, r)
  BY Joins DEF LiesBehind
<1> HIDE DEF y
<1>2. Parts(y) = Parts(p) \o Parts(r)
  BY <1>1, PartsConcat
<1> QED  BY <1>2 DEF y

(***************************************************************************)
(* Where a name leads, as ConvertsAbsoluteNames has it.                    *)
(***************************************************************************)
HasDrive(name) == OnDrive(name) /\ Separates(name, 3)
NtOf(name) == IF HasDrive(name) THEN NtRoot ELSE RootOf(name).nt
RestOf(name) == IF HasDrive(name) THEN name ELSE From(name, Len(RootOf(name).dos) + 1)
Bare(name) == RootOf(name).dos = <<"\\", "\\">> /\ (RestOf(name) = <<>> \/ RestOf(name)[1] \in {".", "?"})
Fits(name) == Len(NtOf(name) \o RestOf(name)) < MaxPathChars /\ Len(name) < MaxPathChars
HasNtName(name) ==
    /\ HasDrive(name) \/ (RootsOf(name) # {} /\ ~Bare(name))
    /\ HasDrive(name) => Legal(RestOf(name))
    /\ ~HasDrive(name) => Legal(RestOf(name)) \/ RootOf(name).dos = <<"\\">>
    /\ Fits(name)
Converted(name, answer) ==
    /\ answer.status = "Success" <=> HasNtName(name)
    /\ answer.status = "Success" => /\ Parts(answer.name) = Parts(NtOf(name)) \o Parts(RestOf(name))
                                    /\ answer.length = 2 * Len(answer.name)
                                    /\ answer.maximum = answer.length + 2

(* A relative name, and one that is a root alone, have no NT name.         *)
LEMMA NoNtName ==
  ASSUME SizesFit, NEW name \in Seq(Symbols \ {NUL}),
         name = <<>> \/ TypeOf(name) \in {"Relative", "DriveRelative", "ShortPrefix"}
  PROVE  ~HasNtName(name)
<1>1. name \in Seq(Letters) /\ Len(name) \in Nat
  <2>1. name \in Seq(Letters)
    BY NameCharacters, Zenon
  <2> QED  BY <2>1
<1>2. CASE Len(name) = 0 \/ TypeOf(name) \in {"Relative", "DriveRelative"}
  <2>1. Len(name) = 0 \/ name[1] \notin Separators
    BY <1>2, TypeSays, Zenon
  <2>2. RootsOf(name) = {}
    BY <1>1, <2>1, TheRoot, Zenon
  <2>3. ~HasDrive(name)
    <3>1. CASE Len(name) = 0
      <4>1. ~(Len(name) > 2)
        BY <1>1, <3>1
      <4> QED  BY <4>1 DEF HasDrive, OnDrive
    <3>2. CASE TypeOf(name) \in {"Relative", "DriveRelative"}
      <4>1. TypeOf(name) # "DriveAbsolute"
        BY <3>2
      <4> QED  BY <4>1, TypeSays, Zenon DEF HasDrive
    <3> QED  BY <1>2, <3>1, <3>2
  <2> QED  BY <2>2, <2>3 DEF HasNtName
<1>3. CASE TypeOf(name) = "ShortPrefix"
  <2>1. /\ ~HasDrive(name) /\ Len(name) >= 2 /\ name[1] \in Separators /\ name[2] \in Separators
        /\ ~DeviceName(name) /\ (Len(name) >= 3 => name[3] \in {".", "?"})
    <3>1. TypeOf(name) # "DriveAbsolute" /\ TypeOf(name) \in {"UncRoot", "Extended", "ShortPrefix"}
          /\ TypeOf(name) \in {"Unc", "UncRoot", "Extended", "ShortPrefix"}
      BY <1>3
    <3> QED  BY <1>3, <3>1, TypeSays, Zenon DEF HasDrive
  <2>2. RootOf(name) = Unc
    BY <1>1, <2>1, TheRoot, Zenon
  <2>3. RootOf(name).dos = <<"\\", "\\">> /\ Len(RootOf(name).dos) = 2
    BY <2>2, RootLengths, Zenon
  <2>4. RestOf(name) = From(name, 3)
    <3>1. RestOf(name) = From(name, Len(RootOf(name).dos) + 1)
      BY <2>1 DEF RestOf
    <3> QED  BY <2>3, <3>1
  <2>5. RestOf(name) = <<>> \/ RestOf(name)[1] \in {".", "?"}
    <3> DEFINE rest == From(name, 3)
    <3>1. /\ rest \in Seq(Letters) /\ Len(rest) = Len(name) - 2
          /\ \A i \in 1..(Len(name) - 2) : rest[i] = name[2 + i]
      BY <1>1, <2>1, FromIs
    <3> HIDE DEF rest
    <3>2. CASE Len(name) = 2
      BY <2>4, <3>1, <3>2 DEF rest
    <3>3. CASE Len(name) >= 3
      <4>1. rest[1] = name[3]
        BY <1>1, <3>1, <3>3
      <4> QED  BY <2>1, <2>4, <3>3, <4>1 DEF rest
    <3>4. Len(name) = 2 \/ Len(name) >= 3
      <4> DEFINE n == Len(name)
      <4>1. n \in Nat /\ n >= 2
        BY <1>1, <2>1
      <4> HIDE DEF n
      <4>2. n = 2 \/ n >= 3
        BY <4>1
      <4> QED  BY <4>2 DEF n
    <3> QED  BY <3>2, <3>3, <3>4
  <2> QED  BY <2>1, <2>3, <2>5 DEF HasNtName, Bare
<1> QED  BY <1>2, <1>3

(* A name on the current drive's root keeps its own separators.            *)
LEMMA UncNames ==
  ASSUME SizesFit, NEW name \in Seq(Symbols \ {NUL}), TypeOf(name) = "Unc", Len(name) < MaxPathChars
  PROVE  Converted(name, Counted(name))
<1>1. name \in Seq(Letters) /\ Len(name) \in Nat
  <2>1. name \in Seq(Letters)
    BY NameCharacters, Zenon
  <2> QED  BY <2>1
<1>2. ~HasDrive(name) /\ Len(name) >= 1 /\ name[1] \in Separators /\ (Len(name) >= 2 => name[2] \notin Separators)
  <2>1. TypeOf(name) # "DriveAbsolute" /\ TypeOf(name) \in {"Unc", "UncRoot", "Extended", "ShortPrefix"}
    OBVIOUS
  <2> QED  BY <2>1, TypeSays, Zenon DEF HasDrive
<1>3. RootOf(name) = Slash /\ Slash \in RootsOf(name)
  BY <1>1, <1>2, TheRoot, Zenon
<1>4. RootOf(name).dos = <<"\\">> /\ RootOf(name).nt = <<"\\">> /\ Len(RootOf(name).dos) = 1
  BY <1>3, RootLengths, Zenon
<1> DEFINE rest == From(name, 2)
           root == <<"\\">>
           first == <<name[1]>>
<1>5. NtOf(name) = root /\ RestOf(name) = rest
  <2>1. RestOf(name) = From(name, Len(RootOf(name).dos) + 1)
    BY <1>2 DEF RestOf
  <2> QED  BY <1>2, <1>4, <2>1 DEF NtOf
<1>6. /\ rest \in Seq(Letters) /\ Len(rest) = Len(name) - 1
      /\ \A i \in 1..(Len(name) - 1) : rest[i] = name[1 + i]
  BY <1>1, <1>2, FromIs
<1>7. /\ root \in Seq(Letters) /\ Len(root) = 1 /\ root[1] \in Separators
      /\ first \in Seq(Letters) /\ Len(first) = 1 /\ first[1] \in Separators /\ first[1] = name[1]
  <2>1. "\\" \in Separators /\ "\\" \in Letters
    BY DEF Separators, Letters
  <2>2. name[1] \in Letters
    BY <1>1, <1>2
  <2> QED  BY <1>2, <2>1, <2>2
<1> HIDE DEF rest, root, first
<1>8. Parts(name) = Parts(first) \o Parts(rest)
  <2>1. LiesBehind(name, first, rest)
    BY <1>1, <1>2, <1>6, <1>7 DEF LiesBehind
  <2> QED  BY <1>1, <1>6, <1>7, <2>1, PartsConcat
<1>9. Parts(first) = <<>> /\ Parts(root) = <<>>
  <2>1. \A i \in 1..1 : i = 1
    OBVIOUS
  <2> QED  BY <1>7, <2>1, PartsOfSeparators
<1>10. Len(root \o rest) = Len(name)
  <2>1. Len(root \o rest) = Len(root) + Len(rest)
    BY <1>6, <1>7, Joins
  <2> QED  BY <1>1, <1>6, <1>7, <2>1
<1>11. HasNtName(name)
  <2>1. Fits(name)
    BY <1>5, <1>10 DEF Fits
  <2>2. ~Bare(name)
    BY <1>4 DEF Bare
  <2> QED  BY <1>2, <1>3, <1>4, <2>1, <2>2 DEF HasNtName
<1>12. /\ Counted(name).status = "Success" /\ Counted(name).name = name
       /\ Counted(name).length = 2 * Len(Counted(name).name)
       /\ Counted(name).maximum = Counted(name).length + 2
  BY <1>1, CountedIs
<1>13. Parts(Counted(name).name) = Parts(NtOf(name)) \o Parts(RestOf(name))
  BY <1>5, <1>8, <1>9, <1>12
<1> QED  BY <1>11, <1>12, <1>13 DEF Converted

(* The prefix and the source lead where the name does.                     *)
LeadsThere(name, p, s) ==
    /\ p \in Seq(Letters) /\ s \in Seq(Letters)
    /\ Len(NtOf(name) \o RestOf(name)) = Len(p) + Len(s)
    /\ Parts(p \o s) = Parts(NtOf(name)) \o Parts(RestOf(name))
    /\ Legal(s) => Legal(RestOf(name))
    /\ Legal(RestOf(name)) => Legal(s)
    /\ HasDrive(name) \/ (RootsOf(name) # {} /\ ~Bare(name))
    /\ HasDrive(name) \/ RootOf(name).dos # <<"\\">>

LEMMA JoinedLeads ==
  ASSUME SizesFit, NEW name \in Seq(Symbols \ {NUL}), Len(name) < MaxPathChars,
         NEW p, NEW s, LeadsThere(name, p, s)
  PROVE  /\ ~Legal(s) => ~HasNtName(name)
         /\ Legal(s) => Converted(name, Joined(p, s))
<1>1. ASSUME ~Legal(s) PROVE ~HasNtName(name)
  BY <1>1, Zenon DEF LeadsThere, HasNtName
<1>2. ASSUME Legal(s) PROVE Converted(name, Joined(p, s))
  <2>1. /\ HasDrive(name) \/ (RootsOf(name) # {} /\ ~Bare(name))
        /\ HasDrive(name) => Legal(RestOf(name))
        /\ ~HasDrive(name) => Legal(RestOf(name)) \/ RootOf(name).dos = <<"\\">>
    BY <1>2, Zenon DEF LeadsThere
  <2> DEFINE n == Len(p) + Len(s)
  <2>2. p \in Seq(Letters) /\ s \in Seq(Letters) /\ Len(NtOf(name) \o RestOf(name)) = n
        /\ Parts(p \o s) = Parts(NtOf(name)) \o Parts(RestOf(name))
    BY DEF LeadsThere
  <2>3. n \in Nat /\ MaxPathChars \in Nat
    BY <2>2 DEF SizesFit
  <2>4. /\ n >= MaxPathChars => Joined(p, s).status # "Success"
        /\ n < MaxPathChars =>
                /\ Joined(p, s).status = "Success" /\ Joined(p, s).name = p \o s
                /\ Joined(p, s).length = 2 * Len(Joined(p, s).name)
                /\ Joined(p, s).maximum = Joined(p, s).length + 2
    BY <2>2, JoinedIs
  <2> HIDE DEF n
  <2>5. n >= MaxPathChars \/ n < MaxPathChars
    BY <2>3
  <2>6. CASE n >= MaxPathChars
    <3>1. ~(n < MaxPathChars)
      BY <2>3, <2>6
    <3>2. ~Fits(name)
      BY <2>2, <3>1 DEF Fits
    <3>3. ~HasNtName(name)
      BY <3>2 DEF HasNtName
    <3> QED  BY <2>4, <2>6, <3>3, Zenon DEF Converted
  <2>7. CASE n < MaxPathChars
    <3>1. Fits(name)
      BY <2>2, <2>7 DEF Fits
    <3>2. HasNtName(name)
      BY <2>1, <3>1, Zenon DEF HasNtName
    <3>3. Parts(Joined(p, s).name) = Parts(NtOf(name)) \o Parts(RestOf(name))
      BY <2>2, <2>4, <2>7, Zenon
    <3> QED  BY <2>4, <2>7, <3>2, <3>3, Zenon DEF Converted
  <2> QED  BY <2>5, <2>6, <2>7
<1> QED  BY <1>1, <1>2

LEMMA SameLeads ==
  ASSUME SizesFit, NEW name, NEW p \in Seq(Letters), NEW s \in Seq(Letters),
         NtOf(name) = p, RestOf(name) = s, Len(p) > 0 => p[Len(p)] \in Separators,
         HasDrive(name) \/ (RootsOf(name) # {} /\ ~Bare(name)),
         HasDrive(name) \/ RootOf(name).dos # <<"\\">>
  PROVE  LeadsThere(name, p, s)
<1>1. Parts(p \o s) = Parts(p) \o Parts(s)
  BY PartsJoined
<1>2. Len(p \o s) = Len(p) + Len(s)
  BY Joins
<1> QED  BY <1>1, <1>2, Zenon DEF LeadsThere

LEMMA ExtendedNames ==
  ASSUME SizesFit, NEW name \in Seq(Symbols \ {NUL}), TypeOf(name) = "Extended"
  PROVE  LeadsThere(name, NtParts(name)[1], NtParts(name)[2])
<1>1. name \in Seq(Letters) /\ Len(name) \in Nat
  <2>1. name \in Seq(Letters)
    BY NameCharacters, Zenon
  <2> QED  BY <2>1
<1>2. ~HasDrive(name) /\ DeviceName(name)
  <2>1. TypeOf(name) # "DriveAbsolute"
    OBVIOUS
  <2> QED  BY <2>1, TypeSays, Zenon DEF HasDrive
<1>3. Len(name) >= 4 /\ name[3] \in {".", "?"}
  BY <1>2 DEF DeviceName
<1> DEFINE Word(w) == At(name, 5) = w /\ Separates(name, 6)
<1>4. At(name, 3) = name[3]
  BY <1>1, <1>3 DEF At
<1>5. ASSUME NEW w, w # NUL
      PROVE  /\ Word(w) => WordedName(name, w)
             /\ WordedName(name, w) => Word(w)
  <2>1. ASSUME Word(w) PROVE WordedName(name, w)
    <3>1. Len(name) >= 6 /\ name[6] \in Separators
      BY <2>1, NameCharacters
    <3>2. At(name, 5) = name[5]
      BY <1>1, <3>1 DEF At
    <3> QED  BY <2>1, <3>1, <3>2 DEF WordedName
  <2>2. ASSUME WordedName(name, w) PROVE Word(w)
    <3>1. Len(name) >= 6 /\ name[6] \in Separators /\ name[5] = w
      BY <2>2 DEF WordedName
    <3>2. At(name, 5) = name[5] /\ At(name, 6) = name[6]
      BY <1>1, <3>1 DEF At
    <3> QED  BY <3>1, <3>2 DEF Separates
  <2> QED  BY <2>1, <2>2
<1>6. "UNC" # NUL /\ "GLOBALROOT" # NUL
  BY DEF NUL
<1>7. NtParts(name) =
            IF Word("UNC") THEN <<UncRoot, From(name, 7)>>
            ELSE IF name[3] = "." /\ Word("GLOBALROOT")
            THEN <<<<"\\">>, From(name, 6)>>
            ELSE <<NtRoot, From(name, 5)>>
  <2>1. TypeOf(name) # "UncRoot" /\ TypeOf(name) # "DriveAbsolute"
    OBVIOUS
  <2> QED  BY <1>4, <2>1 DEF NtParts
<1> HIDE DEF Word
<1>8. CASE Word("UNC")
  <2>1. WordedName(name, "UNC") /\ Len(name) >= 6
    <3>1. WordedName(name, "UNC")
      BY <1>5, <1>6, <1>8
    <3> QED  BY <3>1 DEF WordedName
  <2>2. RootOf(name) = DeviceUnc(name[3]) /\ RootsOf(name) # {}
    <3>1. RootOf(name) = DeviceUnc(name[3]) /\ DeviceUnc(name[3]) \in RootsOf(name)
      BY <1>1, <1>2, <2>1, TheRoot, Zenon
    <3> QED  BY <3>1
  <2>3. RootOf(name).nt = UncRoot /\ Len(RootOf(name).dos) = 6
    BY <2>2, RootLengths, Zenon
  <2>4. RootOf(name).dos # <<"\\", "\\">> /\ RootOf(name).dos # <<"\\">>
    <3>1. Len(<<"\\", "\\">>) = 2 /\ Len(<<"\\">>) = 1
      OBVIOUS
    <3>2. 6 # 2 /\ 6 # 1
      OBVIOUS
    <3> QED  BY <2>3, <3>1, <3>2, Zenon
  <2>5. NtOf(name) = UncRoot /\ RestOf(name) = From(name, 7)
    <3>1. 6 + 1 = 7
      OBVIOUS
    <3> QED  BY <1>2, <2>3, <3>1, Zenon DEF NtOf, RestOf
  <2>6. From(name, 7) \in Seq(Letters)
    BY <1>1, <2>1, FromIs
  <2>7. LeadsThere(name, UncRoot, From(name, 7))
    <3>1. ~Bare(name)
      BY <2>4 DEF Bare
    <3> QED  BY <2>2, <2>4, <2>5, <2>6, <3>1, Roots, SameLeads, Zenon
  <2>8. NtParts(name)[1] = UncRoot /\ NtParts(name)[2] = From(name, 7)
    BY <1>7, <1>8
  <2> QED  BY <2>7, <2>8, Zenon
<1>9. CASE ~Word("UNC") /\ name[3] = "." /\ Word("GLOBALROOT")
  <2>1. WordedName(name, "GLOBALROOT") /\ Len(name) >= 6 /\ name[6] \in Separators
    <3>1. WordedName(name, "GLOBALROOT")
      BY <1>5, <1>6, <1>9
    <3> QED  BY <3>1 DEF WordedName
  <2>2. RootOf(name) = Global /\ RootsOf(name) # {}
    <3>1. RootOf(name) = Global /\ Global \in RootsOf(name)
      BY <1>1, <1>2, <1>9, <2>1, TheRoot, Zenon
    <3> QED  BY <3>1
  <2> DEFINE p == <<"\\">>
             s == From(name, 6)
             nt == <<"\\", "\\">>
             rest == From(name, 7)
             front == <<"\\", name[6]>>
  <2>3. RootOf(name).nt = nt /\ Len(RootOf(name).dos) = 6
    BY <2>2, RootLengths, Zenon
  <2>4. RootOf(name).dos # <<"\\", "\\">> /\ RootOf(name).dos # <<"\\">>
    <3>1. Len(<<"\\", "\\">>) = 2 /\ Len(<<"\\">>) = 1
      OBVIOUS
    <3>2. 6 # 2 /\ 6 # 1
      OBVIOUS
    <3> QED  BY <2>3, <3>1, <3>2, Zenon
  <2>5. NtOf(name) = nt /\ RestOf(name) = rest
    <3>1. 6 + 1 = 7
      OBVIOUS
    <3> QED  BY <1>2, <2>3, <3>1, Zenon DEF NtOf, RestOf
  <2>6. /\ s \in Seq(Letters) /\ Len(s) = Len(name) - 5
        /\ \A i \in 1..(Len(name) - 5) : s[i] = name[5 + i]
        /\ rest \in Seq(Letters) /\ Len(rest) = Len(name) - 6
        /\ \A i \in 1..(Len(name) - 6) : rest[i] = name[6 + i]
    <3>1. /\ s \in Seq(Letters) /\ Len(s) = Len(name) - 5
          /\ \A i \in 1..(Len(name) - 5) : s[i] = name[5 + i]
      BY <1>1, <2>1, FromIs
    <3>2. /\ rest \in Seq(Letters) /\ Len(rest) = Len(name) - 6
          /\ \A i \in 1..(Len(name) - 6) : rest[i] = name[6 + i]
      BY <1>1, <2>1, FromIs
    <3> HIDE DEF s, rest
    <3> QED  BY <3>1, <3>2
  <2>7. /\ p \in Seq(Letters) /\ nt \in Seq(Letters) /\ front \in Seq(Letters)
        /\ Len(p) = 1 /\ Len(nt) = 2 /\ Len(front) = 2
        /\ p[1] = "\\" /\ nt[1] = "\\" /\ nt[2] = "\\" /\ front[1] = "\\" /\ front[2] = name[6]
    <3>1. "\\" \in Letters
      BY DEF Separators, Letters
    <3>2. name[6] \in Letters
      BY <1>1, <2>1
    <3> QED  BY <3>1, <3>2
  <2>8. "\\" \in Separators /\ name[6] \in Separators
    BY <2>1 DEF Separators
  <2> HIDE DEF p, s, nt, rest, front
  <2>9. Parts(nt) = <<>> /\ Parts(front) = <<>>
    <3>1. \A i \in 1..2 : i = 1 \/ i = 2
      OBVIOUS
    <3> QED  BY <2>7, <2>8, <3>1, PartsOfSeparators
  <2>10. Parts(p \o s) = Parts(front) \o Parts(rest)
    <3> DEFINE y == p \o s
    <3>1. /\ y \in Seq(Letters) /\ Len(y) = Len(p) + Len(s)
          /\ \A i \in 1..(Len(p) + Len(s)) : y[i] = IF i <= Len(p) THEN p[i] ELSE s[i - Len(p)]
      BY <2>6, <2>7, Joins, ZenonT(60)
    <3> HIDE DEF y
    <3>2. LiesBehind(y, front, rest)
      <4> DEFINE n == Len(name)
      <4>1. n \in Nat /\ n >= 6 /\ Len(y) = 1 + (n - 5) /\ Len(y) = n - 4
            /\ Len(front) + Len(rest) = n - 4
        BY <1>1, <2>1, <2>6, <2>7, <3>1
      <4>2. \A i \in 1..(n - 4) : y[i] = IF i <= 1 THEN p[i] ELSE s[i - 1]
        BY <2>6, <2>7, <3>1, <4>1
      <4>3. \A i \in 1..(n - 5) : s[i] = name[5 + i]
        BY <2>6
      <4>4. \A i \in 1..(n - 6) : rest[i] = name[6 + i]
        BY <2>6
      <4> HIDE DEF n
      <4>5. ASSUME NEW i \in 1..(n - 4) PROVE y[i] = IF i <= 2 THEN front[i] ELSE rest[i - 2]
        <5>1. CASE i = 1
          BY <2>7, <4>1, <4>2, <5>1, SMTT(40)
        <5>2. CASE i = 2
          <6>1. y[2] = s[1]
            BY <4>1, <4>2
          <6>2. s[1] = name[6]
            BY <4>1, <4>3
          <6> QED  BY <2>7, <5>2, <6>1, <6>2
        <5>3. CASE i > 2
          <6>1. y[i] = s[i - 1] /\ i - 1 \in 1..(n - 5) /\ i - 2 \in 1..(n - 6)
            BY <4>1, <4>2, <5>3
          <6>2. s[i - 1] = name[5 + (i - 1)] /\ rest[i - 2] = name[6 + (i - 2)]
            BY <4>3, <4>4, <6>1
          <6>3. 5 + (i - 1) = 6 + (i - 2) /\ ~(i <= 2)
            BY <4>1, <5>3
          <6> QED  BY <6>1, <6>2, <6>3
        <5> QED  BY <4>1, <5>1, <5>2, <5>3
      <4>6. Len(front) = 2
        BY <2>7
      <4> QED  BY <4>1, <4>5, <4>6 DEF LiesBehind
    <3>3. Parts(y) = Parts(front) \o Parts(rest)
      <4>1. rest \in Seq(Letters) /\ y \in Seq(Letters) /\ front \in Seq(Letters)
            /\ front[Len(front)] \in Separators
        BY <2>6, <2>7, <2>8, <3>1
      <4> QED  BY <3>2, <4>1, PartsConcat, Zenon
    <3> QED  BY <3>3 DEF y
  <2>11. Len(nt \o rest) = Len(p) + Len(s)
    <3>1. Len(nt \o rest) = Len(nt) + Len(rest)
      BY <2>6, <2>7, Joins, ZenonT(60)
    <3> QED  BY <1>1, <2>6, <2>7, <3>1
  <2>12. (Legal(s) => Legal(rest)) /\ (Legal(rest) => Legal(s))
    <3> DEFINE n == Len(name)
    <3>1. /\ DOMAIN s = 1..(n - 5) /\ DOMAIN rest = 1..(n - 6) /\ n \in Nat /\ n >= 6
          /\ \A i \in 1..(n - 5) : s[i] = name[5 + i]
          /\ \A i \in 1..(n - 6) : rest[i] = name[6 + i]
      <4>1. n \in Nat /\ n >= 6 /\ Len(s) = n - 5 /\ Len(rest) = n - 6
        BY <1>1, <2>1, <2>6
      <4>2. DOMAIN s = 1..Len(s) /\ DOMAIN rest = 1..Len(rest)
        BY <2>6
      <4>3. /\ \A i \in 1..(n - 5) : s[i] = name[5 + i]
            /\ \A i \in 1..(n - 6) : rest[i] = name[6 + i]
        BY <2>6
      <4> HIDE DEF n
      <4> QED  BY <4>1, <4>2, <4>3
    <3>2. name[6] \notin {"?", "*"}
      BY <2>8 DEF Separators
    <3> HIDE DEF n
    <3>3. ASSUME Legal(s), NEW i \in 1..(n - 6) PROVE rest[i] \notin {"?", "*"}
      <4>1. i + 1 \in 1..(n - 5) /\ 5 + (i + 1) = 6 + i
        BY <3>1
      <4>2. s[i + 1] = rest[i]
        BY <3>1, <4>1
      <4> QED  BY <3>1, <3>3, <4>1, <4>2 DEF Legal
    <3>4. ASSUME Legal(rest), NEW i \in 1..(n - 5) PROVE s[i] \notin {"?", "*"}
      <4>1. CASE i = 1
        BY <3>1, <3>2, <4>1
      <4>2. CASE i # 1
        <5>1. i - 1 \in 1..(n - 6) /\ 6 + (i - 1) = 5 + i
          BY <3>1, <4>2
        <5>2. rest[i - 1] = s[i]
          BY <3>1, <5>1
        <5> QED  BY <3>1, <3>4, <5>1, <5>2 DEF Legal
      <4> QED  BY <4>1, <4>2
    <3> QED  BY <3>1, <3>3, <3>4 DEF Legal
  <2>13. LeadsThere(name, p, s)
    <3>1. ~Bare(name)
      BY <2>4 DEF Bare
    <3>2. Parts(nt) \o Parts(rest) = Parts(p \o s)
      BY <2>9, <2>10
    <3> QED  BY <2>2, <2>4, <2>5, <2>6, <2>7, <2>11, <2>12, <3>1, <3>2, Zenon DEF LeadsThere
  <2>14. NtParts(name)[1] = p /\ NtParts(name)[2] = s
    BY <1>7, <1>9 DEF p, s
  <2> QED  BY <2>13, <2>14, Zenon
<1>10. CASE ~Word("UNC") /\ ~(name[3] = "." /\ Word("GLOBALROOT"))
  <2>1. ~WordedName(name, "UNC") /\ ~(name[3] = "." /\ WordedName(name, "GLOBALROOT"))
    BY <1>5, <1>6, <1>10
  <2>2. RootOf(name) = Device(name[3]) /\ RootsOf(name) # {}
    <3>1. RootOf(name) = Device(name[3]) /\ Device(name[3]) \in RootsOf(name)
      BY <1>1, <1>2, <2>1, TheRoot, Zenon
    <3> QED  BY <3>1
  <2>3. RootOf(name).nt = NtRoot /\ Len(RootOf(name).dos) = 4
    BY <2>2, RootLengths, Zenon
  <2>4. RootOf(name).dos # <<"\\", "\\">> /\ RootOf(name).dos # <<"\\">>
    <3>1. Len(<<"\\", "\\">>) = 2 /\ Len(<<"\\">>) = 1
      OBVIOUS
    <3>2. 4 # 2 /\ 4 # 1
      OBVIOUS
    <3> QED  BY <2>3, <3>1, <3>2, Zenon
  <2>5. NtOf(name) = NtRoot /\ RestOf(name) = From(name, 5)
    <3>1. 4 + 1 = 5
      OBVIOUS
    <3> QED  BY <1>2, <2>3, <3>1, Zenon DEF NtOf, RestOf
  <2>6. From(name, 5) \in Seq(Letters)
    BY <1>1, <1>3, FromIs
  <2>7. LeadsThere(name, NtRoot, From(name, 5))
    <3>1. ~Bare(name)
      BY <2>4 DEF Bare
    <3> QED  BY <2>2, <2>4, <2>5, <2>6, <3>1, Roots, SameLeads, Zenon
  <2>8. NtParts(name)[1] = NtRoot /\ NtParts(name)[2] = From(name, 5)
    <3>1. NtParts(name) = <<NtRoot, From(name, 5)>>
      BY <1>7, <1>10, Zenon
    <3> QED  BY <3>1
  <2> QED  BY <2>7, <2>8, Zenon
<1> QED  BY <1>8, <1>9, <1>10

LEMMA RootedNames ==
  ASSUME SizesFit, NEW name \in Seq(Symbols \ {NUL}),
         TypeOf(name) \in {"DriveAbsolute", "UncRoot", "Extended"}
  PROVE  LeadsThere(name, NtParts(name)[1], NtParts(name)[2])
<1>1. name \in Seq(Letters) /\ Len(name) \in Nat
  <2>1. name \in Seq(Letters)
    BY NameCharacters, Zenon
  <2> QED  BY <2>1
<1>2. CASE TypeOf(name) = "DriveAbsolute"
  <2>1. HasDrive(name)
    BY <1>2, TypeSays, Zenon DEF HasDrive
  <2>2. NtOf(name) = NtRoot /\ RestOf(name) = name
    BY <2>1 DEF NtOf, RestOf
  <2>3. NtParts(name)[1] = NtRoot /\ NtParts(name)[2] = name
    BY <1>2 DEF NtParts
  <2>4. LeadsThere(name, NtRoot, name)
    BY <1>1, <2>1, <2>2, Roots, SameLeads, Zenon
  <2> QED  BY <2>3, <2>4, Zenon
<1>3. CASE TypeOf(name) = "UncRoot"
  <2>1. /\ ~HasDrive(name) /\ Len(name) >= 3 /\ name[1] \in Separators /\ name[2] \in Separators
        /\ name[3] \notin {".", "?"}
    <3>1. TypeOf(name) # "DriveAbsolute" /\ TypeOf(name) \in {"UncRoot", "Extended", "ShortPrefix"}
          /\ TypeOf(name) \in {"Unc", "UncRoot", "Extended", "ShortPrefix"}
      BY <1>3
    <3> QED  BY <1>3, <3>1, TypeSays, Zenon DEF HasDrive
  <2>2. RootOf(name) = Unc /\ Unc \in RootsOf(name)
    <3>1. ~DeviceName(name)
      BY <2>1 DEF DeviceName
    <3>2. Len(name) >= 2
      BY <1>1, <2>1
    <3> QED  BY <1>1, <2>1, <3>1, <3>2, TheRoot, Zenon
  <2>3. RootOf(name).nt = UncRoot /\ Len(RootOf(name).dos) = 2 /\ RootOf(name).dos = <<"\\", "\\">>
    BY <2>2, RootLengths, Zenon
  <2>4. NtOf(name) = UncRoot /\ RestOf(name) = From(name, 3)
    <3>1. 2 + 1 = 3
      OBVIOUS
    <3> QED  BY <2>1, <2>3, <3>1, Zenon DEF NtOf, RestOf
  <2> DEFINE rest == From(name, 3)
  <2>5. /\ rest \in Seq(Letters) /\ Len(rest) = Len(name) - 2
        /\ \A i \in 1..(Len(name) - 2) : rest[i] = name[2 + i]
    BY <1>1, <2>1, FromIs
  <2>6. NtParts(name)[1] = UncRoot /\ NtParts(name)[2] = rest
    BY <1>3 DEF NtParts
  <2> HIDE DEF rest
  <2>7. ~Bare(name)
    <3>1. rest[1] = name[3] /\ rest # <<>>
      BY <1>1, <2>1, <2>5
    <3> QED  BY <2>1, <2>4, <3>1 DEF Bare, rest
  <2>8. RootOf(name).dos # <<"\\">>
    <3>1. Len(<<"\\">>) = 1 /\ 1 # 2
      OBVIOUS
    <3> QED  BY <2>3, <3>1, Zenon
  <2>9. RootsOf(name) # {}
    BY <2>2
  <2>10. NtOf(name) = UncRoot /\ RestOf(name) = rest
    BY <2>4 DEF rest
  <2>11. LeadsThere(name, UncRoot, rest)
    BY <2>5, <2>7, <2>8, <2>9, <2>10, Roots, SameLeads, Zenon
  <2> QED  BY <2>6, <2>11, Zenon
<1>4. CASE TypeOf(name) = "Extended"
  BY <1>4, ExtendedNames, Zenon
<1> QED  BY <1>2, <1>3, <1>4

LEMMA NtNamesConvert ==
  ASSUME SizesFit, NEW name \in Seq(Symbols \ {NUL}), NEW answer \in NtNames(name),
         answer.status # "InsufficientResources"
  PROVE  Converted(name, answer)
<1> DEFINE some == Fails("InsufficientResources")
           p == NtParts(name)[1]
           s == NtParts(name)[2]
<1>1. some.status = "InsufficientResources"
  BY DEF Fails
<1>2. ASSUME answer.status # "Success", ~HasNtName(name) PROVE Converted(name, answer)
  BY <1>2, Zenon DEF Converted
<1>3. CASE name = <<>> \/ (name # <<>> /\ ~(Len(name) >= MaxPathChars)
                           /\ TypeOf(name) \in {"Relative", "DriveRelative", "ShortPrefix"})
  <2>1. answer = Fails("PathSyntaxBad")
    BY <1>3 DEF NtNames
  <2>2. answer.status # "Success"
    BY <2>1 DEF Fails
  <2>3. ~HasNtName(name)
    BY <1>3, NoNtName, Zenon
  <2> QED  BY <1>2, <2>2, <2>3
<1>4. CASE name # <<>> /\ Len(name) >= MaxPathChars
  <2>1. answer = Fails("NameTooLong")
    BY <1>4 DEF NtNames
  <2>2. answer.status # "Success"
    BY <2>1 DEF Fails
  <2>3. ~(Len(name) < MaxPathChars)
    <3> DEFINE n == Len(name)
    <3>1. n \in Nat /\ MaxPathChars \in Nat /\ n >= MaxPathChars
      BY <1>4 DEF SizesFit
    <3> HIDE DEF n
    <3>2. ~(n < MaxPathChars)
      BY <3>1
    <3> QED  BY <3>2 DEF n
  <2> QED  BY <1>2, <2>2, <2>3, Zenon DEF HasNtName, Fits
<1>5. Len(name) < MaxPathChars \/ Len(name) >= MaxPathChars
  <2> DEFINE n == Len(name)
  <2>1. n \in Nat /\ MaxPathChars \in Nat
    BY DEF SizesFit
  <2> HIDE DEF n
  <2>2. n < MaxPathChars \/ n >= MaxPathChars
    BY <2>1
  <2> QED  BY <2>2 DEF n
<1>6. CASE name # <<>> /\ ~(Len(name) >= MaxPathChars) /\ TypeOf(name) = "Unc"
  <2>1. answer = Counted(name)
    BY <1>1, <1>6 DEF NtNames
  <2> QED  BY <1>5, <1>6, <2>1, UncNames, Zenon
<1>7. CASE name # <<>> /\ ~(Len(name) >= MaxPathChars)
               /\ TypeOf(name) \in {"DriveAbsolute", "UncRoot", "Extended"}
  <2>1. LeadsThere(name, p, s)
    BY <1>7, RootedNames, Zenon
  <2>2. /\ ~Legal(s) => answer = Fails("NameInvalid")
        /\ Legal(s) => answer = Joined(p, s)
    <3>1. NtNames(name) = IF ~Legal(s) THEN {Fails("NameInvalid")} ELSE {Joined(p, s), some}
      <4>1. TypeOf(name) \notin {"Relative", "DriveRelative", "ShortPrefix"} /\ TypeOf(name) # "Unc"
        BY <1>7
      <4> HIDE DEF some
      <4> QED  BY <1>7, <4>1, Zenon DEF NtNames, some
    <3> HIDE DEF some, p, s
    <3> QED  BY <1>1, <3>1
  <2>3. Fails("NameInvalid").status # "Success"
    BY DEF Fails
  <2>4. /\ ~Legal(s) => ~HasNtName(name)
        /\ Legal(s) => Converted(name, Joined(p, s))
    BY <1>5, <1>7, <2>1, JoinedLeads, Zenon
  <2> HIDE DEF p, s
  <2> QED  BY <1>2, <2>2, <2>3, <2>4, Zenon
<1>8. TypeOf(name) \in {"DriveAbsolute", "DriveRelative", "Relative", "Unc", "ShortPrefix", "UncRoot", "Extended"}
  BY TypeSays, Zenon
<1> QED  BY <1>3, <1>4, <1>5, <1>6, <1>7, <1>8

(* An answer is one that the name has.                                     *)
NtOK == Answered("Nt") => call.name \in Names /\ call.answer \in NtNames(call.name)

LEMMA NextNt == NtOK /\ [Next]_vars => NtOK'
<1> SUFFICES ASSUME NtOK, [Next]_vars PROVE NtOK'
  OBVIOUS
<1>1. ASSUME UNCHANGED call PROVE NtOK'
  BY <1>1 DEF NtOK, Answered
<1>2. ASSUME call'.at \in {"Copy", "Count", "None"} \/ call'.op \in {"Full", "Current", "Match"} PROVE NtOK'
  BY <1>2 DEF NtOK, Answered
<1>3. ASSUME NEW name \in Names, ToNtName(name) PROVE NtOK'
  <2>1. PICK answer \in NtNames(name) : Answers("Nt", name, answer)
    BY <1>3 DEF ToNtName
  <2>2. call'.name = name /\ call'.answer = answer
    BY <2>1 DEF Answers
  <2> QED  BY <2>2 DEF NtOK
<1>4. ASSUME NEW name, NEW capacity, NEW answer, FullAnswer(name, capacity, answer) PROVE NtOK'
  BY <1>2, <1>4 DEF FullAnswer
<1>5. ASSUME NEW name \in Names, NEW capacity \in Capacities, GetFullPathName(name, capacity) PROVE NtOK'
  <2>1. \/ call'.at = "Copy"
        \/ \E answer : FullAnswer(name, capacity, answer)
    BY <1>5 DEF GetFullPathName
  <2> QED  BY <1>2, <1>4, <2>1
<1>6. CASE CopyDirectory
  BY <1>4, <1>6 DEF CopyDirectory
<1>7. ASSUME NEW capacity \in Capacities, GetCurrentDirectory(capacity) PROVE NtOK'
  <2>1. call'.op = "Current"
    BY <1>7 DEF GetCurrentDirectory
  <2> QED  BY <1>2, <2>1
<1>8. CASE CountDirectory
  BY <1>2, <1>8 DEF CountDirectory
<1>9. ASSUME NEW pattern \in Patterns, NEW name \in FileNames, MatchName(pattern, name) PROVE NtOK'
  BY <1>2, <1>9 DEF MatchName
<1>10. CASE Return
  BY <1>2, <1>10 DEF Return, NoCall
<1>11. ASSUME NEW name \in Directories, SetCurrentDirectory(name) PROVE NtOK'
  BY <1>1, <1>11 DEF SetCurrentDirectory
<1>12. CASE WriteCharacter
  BY <1>1, <1>12 DEF WriteCharacter
<1>13. CASE UNCHANGED vars
  BY <1>1, <1>13 DEF vars
<1> QED  BY <1>3, <1>5, <1>6, <1>7, <1>8, <1>9, <1>10, <1>11, <1>12, <1>13 DEF Next

(* RtlDosPathNameToNtPathName_U_WithStatus finds an NT name exactly if the *)
(* DOS name starts at a drive or at a root, is legal and fits, and then    *)
(* the NT name has the parts of that root and of the rest, and the 16-bit  *)
(* counts of its characters.                                               *)
THEOREM AbsoluteNamesConvert == ASSUME SizesFit PROVE Spec => []ConvertsAbsoluteNames
<1>1. Init => NtOK
  BY DEF Init, NoCall, NtOK, Answered
<1>2. NtOK => ConvertsAbsoluteNames
  <2> SUFFICES ASSUME NtOK, Answered("Nt"), call.answer.status # "InsufficientResources"
               PROVE  Converted(call.name, call.answer)
    BY Zenon DEF ConvertsAbsoluteNames, Converted, HasNtName, Fits, Bare, RestOf, NtOf, HasDrive
  <2>1. call.name \in Seq(Symbols \ {NUL})
    BY Strings DEF NtOK
  <2> QED  BY <2>1, NtNamesConvert DEF NtOK
<1> QED  BY NextNt, <1>1, <1>2, PTL DEF Spec

(* A separator at the end ends the last part and adds none.                *)
LEMMA PartsThenSeparator ==
  ASSUME NEW S, NEW p \in Seq(S), NEW c \in S, c \in Separators
  PROVE  Parts(Append(p, c)) = Parts(p)
<1> DEFINE y == Append(p, c)
           m == Len(p)
<1>1. /\ m \in Nat /\ y \in Seq(S) /\ Len(y) = m + 1 /\ y[m + 1] = c
      /\ \A i \in 1..m : y[i] = p[i]
  OBVIOUS
<1> HIDE DEF y
<1>2. PICK q : Gathers(q, y) /\ Parts(y) = q[m + 1].all
  BY <1>1, PartsGathered
<1>3. PICK qp : Gathers(qp, p) /\ Parts(p) = qp[m].all
  BY PartsGathered
<1>4. PartsOK(q[m], S)
  <2>1. \A i \in 0..(m + 1) : PartsOK(q[i], S)
    BY <1>1, <1>2, GathersParts
  <2>2. m \in 0..(m + 1)
    BY <1>1
  <2> QED  BY <2>1, <2>2
<1>5. /\ q[0] = qp[0]
      /\ \A i \in 1..(m + 1) : q[i] = NextParts(q[i - 1], y[i])
      /\ \A i \in 1..m : qp[i] = NextParts(qp[i - 1], p[i])
  BY <1>1, <1>2, <1>3 DEF Gathers
<1> HIDE DEF m
<1>6. q[m] = qp[m]
  <2> DEFINE Good == {i \in 0..m : q[i] = qp[i]}
  <2>1. 0 \in Good
    BY <1>1, <1>5
  <2>2. \A i \in 1..m : i - 1 \in Good => i \in Good
    BY <1>1, <1>5
  <2>3. \A i \in 0..m : i \in Good
    <3> HIDE DEF Good
    <3> QED  BY <1>1, <2>1, <2>2, Climbs
  <2>4. m \in 0..m
    BY <1>1
  <2> QED  BY <2>3, <2>4
<1>7. q[m + 1] = NextParts(q[m], c)
  <2>1. m + 1 \in 1..(m + 1) /\ (m + 1) - 1 = m
    BY <1>1
  <2> QED  BY <1>1, <1>5, <2>1
<1>8. NextParts(q[m], c).all = q[m].all
  <2> DEFINE parts == q[m]
  <2>1. PartsOK(parts, S)
    BY <1>4
  <2> HIDE DEF parts
  <2>2. NextParts(parts, c).all = parts.all /\ ~NextParts(parts, c).open
    <3>1. c \in S /\ c \in Separators
      OBVIOUS
    <3> QED  BY <2>1, <3>1, NextFields, Zenon
  <2> QED  BY <2>2 DEF parts
<1> QED  BY <1>2, <1>3, <1>6, <1>7, <1>8 DEF y

(***************************************************************************)
(* The file part of a name.                                                *)
(***************************************************************************)
LEMMA FilePartIs ==
  ASSUME NEW S, NEW text \in Seq(S)
  PROVE  \E i \in 0..Len(text) :
             /\ FilePart(text) = 1 + i
             /\ i > 0 => text[i] \in Separators
             /\ \A j \in (i + 1)..Len(text) : text[j] \notin Separators
<1> DEFINE n == Len(text)
           Ends == {i \in 1..n : text[i] \in Separators}
           Begins1(i) == /\ i > 0 => text[i] \in Separators
                         /\ \A j \in (i + 1)..n : text[j] \notin Separators
<1>1. n \in Nat
  OBVIOUS
<1> HIDE DEF n
<1>2. \E i \in 0..n : Begins1(i)
  <2>1. CASE Ends = {}
    <3>1. 0 \in 0..n
      BY <1>1
    <3>2. \A j \in (0 + 1)..n : text[j] \notin Separators
      BY <1>1, <2>1
    <3> QED  BY <3>1, <3>2
  <2>2. CASE Ends # {}
    <3>1. Ends \in SUBSET (1..n)
      OBVIOUS
    <3> DEFINE i == Max(Ends)
    <3>2. i \in Ends /\ \A y \in Ends : y <= i
      <4> HIDE DEF Ends
      <4> QED  BY <1>1, <2>2, <3>1, LargestOf
    <3> HIDE DEF i
    <3>3. i \in 1..n /\ text[i] \in Separators
      BY <3>2
    <3>4. ASSUME NEW j \in (i + 1)..n PROVE text[j] \notin Separators
      <4>1. j \in 1..n /\ ~(j <= i)
        BY <1>1, <3>3
      <4>2. j \notin Ends
        <5> HIDE DEF Ends
        <5> QED  BY <3>2, <4>1
      <4> QED  BY <4>1, <4>2
    <3> QED  BY <1>1, <3>3, <3>4
  <2> QED  BY <2>1, <2>2
<1>3. PICK i \in 0..n : Begins1(i) /\ i = CHOOSE k \in 0..n : Begins1(k)
  <2> HIDE DEF Begins1
  <2> QED  BY <1>2
<1>4. FilePart(text) = 1 + i
  BY <1>3, Zenon DEF FilePart, n
<1> QED  BY <1>3, <1>4 DEF n

LEMMA FilePartIsLast ==
  ASSUME NEW S, NEW text \in Seq(S), text # <<>>
  PROVE  SubSeq(text, FilePart(text), Len(text)) =
             IF Last(text) \in Separators THEN <<>> ELSE Last(Parts(text))
<1> DEFINE n == Len(text)
<1>1. n \in Nat /\ n >= 1 /\ Last(text) = text[n]
  BY DEF Last
<1>2. PICK i \in 0..n :
             /\ FilePart(text) = 1 + i
             /\ i > 0 => text[i] \in Separators
             /\ \A j \in (i + 1)..n : text[j] \notin Separators
  BY FilePartIs
<1> DEFINE file == From(text, 1 + i)
           before == SubSeq(text, 1, i)
<1>3. SubSeq(text, FilePart(text), Len(text)) = file
  BY <1>2 DEF From
<1>4. /\ file \in Seq(S) /\ Len(file) = n - i
      /\ \A j \in 1..(n - i) : file[j] = text[i + j]
  <2>1. 1 + i \in Nat /\ 1 <= 1 + i /\ 1 + i <= Len(text) + 1 /\ (1 + i) - 1 = i
    BY <1>1
  <2>2. /\ file \in Seq(S) /\ Len(file) = Len(text) - ((1 + i) - 1)
        /\ \A j \in 1..(Len(text) - ((1 + i) - 1)) : file[j] = text[((1 + i) - 1) + j]
    <3> DEFINE k == 1 + i
    <3>1. k \in Nat /\ 1 <= k /\ k <= Len(text) + 1
      BY <2>1
    <3> HIDE DEF k
    <3>2. /\ From(text, k) \in Seq(S) /\ Len(From(text, k)) = Len(text) - (k - 1)
          /\ \A j \in 1..(Len(text) - (k - 1)) : From(text, k)[j] = text[(k - 1) + j]
      BY <3>1, FromIs
    <3> QED  BY <3>2 DEF k
  <2> HIDE DEF file
  <2> QED  BY <2>1, <2>2
<1>5. /\ before \in Seq(S) /\ Len(before) = i
      /\ \A j \in 1..i : before[j] = text[j]
  BY <1>1
<1> HIDE DEF file, before
<1>6. CASE text[n] \in Separators
  <2>1. i = n
    BY <1>1, <1>2, <1>6
  <2>2. file = <<>>
    BY <1>1, <1>4, <2>1
  <2> QED  BY <1>1, <1>3, <1>6, <2>2
<1>7. CASE text[n] \notin Separators
  <2>1. i < n
    BY <1>1, <1>2, <1>7
  <2>2. LiesBehind(text, before, file)
    <3>1. Len(text) = Len(before) + Len(file)
      BY <1>1, <1>4, <1>5
    <3>2. ASSUME NEW j \in 1..n PROVE text[j] = IF j <= i THEN before[j] ELSE file[j - i]
      <4>1. CASE j <= i
        BY <1>5, <4>1
      <4>2. CASE ~(j <= i)
        <5>1. j - i \in 1..(n - i) /\ i + (j - i) = j
          BY <1>1, <4>2
        <5> QED  BY <1>4, <4>2, <5>1
      <4> QED  BY <4>1, <4>2
    <3> QED  BY <1>4, <1>5, <3>1, <3>2 DEF LiesBehind
  <2>3. Parts(text) = Parts(before) \o Parts(file)
    <3>1. Len(before) > 0 => before[Len(before)] \in Separators
      BY <1>2, <1>5
    <3> QED  BY <1>4, <1>5, <2>2, <3>1, PartsConcat
  <2>4. Parts(file) = <<file>>
    <3>1. file # <<>>
      BY <1>1, <1>4, <2>1
    <3>2. ASSUME NEW j \in 1..Len(file) PROVE file[j] \notin Separators
      <4>1. j \in 1..(n - i) /\ i + j \in (i + 1)..n
        BY <1>1, <1>4
      <4> QED  BY <1>2, <1>4, <4>1
    <3> QED  BY <1>4, <3>1, <3>2, PartsOfOne
  <2>5. Last(Parts(text)) = file
    <3> DEFINE b == Parts(before)
               f == <<file>>
               y == b \o f
    <3>1. b \in Seq(Seq(S))
      BY <1>5, PartsAreNames
    <3>2. f \in Seq(Seq(S)) /\ Len(f) = 1 /\ f[1] = file
      BY <1>4
    <3> HIDE DEF b, f
    <3>3. /\ y \in Seq(Seq(S)) /\ Len(y) = Len(b) + Len(f)
          /\ \A j \in 1..(Len(b) + Len(f)) : y[j] = IF j <= Len(b) THEN b[j] ELSE f[j - Len(b)]
      BY <3>1, <3>2, Joins
    <3>4. Parts(text) = y
      BY <2>3, <2>4 DEF b, f
    <3> HIDE DEF y
    <3>5. Len(b) \in Nat
      BY <3>1
    <3>6. y[Len(y)] = file
      <4> DEFINE k == Len(b)
      <4>1. Len(y) = k + 1 /\ k \in Nat /\ \A j \in 1..(k + 1) : y[j] = IF j <= k THEN b[j] ELSE f[j - k]
        BY <3>2, <3>3, <3>5
      <4> HIDE DEF k
      <4>2. y[k + 1] = f[1]
        <5>1. k + 1 \in 1..(k + 1) /\ ~(k + 1 <= k) /\ (k + 1) - k = 1
          BY <4>1
        <5> QED  BY <4>1, <5>1
      <4> QED  BY <3>2, <4>1, <4>2
    <3> QED  BY <3>4, <3>6 DEF Last
  <2> QED  BY <1>1, <1>3, <1>7, <2>5
<1> QED  BY <1>6, <1>7

(***************************************************************************)
(* What ResolvesFromOneDirectory says of an answer.                        *)
(***************************************************************************)
RelativeName(name) == ~Separates(name, 1) /\ ~(OnDrive(name) /\ Separates(name, 3))
OwnPart(name) == IF RelativeName(name) /\ OnDrive(name) THEN From(name, 3) ELSE name
Resolved(here, name, answer) ==
    LET text == SubSeq(answer.written, 1, Len(answer.written) - 1)
        file == SubSeq(text, answer.filePart, Len(text))
    IN /\ Last(answer.written) = NUL
       /\ \/ Parts(text) = (IF RelativeName(name) THEN Parts(here) ELSE <<>>) \o Parts(OwnPart(name))
          \/ OwnPart(name) = <<".">> /\ OnDrive(name) /\ text = here
       /\ file = IF Last(text) \in Separators THEN <<>> ELSE Last(Parts(text))

LEMMA RelativeTypes ==
  ASSUME SizesFit, NEW name \in Seq(Symbols \ {NUL}), name # <<>>
  PROVE  /\ TypeOf(name) \in {"Relative", "DriveRelative"} =>
                RelativeName(name) /\ OwnPart(name) = Rest(name)
         /\ TypeOf(name) \notin {"Relative", "DriveRelative"} =>
                ~RelativeName(name) /\ OwnPart(name) = name
         /\ TypeOf(name) = "DriveRelative" => OnDrive(name)
         /\ Rest(name) \in Seq(Letters) /\ Rest(name) # <<>>
<1>1. name \in Seq(Letters) /\ Len(name) \in Nat /\ Len(name) >= 1
  <2>1. name \in Seq(Letters)
    BY NameCharacters, Zenon
  <2> QED  BY <2>1
<1>2. ASSUME TypeOf(name) \in {"Relative", "DriveRelative"} PROVE RelativeName(name)
  <2>1. TypeOf(name) # "DriveAbsolute"
    BY <1>2
  <2>2. /\ ~(OnDrive(name) /\ Separates(name, 3))
        /\ Len(name) = 0 \/ name[1] \notin Separators
    BY <1>2, <2>1, TypeSays, Zenon
  <2>3. ~Separates(name, 1)
    BY <1>1, <2>2 DEF Separates, At
  <2> QED  BY <2>2, <2>3 DEF RelativeName
<1>3. ASSUME TypeOf(name) \notin {"Relative", "DriveRelative"} PROVE ~RelativeName(name)
  <2>1. CASE TypeOf(name) = "DriveAbsolute"
    BY <2>1, TypeSays, Zenon DEF RelativeName
  <2>2. CASE TypeOf(name) \in {"Unc", "UncRoot", "Extended", "ShortPrefix"}
    <3>1. name[1] \in Separators
      BY <2>2, TypeSays, Zenon
    <3> QED  BY <1>1, <3>1 DEF RelativeName, Separates, At
  <2>3. TypeOf(name) \in {"DriveAbsolute", "DriveRelative", "Relative", "Unc", "ShortPrefix", "UncRoot", "Extended"}
    BY TypeSays, Zenon
  <2> QED  BY <1>3, <2>1, <2>2, <2>3
<1>4. /\ TypeOf(name) = "DriveRelative" => OnDrive(name)
      /\ TypeOf(name) = "Relative" => ~OnDrive(name)
  BY TypeSays, Zenon
<1>5. "Relative" # "DriveRelative"
  OBVIOUS
<1>6. TypeOf(name) \in {"Relative", "DriveRelative"} => OwnPart(name) = Rest(name)
  BY <1>2, <1>4, <1>5 DEF OwnPart, Rest
<1>7. TypeOf(name) \notin {"Relative", "DriveRelative"} => OwnPart(name) = name
  BY <1>3 DEF OwnPart
<1>8. Rest(name) \in Seq(Letters) /\ Rest(name) # <<>>
  <2>1. CASE TypeOf(name) = "DriveRelative"
    <3>1. Len(name) > 2
      BY <1>4, <2>1 DEF OnDrive
    <3>2. From(name, 3) \in Seq(Letters) /\ Len(From(name, 3)) = Len(name) - 2
      BY <1>1, <3>1, FromIs
    <3>3. From(name, 3) # <<>>
      BY <1>1, <3>1, <3>2
    <3> QED  BY <2>1, <3>2, <3>3 DEF Rest
  <2>2. CASE TypeOf(name) # "DriveRelative"
    BY <1>1, <2>2 DEF Rest
  <2> QED  BY <2>1, <2>2
<1> QED  BY <1>2, <1>3, <1>4, <1>6, <1>7, <1>8

(* What is written ends in a terminator, and its file part is its last.    *)
LEMMA WrittenIs ==
  ASSUME NEW text \in Seq(Letters), text # <<>>
  PROVE  LET buffer == Append(text, NUL) IN
         /\ Written(buffer).written = buffer /\ Last(buffer) = NUL
         /\ SubSeq(buffer, 1, Len(buffer) - 1) = text
         /\ SubSeq(text, Written(buffer).filePart, Len(text)) =
                IF Last(text) \in Separators THEN <<>> ELSE Last(Parts(text))
         /\ Written(buffer).status = "Success"
<1> DEFINE L == Letters \cup {NUL}
           buffer == Append(text, NUL)
           n == Len(text)
           front == SubSeq(buffer, 1, Len(buffer) - 1)
<1>1. /\ n \in Nat /\ text \in Seq(L) /\ buffer \in Seq(L) /\ Len(buffer) = n + 1
      /\ buffer[n + 1] = NUL /\ \A i \in 1..n : buffer[i] = text[i]
  OBVIOUS
<1> HIDE DEF buffer, n, L
<1>2. front \in Seq(L) /\ Len(front) = n /\ \A i \in 1..n : front[i] = buffer[i]
  BY <1>1
<1> HIDE DEF front
<1>3. front = text
  <2>1. Len(front) = Len(text) /\ \A i \in 1..Len(front) : front[i] = text[i]
    BY <1>1, <1>2 DEF n
  <2> QED  BY <1>1, <1>2, <2>1, SameSequence
<1>4. Front(buffer) = text
  BY <1>3 DEF Front, front
<1>5. Last(buffer) = NUL
  BY <1>1 DEF Last
<1>6. Written(buffer) = [status |-> "Success", written |-> buffer, filePart |-> FilePart(text)]
  BY <1>4 DEF Written
<1>7. SubSeq(text, FilePart(text), Len(text)) = IF Last(text) \in Separators THEN <<>> ELSE Last(Parts(text))
  BY FilePartIsLast
<1>8. Written(buffer).filePart = FilePart(text) /\ Written(buffer).written = buffer /\ Written(buffer).status = "Success"
  BY <1>6
<1> QED  BY <1>3, <1>5, <1>7, <1>8, Zenon DEF front, buffer

LEMMA PrefixHasParts ==
  ASSUME SizesFit, Terminated, Len(Text(directory)) < MaxPath - 1
  PROVE  /\ DirectoryPrefix \in Seq(Letters)
         /\ Parts(DirectoryPrefix) = Parts(Text(directory))
         /\ Len(DirectoryPrefix) > 0 => DirectoryPrefix[Len(DirectoryPrefix)] \in Separators
<1> DEFINE t == Text(directory)
           c == "\\"
           cut == SubSeq(t, 1, IF Len(t) < MaxPath - 1 THEN Len(t) ELSE MaxPath - 2)
<1>1. t \in Seq(Letters) /\ c \in Letters /\ c \in Separators
  <2>1. t \in Seq(Symbols)
    BY TextIs
  <2> HIDE DEF t
  <2> QED  BY <2>1 DEF Letters, Separators
<1>2. cut = t
  <2>1. cut = SubSeq(t, 1, Len(t))
    OBVIOUS
  <2> HIDE DEF t, cut
  <2> QED  BY <1>1, <2>1
<1>3. DirectoryPrefix = IF cut # <<>> /\ Last(cut) # "\\" THEN cut \o <<"\\">> ELSE cut
  BY Zenon DEF DirectoryPrefix
<1> HIDE DEF cut, t
<1>4. CASE t # <<>> /\ Last(t) # "\\"
  <2>1. DirectoryPrefix = t \o <<c>>
    BY <1>2, <1>3, <1>4
  <2>2. t \o <<c>> = Append(t, c)
    <3> DEFINE l == t \o <<c>>
               r == Append(t, c)
    <3>1. /\ l \in Seq(Letters) /\ Len(l) = Len(t) + 1 /\ r \in Seq(Letters) /\ Len(r) = Len(t) + 1
          /\ \A i \in 1..(Len(t) + 1) : l[i] = r[i]
      BY <1>1
    <3> HIDE DEF l, r
    <3>2. l = r
      BY <3>1, SameSequence
    <3> QED  BY <3>2 DEF l, r
  <2> DEFINE p == Append(t, c)
  <2>3. p \in Seq(Letters) /\ Len(p) = Len(t) + 1 /\ p[Len(t) + 1] = c
    BY <1>1
  <2> HIDE DEF p
  <2>4. Parts(p) = Parts(t)
    BY <1>1, PartsThenSeparator DEF p
  <2> QED  BY <1>1, <2>1, <2>2, <2>3, <2>4 DEF p, t
<1>5. CASE t = <<>> \/ Last(t) = "\\"
  <2>1. DirectoryPrefix = t
    BY <1>2, <1>3, <1>5
  <2>2. Len(t) > 0 => t[Len(t)] \in Separators
    <3>1. Len(t) > 0 => t # <<>>
      BY <1>1
    <3> QED  BY <1>1, <1>5, <3>1 DEF Last
  <2> QED  BY <1>1, <2>1, <2>2 DEF t
<1> QED  BY <1>4, <1>5

(* A full name has the directory's parts and its own.                      *)
LEMMA FullNamesResolve ==
  ASSUME SizesFit, Terminated, Len(Text(directory)) < MaxPath - 1,
         NEW name \in Seq(Symbols \ {NUL}), name # <<>>
  PROVE  Resolved(Text(directory), name, Written(Append(FullName(name), NUL)))
<1> DEFINE text == FullName(name)
<1>1. /\ text \in Seq(Letters) /\ text # <<>>
      /\ Parts(text) = (IF RelativeName(name) THEN Parts(Text(directory)) ELSE <<>>) \o Parts(OwnPart(name))
  <2>1. name \in Seq(Letters)
    BY NameCharacters, Zenon
  <2>2. CASE TypeOf(name) \in {"Relative", "DriveRelative"}
    <3>1. RelativeName(name) /\ OwnPart(name) = Rest(name) /\ Rest(name) \in Seq(Letters) /\ Rest(name) # <<>>
      BY <2>2, RelativeTypes, Zenon
    <3>2. /\ DirectoryPrefix \in Seq(Letters)
          /\ Parts(DirectoryPrefix) = Parts(Text(directory))
          /\ Len(DirectoryPrefix) > 0 => DirectoryPrefix[Len(DirectoryPrefix)] \in Separators
      BY PrefixHasParts, Zenon
    <3>3. text = DirectoryPrefix \o Rest(name)
      BY <2>2 DEF FullName
    <3> DEFINE p == DirectoryPrefix
               r == Rest(name)
    <3> HIDE DEF p, r, text
    <3>4. p \in Seq(Letters) /\ r \in Seq(Letters) /\ r # <<>> /\ (Len(p) > 0 => p[Len(p)] \in Separators)
      BY <3>1, <3>2 DEF p, r
    <3>5. Parts(p \o r) = Parts(p) \o Parts(r)
      BY <3>4, PartsJoined
    <3>6. p \o r \in Seq(Letters) /\ p \o r # <<>>
      BY <3>4
    <3> QED  BY <3>1, <3>2, <3>3, <3>5, <3>6, Zenon DEF p, r
  <2>3. CASE TypeOf(name) \notin {"Relative", "DriveRelative"}
    <3>1. ~RelativeName(name) /\ OwnPart(name) = name
      BY <2>3, RelativeTypes, Zenon
    <3>2. text = name
      BY <2>3 DEF FullName
    <3>3. Parts(name) = <<>> \o Parts(name)
      <4> DEFINE z == Parts(name)
      <4>1. z \in Seq(Seq(Letters))
        BY <2>1, PartsAreNames
      <4> HIDE DEF z
      <4>2. z = <<>> \o z
        BY <4>1
      <4> QED  BY <4>2 DEF z
    <3> HIDE DEF text
    <3> QED  BY <2>1, <3>1, <3>2, <3>3, Zenon
  <2> QED  BY <2>2, <2>3
<1> DEFINE buffer == Append(text, NUL)
<1> HIDE DEF text
<1>2. /\ Written(buffer).written = buffer /\ Last(buffer) = NUL
      /\ SubSeq(buffer, 1, Len(buffer) - 1) = text
      /\ SubSeq(text, Written(buffer).filePart, Len(text)) =
                IF Last(text) \in Separators THEN <<>> ELSE Last(Parts(text))
  BY <1>1, WrittenIs, Zenon
<1> HIDE DEF buffer
<1>3. Resolved(Text(directory), name, Written(buffer))
  BY <1>1, <1>2, Zenon DEF Resolved
<1> QED  BY <1>3 DEF buffer, text

(* And the name of the drive's own directory is the directory.             *)
LEMMA DirectoryResolves ==
  ASSUME SizesFit, Terminated, directory[1] # NUL,
         NEW name \in Seq(Symbols \ {NUL}), name # <<>>, TypeOf(name) = "DriveRelative", Rest(name) = <<".">>
  PROVE  Resolved(Text(directory), name, Written(SubSeq(directory, 1, Copied(Len(Text(directory))))))
<1> DEFINE text == Text(directory)
           n == Len(text)
           copy == SubSeq(directory, 1, Copied(n))
           buffer == Append(text, NUL)
<1>1. /\ text \in Seq(Symbols) /\ n + 1 \in 1..MaxPath /\ n \in Nat
      /\ \A i \in 1..n : text[i] = directory[i]
      /\ directory[n + 1] = NUL
  <2>1. /\ text \in Seq(Symbols) /\ n + 1 \in 1..MaxPath
        /\ \A i \in 1..n : text[i] = directory[i]
        /\ directory[n + 1] = NUL
    BY TextIs
  <2> HIDE DEF text
  <2> QED  BY <2>1
<1>2. directory \in Seq(Symbols) /\ Len(directory) = MaxPath /\ MaxPath \in Nat /\ NUL \in Symbols
  BY DEF Terminated, SizesFit
<1> HIDE DEF text, n
<1>3. n # 0 /\ text # <<>> /\ Len(text) = n
  <2>1. n # 0
    BY <1>1
  <2> QED  BY <1>1, <2>1 DEF n
<1>4. copy = buffer
  <2>1. /\ copy \in Seq(Symbols) /\ Len(copy) = n + 1 /\ \A i \in 1..(n + 1) : copy[i] = directory[i]
    BY <1>1, <1>2 DEF Copied
  <2>2. /\ buffer \in Seq(Symbols) /\ Len(buffer) = n + 1 /\ buffer[n + 1] = NUL
        /\ \A i \in 1..n : buffer[i] = text[i]
    BY <1>1, <1>2, <1>3
  <2> HIDE DEF copy, buffer
  <2>3. \A i \in 1..(n + 1) : copy[i] = buffer[i]
    BY <1>1, <2>1, <2>2
  <2> QED  BY <2>1, <2>2, <2>3, SameSequence
<1>5. text \in Seq(Letters)
  BY <1>1 DEF Letters
<1>6. OwnPart(name) = <<".">> /\ OnDrive(name)
  <2>1. TypeOf(name) \in {"Relative", "DriveRelative"}
    OBVIOUS
  <2>2. OwnPart(name) = Rest(name) /\ OnDrive(name)
    BY <2>1, RelativeTypes, Zenon
  <2> QED  BY <2>2
<1>7. /\ Written(buffer).written = buffer /\ Last(buffer) = NUL
      /\ SubSeq(buffer, 1, Len(buffer) - 1) = text
      /\ SubSeq(text, Written(buffer).filePart, Len(text)) =
                IF Last(text) \in Separators THEN <<>> ELSE Last(Parts(text))
  BY <1>3, <1>5, WrittenIs, Zenon
<1> HIDE DEF copy, buffer
<1>8. Resolved(Text(directory), name, Written(copy))
  <2>1. Text(directory) = text
    BY DEF text
  <2> QED  BY <1>4, <1>6, <1>7, <2>1, Zenon DEF Resolved
<1> QED  BY <1>8 DEF copy, n, text

(***************************************************************************)
(* While the directory is left alone, what has been read of it stays true. *)
(***************************************************************************)
NamesADirectory ==
    /\ directory[1] # NUL
    /\ setting # Nobody => setting.name \in Seq(Symbols \ {NUL}) /\ setting.name # <<>>

CopyReads ==
    call.at = "Copy" => /\ call.name \in Names /\ call.name # <<>>
                        /\ TypeOf(call.name) = "DriveRelative" /\ Rest(call.name) = <<".">>
                        /\ call.length = Len(Text(directory))
CountReads ==
    call.at = "Count" /\ call.capacity > Len(Text(directory)) =>
        call.written = Append(Text(directory), NUL)
FullReads ==
    Answered("Full") /\ call.answer.status = "Success" /\ Len(Text(directory)) < MaxPath - 1 =>
        Resolved(Text(directory), call.name, call.answer)
CurrentReads ==
    Answered("Current") /\ call.capacity > Len(Text(directory)) =>
        /\ call.answer.written = Append(Text(directory), NUL)
        /\ call.answer.count = Len(Text(directory))

Reads == CopyReads /\ CountReads /\ FullReads /\ CurrentReads
ResolveInv == BufferInv /\ NamesADirectory /\ (quiet => Reads)

LEMMA InitResolve == ASSUME SizesFit PROVE Init => ResolveInv
<1> SUFFICES ASSUME Init PROVE ResolveInv
  OBVIOUS
<1>1. BufferInv
  BY InitBuffer
<1>2. NamesADirectory
  <2>1. FirstDirectory \in Seq(Symbols \ {NUL}) /\ FirstDirectory # <<>> /\ MaxPath \in Nat /\ Len(FirstDirectory) < MaxPath
    BY Strings DEF SizesFit
  <2>2. 1 \in 1..MaxPath /\ 1 <= Len(FirstDirectory) /\ FirstDirectory[1] # NUL
    BY <2>1
  <2>3. directory[1] = FirstDirectory[1]
    BY <2>2 DEF Init, At
  <2> QED  BY <2>2, <2>3 DEF Init, NamesADirectory
<1>3. Reads
  BY DEF Init, NoCall, Reads, CopyReads, CountReads, FullReads, CurrentReads, Answered
<1> QED  BY <1>1, <1>2, <1>3 DEF ResolveInv

LEMMA SettingNames ==
  ASSUME SizesFit, NamesADirectory, NEW name \in Directories, SetCurrentDirectory(name)
  PROVE  NamesADirectory'
<1> DEFINE length == IF Len(name) < MaxPath THEN Len(name) ELSE MaxPath - 1
           cut == SubSeq(name, 1, length)
<1>1. /\ name \in Seq(Symbols \ {NUL}) /\ name # <<>> /\ MaxPath \in Nat /\ MaxPath >= 2
  <2>1. FirstDirectory \in Seq(Symbols \ {NUL}) /\ FirstDirectory # <<>> /\ MaxPath \in Nat /\ Len(FirstDirectory) < MaxPath
    BY Strings DEF SizesFit
  <2>2. MaxPath >= 2
    BY <2>1
  <2> QED  BY <2>1, <2>2, Strings DEF SetCurrentDirectory
<1>2. length \in Nat /\ length >= 1 /\ length <= Len(name)
  BY <1>1
<1>3. setting' = [name |-> cut, next |-> 1] /\ UNCHANGED directory
  BY DEF SetCurrentDirectory
<1> HIDE DEF length
<1>4. cut \in Seq(Symbols \ {NUL}) /\ Len(cut) = length
  BY <1>1, <1>2
<1> HIDE DEF cut
<1>5. cut # <<>>
  BY <1>2, <1>4
<1> QED  BY <1>3, <1>4, <1>5 DEF NamesADirectory

LEMMA CharacterNames ==
  ASSUME SizesFit, BufferInv, NamesADirectory, WriteCharacter PROVE NamesADirectory'
<1> DEFINE name == setting.name
           next == setting.next
<1>1. /\ setting = [name |-> name, next |-> next]
      /\ name \in Seq(Symbols \ {NUL}) /\ name # <<>>
      /\ next \in 1..(Len(name) + 1)
  BY DEF WriteCharacter, BufferInv, SettingOK, NamesADirectory
<1>2. directory' = [directory EXCEPT ![next] = At(name, next)]
  BY DEF WriteCharacter
<1>3. directory'[1] # NUL
  <2>1. next = 1 => At(name, next) # NUL
    <3> HIDE DEF name, next
    <3> QED  BY <1>1 DEF At
  <2>2. directory \in [1..MaxPath -> Symbols] /\ directory[1] # NUL /\ 1 \in 1..MaxPath
    BY DEF BufferInv, Terminated, NamesADirectory, SizesFit
  <2> HIDE DEF name, next
  <2> QED  BY <1>2, <2>1, <2>2
<1>4. setting' = Nobody \/ setting' = [setting EXCEPT !.next = next + 1]
  BY DEF WriteCharacter
<1>5. setting' = Nobody \/ setting'.name = name
  <2> HIDE DEF name, next
  <2> QED  BY <1>1, <1>4
<1> QED  BY <1>1, <1>3, <1>5 DEF NamesADirectory

LEMMA CopyResolves ==
  ASSUME SizesFit, ResolveInv, CopyDirectory PROVE quiet' => Reads'
<1> SUFFICES ASSUME quiet' PROVE Reads'
  OBVIOUS
<1> DEFINE answer == Written(SubSeq(directory, 1, Copied(call.length)))
<1>1. /\ call'.at = "Done" /\ call'.op = "Full" /\ call'.name = call.name /\ call'.answer = answer
      /\ quiet /\ UNCHANGED directory
  BY DEF CopyDirectory, FullAnswer
<1>2. Resolved(Text(directory), call.name, answer)
  <2>1. /\ call.name \in Names /\ call.name # <<>>
        /\ TypeOf(call.name) = "DriveRelative" /\ Rest(call.name) = <<".">>
        /\ call.length = Len(Text(directory))
    BY <1>1 DEF CopyDirectory, ResolveInv, Reads, CopyReads
  <2>2. call.name \in Seq(Symbols \ {NUL}) /\ Terminated /\ directory[1] # NUL
    BY <2>1, Strings DEF ResolveInv, BufferInv, NamesADirectory
  <2> QED  BY <2>1, <2>2, DirectoryResolves
<1> HIDE DEF answer
<1>3. FullReads'
  <2>1. Text(directory)' = Text(directory)
    BY <1>1 DEF Text
  <2> QED  BY <1>1, <1>2, <2>1 DEF FullReads
<1>4. CopyReads' /\ CountReads' /\ CurrentReads'
  BY <1>1 DEF CopyReads, CountReads, CurrentReads, Answered
<1> QED  BY <1>3, <1>4 DEF Reads

LEMMA FullResolves ==
  ASSUME SizesFit, ResolveInv, NEW name \in Names, NEW capacity \in Capacities,
         GetFullPathName(name, capacity)
  PROVE  Reads'
<1>1. UNCHANGED directory
  BY DEF GetFullPathName, Begins
<1>2. ASSUME NEW status \in {"NameInvalid", "BufferTooSmall"},
             FullAnswer(name, capacity, Fails(status))
      PROVE  Reads'
  <2>1. /\ call'.at = "Done" /\ call'.op = "Full" /\ call'.answer.status = status
    BY <1>2 DEF FullAnswer, Fails
  <2> QED  BY <2>1 DEF Reads, CopyReads, CountReads, FullReads, CurrentReads, Answered
<1>3. CASE name = <<>>
  BY <1>2, <1>3 DEF GetFullPathName
<1>4. CASE name # <<>> /\ TypeOf(name) = "DriveRelative" /\ Rest(name) = <<".">>
  <2>1. CASE capacity <= Len(Text(directory))
    BY <1>2, <1>4, <2>1 DEF GetFullPathName
  <2>2. CASE ~(capacity <= Len(Text(directory)))
    <3>1. /\ call'.at = "Copy" /\ call'.name = name /\ call'.length = Len(Text(directory))
      BY <1>4, <2>2 DEF GetFullPathName
    <3>2. CopyReads'
      BY <1>1, <1>4, <3>1 DEF CopyReads
    <3> QED  BY <3>1, <3>2 DEF Reads, CountReads, FullReads, CurrentReads, Answered
  <2> QED  BY <2>1, <2>2
<1>5. CASE name # <<>> /\ ~(TypeOf(name) = "DriveRelative" /\ Rest(name) = <<".">>)
  <2>1. CASE capacity <= Len(FullName(name))
    BY <1>2, <1>5, <2>1 DEF GetFullPathName
  <2>2. CASE ~(capacity <= Len(FullName(name)))
    <3> DEFINE answer == Written(Append(FullName(name), NUL))
    <3>1. FullAnswer(name, capacity, answer)
      BY <1>5, <2>2 DEF GetFullPathName
    <3>2. name \in Seq(Symbols \ {NUL}) /\ Terminated
      BY Strings DEF ResolveInv, BufferInv
    <3>3. Len(Text(directory)) < MaxPath - 1 => Resolved(Text(directory), name, answer)
      BY <1>5, <3>2, FullNamesResolve
    <3> HIDE DEF answer
    <3>4. /\ call'.at = "Done" /\ call'.op = "Full" /\ call'.name = name /\ call'.answer = answer
      BY <3>1 DEF FullAnswer
    <3>5. FullReads'
      <4>1. Text(directory)' = Text(directory)
        BY <1>1 DEF Text
      <4> QED  BY <3>3, <3>4, <4>1 DEF FullReads
    <3> QED  BY <3>4, <3>5 DEF Reads, CopyReads, CountReads, CurrentReads, Answered
  <2> QED  BY <2>1, <2>2
<1> QED  BY <1>3, <1>4, <1>5

LEMMA CurrentResolves ==
  ASSUME SizesFit, ResolveInv, NEW capacity \in Capacities, GetCurrentDirectory(capacity)
  PROVE  Reads'
<1> DEFINE text == Text(directory)
           cut == SubSeq(text, 1, IF Len(text) < capacity THEN Len(text) ELSE capacity - 1)
<1>1. UNCHANGED directory /\ capacity \in Nat /\ text \in Seq(Symbols)
  BY TextIs DEF GetCurrentDirectory, Begins, SizesFit, ResolveInv, BufferInv
<1>2. CASE capacity = 0
  <2>1. /\ call'.at = "Done" /\ call'.capacity = 0 /\ call'.op = "Current"
    BY <1>2 DEF GetCurrentDirectory
  <2>2. ~(0 > Len(text)) /\ Text(directory)' = text
    <3>1. Text(directory)' = text
      BY <1>1 DEF Text
    <3> HIDE DEF text
    <3> QED  BY <1>1, <3>1
  <2>3. CurrentReads'
    BY <2>1, <2>2 DEF CurrentReads
  <2> QED  BY <2>1, <2>3 DEF Reads, CopyReads, CountReads, FullReads, Answered
<1>3. CASE capacity # 0
  <2>1. /\ call'.at = "Count" /\ call'.capacity = capacity
        /\ call'.written = Append(cut, NUL)
    BY <1>3 DEF GetCurrentDirectory
  <2>2. capacity > Len(text) => cut = text
    <3> HIDE DEF text
    <3> QED  BY <1>1
  <2>3. Text(directory)' = text
    BY <1>1 DEF Text
  <2> HIDE DEF cut
  <2>4. CountReads'
    BY <2>1, <2>2, <2>3 DEF CountReads
  <2> QED  BY <2>1, <2>4 DEF Reads, CopyReads, FullReads, CurrentReads, Answered
<1> QED  BY <1>2, <1>3

LEMMA NextResolve == ASSUME SizesFit PROVE ResolveInv /\ [Next]_vars => ResolveInv'
<1> SUFFICES ASSUME ResolveInv, [Next]_vars PROVE ResolveInv'
  OBVIOUS
<1>1. BufferInv'
  BY NextBuffer DEF ResolveInv
<1>2. ASSUME UNCHANGED <<directory, setting>> PROVE NamesADirectory'
  BY <1>2 DEF ResolveInv, NamesADirectory
<1>3. ASSUME UNCHANGED <<directory, call, quiet>> PROVE quiet' => Reads'
  BY <1>3 DEF ResolveInv, Reads, CopyReads, CountReads, FullReads, CurrentReads, Resolved, Answered
<1>4. ASSUME call' = NoCall \/ (call'.at = "Done" /\ call'.op \in {"Nt", "Match"}) PROVE Reads'
  BY <1>4 DEF NoCall, Reads, CopyReads, CountReads, FullReads, CurrentReads, Answered
<1>5. NamesADirectory' /\ (quiet' => Reads')
  <2>1. ASSUME NEW name \in Directories, SetCurrentDirectory(name) PROVE NamesADirectory' /\ (quiet' => Reads')
    BY <1>3, <2>1, SettingNames DEF SetCurrentDirectory, ResolveInv
  <2>2. CASE WriteCharacter
    <3>1. ~quiet'
      BY <2>2 DEF WriteCharacter
    <3> QED  BY <2>2, <3>1, CharacterNames DEF ResolveInv
  <2>3. ASSUME NEW name \in Names, ToNtName(name) PROVE NamesADirectory' /\ (quiet' => Reads')
    BY <1>2, <1>4, <2>3 DEF ToNtName, Answers
  <2>4. ASSUME NEW name \in Names, NEW capacity \in Capacities, GetFullPathName(name, capacity)
        PROVE  NamesADirectory' /\ (quiet' => Reads')
    BY <1>2, <2>4, FullResolves DEF GetFullPathName, Begins
  <2>5. CASE CopyDirectory
    BY <1>2, <2>5, CopyResolves DEF CopyDirectory
  <2>6. ASSUME NEW capacity \in Capacities, GetCurrentDirectory(capacity)
        PROVE  NamesADirectory' /\ (quiet' => Reads')
    BY <1>2, <2>6, CurrentResolves DEF GetCurrentDirectory, Begins
  <2>7. CASE CountDirectory
    <3>1. /\ call'.at = "Done" /\ call'.op = "Current" /\ call'.capacity = call.capacity
          /\ call'.answer.written = call.written /\ call'.answer.count = Len(Text(directory))
          /\ UNCHANGED <<directory, setting, quiet>> /\ call.at = "Count"
      BY <2>7 DEF CountDirectory
    <3>2. Text(directory)' = Text(directory)
      BY <3>1 DEF Text
    <3>3. quiet' => CurrentReads'
      BY <3>1, <3>2 DEF ResolveInv, Reads, CountReads, CurrentReads
    <3> QED  BY <1>2, <3>1, <3>3 DEF Reads, CopyReads, CountReads, FullReads, Answered
  <2>8. ASSUME NEW pattern \in Patterns, NEW name \in FileNames, MatchName(pattern, name)
        PROVE  NamesADirectory' /\ (quiet' => Reads')
    BY <1>2, <1>4, <2>8 DEF MatchName
  <2>9. CASE Return
    BY <1>2, <1>4, <2>9 DEF Return
  <2>10. CASE UNCHANGED vars
    BY <1>2, <1>3, <2>10 DEF vars
  <2> QED  BY <2>1, <2>2, <2>3, <2>4, <2>5, <2>6, <2>7, <2>8, <2>9, <2>10 DEF Next
<1> QED  BY <1>1, <1>5 DEF ResolveInv

(* RtlGetFullPathName_UEx and RtlGetCurrentDirectory_U: if nobody sets the *)
(* directory meanwhile, a full name has the parts of the directory and     *)
(* then its own, ends in a terminator and has its last part as file part,  *)
(* and the directory that is copied is the one that is counted.            *)
THEOREM OneDirectoryResolves == ASSUME SizesFit PROVE Spec => []ResolvesFromOneDirectory
<1>1. ResolveInv => ResolvesFromOneDirectory
  <2> SUFFICES ASSUME ResolveInv, quiet PROVE ResolvesFromOneDirectory
    BY Zenon DEF ResolvesFromOneDirectory
  <2>1. FullReads /\ CurrentReads
    BY DEF ResolveInv, Reads
  <2> QED  BY <2>1, Zenon DEF FullReads, CurrentReads, ResolvesFromOneDirectory, Resolved, OwnPart, RelativeName
<1> QED  BY InitResolve, NextResolve, <1>1, PTL DEF Spec

(***************************************************************************)
(* MatchWildcard is the first entry of a table that its equations fix;     *)
(* the ways the rest of a name lies along the rest of a pattern obey the   *)
(* same equations, and only one table does.                                *)
(***************************************************************************)
MatchBody(p, s, g, i, j) ==
    IF i > Len(p) THEN j > Len(s)
    ELSE IF p[i] = "*"
    THEN i = Len(p) \/ \E k \in j..Len(s) : g[i + 1][k]
    ELSE /\ j <= Len(s)
         /\ p[i] = "?" \/ Lower(p[i]) = Lower(s[j])
         /\ g[i + 1][j + 1]
MatchFcn(p, s, g) ==
    [i \in 1..(Len(p) + 1) |-> [j \in 1..(Len(s) + 1) |-> MatchBody(p, s, g, i, j)]]

LEMMA MatchIsChosen ==
  ASSUME NEW p, NEW s
  PROVE  MatchWildcard(p, s) = (CHOOSE g : g = MatchFcn(p, s, g))[1][1]
BY DEF MatchWildcard, MatchFcn, MatchBody

LEMMA MatchAt ==
  ASSUME NEW p, NEW s, NEW g, NEW h, h = MatchFcn(p, s, g),
         NEW i \in 1..(Len(p) + 1), NEW j \in 1..(Len(s) + 1)
  PROVE  h[i][j] = MatchBody(p, s, g, i, j)
BY DEF MatchFcn

LEMMA SameBody ==
  ASSUME NEW p, NEW s, NEW i, NEW j, NEW g, NEW h,
     g[i+1][j+1] = h[i+1][j+1], \A k \in j..Len(s) : g[i+1][k] = h[i+1][k]
  PROVE MatchBody(p, s, g, i, j) = MatchBody(p, s, h, i, j)
BY DEF MatchBody

(* The rest of the name lies along the rest of the pattern.                *)
LiesFrom(p, s, i, j, place) ==
    /\ \A a, b \in j..Len(s) : a < b => place[a] <= place[b]
    /\ \A a \in j..Len(s) : p[place[a]] \in {"*", "?"} \/ Lower(p[place[a]]) = Lower(s[a])
    /\ \A k \in i..Len(p) : p[k] # "*" =>
           \E a \in j..Len(s) : place[a] = k /\ \A b \in (j..Len(s)) \ {a} : place[b] # k
Lays(p, s, i, j) == \E place \in [j..Len(s) -> i..Len(p)] : LiesFrom(p, s, i, j, place)

LEMMA LaysAtEnd ==
  ASSUME NEW T, NEW p \in Seq(T), NEW s \in Seq(T), NEW j \in 1..(Len(s) + 1)
  PROVE  /\ j > Len(s) => Lays(p, s, Len(p) + 1, j)
         /\ Lays(p, s, Len(p) + 1, j) => j > Len(s)
<1> DEFINE m == Len(p)
           n == Len(s)
<1>1. m \in Nat /\ n \in Nat /\ j \in Nat /\ j >= 1 /\ j <= n + 1
  OBVIOUS
<1> HIDE DEF m, n
<1>2. (m + 1)..m = {}
  BY <1>1
<1>3. ASSUME j > n PROVE Lays(p, s, m + 1, j)
  <2> DEFINE place == [a \in j..n |-> m + 1]
  <2>1. j..n = {}
    BY <1>1, <1>3
  <2>2. place \in [j..n -> (m + 1)..m] /\ LiesFrom(p, s, m + 1, j, place)
    BY <1>2, <2>1 DEF LiesFrom, m, n
  <2> QED  BY <2>2, Zenon DEF Lays, m, n
<1>4. ASSUME Lays(p, s, m + 1, j) PROVE j > n
  <2>1. PICK place \in [j..n -> (m + 1)..m] : TRUE
    BY <1>4, Zenon DEF Lays, m, n
  <2>2. SUFFICES ASSUME ~(j > n) PROVE FALSE
    OBVIOUS
  <2>3. j \in j..n
    BY <1>1, <2>2
  <2>4. place[j] \in (m + 1)..m
    BY <2>1, <2>3
  <2> QED  BY <1>2, <2>4
<1> QED  BY <1>3, <1>4 DEF m, n

LEMMA LaysUnderStar ==
  ASSUME NEW T, NEW p \in Seq(T), NEW s \in Seq(T), NEW j \in 1..(Len(s) + 1),
         Len(p) > 0, p[Len(p)] = "*"
  PROVE  Lays(p, s, Len(p), j)
<1> DEFINE m == Len(p)
           n == Len(s)
           place == [a \in j..n |-> m]
<1>1. m \in Nat /\ n \in Nat /\ p[m] = "*"
  OBVIOUS
<1> HIDE DEF m, n
<1>2. place \in [j..n -> m..m]
  BY <1>1
<1>3. \A a \in j..n : place[a] = m
  OBVIOUS
<1>4. \A k \in m..m : k = m
  BY <1>1
<1> HIDE DEF place
<1>5. LiesFrom(p, s, m, j, place)
  <2>1. \A a, b \in j..n : a < b => place[a] <= place[b]
    BY <1>1, <1>3
  <2>2. \A a \in j..n : p[place[a]] \in {"*", "?"}
    BY <1>1, <1>3
  <2>3. \A k \in m..m : p[k] = "*"
    BY <1>1, <1>4
  <2> QED  BY <2>1, <2>2, <2>3, Zenon DEF LiesFrom, m, n
<1> QED  BY <1>2, <1>5, Zenon DEF Lays, m, n

(* A character or a question mark takes the next character.                *)
LEMMA LaysOne ==
  ASSUME NEW T, NEW p \in Seq(T), NEW s \in Seq(T), NEW i \in 1..Len(p), NEW j \in 1..(Len(s) + 1),
         p[i] # "*"
  PROVE  /\ Lays(p, s, i, j) =>
                /\ j <= Len(s)
                /\ p[i] = "?" \/ Lower(p[i]) = Lower(s[j])
                /\ Lays(p, s, i + 1, j + 1)
         /\ j <= Len(s) /\ (p[i] = "?" \/ Lower(p[i]) = Lower(s[j])) /\ Lays(p, s, i + 1, j + 1) =>
                Lays(p, s, i, j)
<1> DEFINE m == Len(p)
           n == Len(s)
<1>1. m \in Nat /\ n \in Nat /\ i \in Nat /\ j \in Nat /\ i >= 1 /\ i <= m /\ j >= 1 /\ j <= n + 1
  OBVIOUS
<1> HIDE DEF m, n
<1>2. ASSUME Lays(p, s, i, j)
      PROVE  j <= n /\ (p[i] = "?" \/ Lower(p[i]) = Lower(s[j])) /\ Lays(p, s, i + 1, j + 1)
  <2>1. PICK place \in [j..n -> i..m] :
            /\ \A a, b \in j..n : a < b => place[a] <= place[b]
            /\ \A a \in j..n : p[place[a]] \in {"*", "?"} \/ Lower(p[place[a]]) = Lower(s[a])
            /\ \A k \in i..m : p[k] # "*" =>
                   \E a \in j..n : place[a] = k /\ \A b \in (j..n) \ {a} : place[b] # k
    BY <1>2, Zenon DEF Lays, LiesFrom, m, n
  <2>2. i \in i..m
    BY <1>1
  <2>3. PICK a \in j..n : place[a] = i /\ \A b \in (j..n) \ {a} : place[b] # i
    BY <2>1, <2>2
  <2>4. j \in j..n /\ j <= n
    BY <1>1
  <2>5. a = j
    <3>1. place[j] \in i..m
      BY <2>1, <2>4
    <3>2. j < a => place[j] <= i
      BY <2>1, <2>3, <2>4
    <3>3. a # j => place[j] # i
      BY <2>3, <2>4
    <3> QED  BY <1>1, <3>1, <3>2, <3>3
  <2>6. p[i] = "?" \/ Lower(p[i]) = Lower(s[j])
    BY <2>1, <2>3, <2>4, <2>5
  <2> DEFINE rest == [b \in (j + 1)..n |-> place[b]]
  <2>7. \A b \in (j + 1)..n : b \in j..n /\ b # j /\ rest[b] = place[b]
    BY <1>1
  <2>8. rest \in [(j + 1)..n -> (i + 1)..m]
    <3>1. ASSUME NEW b \in (j + 1)..n PROVE place[b] \in (i + 1)..m
      <4>1. place[b] \in i..m /\ place[b] # i
        BY <2>1, <2>3, <2>5, <2>7
      <4> QED  BY <1>1, <4>1
    <3> QED  BY <3>1
  <2> HIDE DEF rest
  <2>9. LiesFrom(p, s, i + 1, j + 1, rest)
    <3>1. ASSUME NEW b \in (j + 1)..n, NEW c \in (j + 1)..n, b < c PROVE rest[b] <= rest[c]
      BY <2>1, <2>7, <3>1
    <3>2. ASSUME NEW b \in (j + 1)..n
          PROVE  p[rest[b]] \in {"*", "?"} \/ Lower(p[rest[b]]) = Lower(s[b])
      BY <2>1, <2>7
    <3>3. ASSUME NEW k \in (i + 1)..m, p[k] # "*"
          PROVE  \E b \in (j + 1)..n : rest[b] = k /\ \A c \in ((j + 1)..n) \ {b} : rest[c] # k
      <4>1. k \in i..m /\ k # i
        BY <1>1
      <4>2. PICK b \in j..n : place[b] = k /\ \A c \in (j..n) \ {b} : place[c] # k
        BY <2>1, <3>3, <4>1
      <4>3. b # j
        BY <2>3, <2>5, <4>1, <4>2
      <4>4. b \in (j + 1)..n
        BY <1>1, <4>3
      <4>5. rest[b] = k /\ \A c \in ((j + 1)..n) \ {b} : rest[c] # k
        BY <2>7, <4>2, <4>4
      <4> QED  BY <4>4, <4>5
    <3> QED  BY <3>1, <3>2, <3>3, Zenon DEF LiesFrom, m, n
  <2>10. Lays(p, s, i + 1, j + 1)
    BY <2>8, <2>9, Zenon DEF Lays, m, n
  <2> QED  BY <2>4, <2>6, <2>10, Zenon
<1>3. ASSUME j <= n, p[i] = "?" \/ Lower(p[i]) = Lower(s[j]), Lays(p, s, i + 1, j + 1)
      PROVE  Lays(p, s, i, j)
  <2>1. PICK rest \in [(j + 1)..n -> (i + 1)..m] :
            /\ \A a, b \in (j + 1)..n : a < b => rest[a] <= rest[b]
            /\ \A a \in (j + 1)..n : p[rest[a]] \in {"*", "?"} \/ Lower(p[rest[a]]) = Lower(s[a])
            /\ \A k \in (i + 1)..m : p[k] # "*" =>
                   \E a \in (j + 1)..n : rest[a] = k /\ \A b \in ((j + 1)..n) \ {a} : rest[b] # k
    BY <1>3, Zenon DEF Lays, LiesFrom, m, n
  <2> DEFINE place == [a \in j..n |-> IF a = j THEN i ELSE rest[a]]
  <2>2. \A a \in j..n : a = j \/ a \in (j + 1)..n
    BY <1>1
  <2>3. \A a \in (j + 1)..n : /\ a \in j..n /\ a > j /\ place[a] = rest[a]
                              /\ rest[a] \in (i + 1)..m /\ rest[a] > i /\ rest[a] \in i..m
    BY <1>1, <2>1
  <2>4. j \in j..n /\ place[j] = i /\ i \in i..m
    BY <1>1, <1>3
  <2>5. place \in [j..n -> i..m]
    BY <2>2, <2>3, <2>4
  <2> HIDE DEF place
  <2>6. LiesFrom(p, s, i, j, place)
    <3>1. ASSUME NEW a \in j..n, NEW b \in j..n, a < b PROVE place[a] <= place[b]
      <4>1. b # j /\ b \in (j + 1)..n
        BY <1>1, <2>2, <3>1
      <4>2. CASE a = j
        BY <1>1, <2>3, <2>4, <4>1, <4>2
      <4>3. CASE a \in (j + 1)..n
        BY <2>1, <2>3, <3>1, <4>1, <4>3
      <4> QED  BY <2>2, <4>2, <4>3
    <3>2. ASSUME NEW a \in j..n
          PROVE  p[place[a]] \in {"*", "?"} \/ Lower(p[place[a]]) = Lower(s[a])
      BY <1>3, <2>1, <2>2, <2>3, <2>4
    <3>3. ASSUME NEW k \in i..m, p[k] # "*"
          PROVE  \E a \in j..n : place[a] = k /\ \A b \in (j..n) \ {a} : place[b] # k
      <4>1. CASE k = i
        <5>1. \A b \in (j..n) \ {j} : place[b] # i
          BY <1>1, <2>2, <2>3
        <5> QED  BY <2>4, <4>1, <5>1
      <4>2. CASE k # i
        <5>1. k \in (i + 1)..m
          BY <1>1, <4>2
        <5>2. PICK a \in (j + 1)..n : rest[a] = k /\ \A b \in ((j + 1)..n) \ {a} : rest[b] # k
          BY <2>1, <3>3, <5>1
        <5>3. place[a] = k /\ a \in j..n
          BY <2>3, <5>2
        <5>4. \A b \in (j..n) \ {a} : place[b] # k
          BY <2>2, <2>3, <2>4, <4>2, <5>2
        <5> QED  BY <5>3, <5>4
      <4> QED  BY <4>1, <4>2
    <3> QED  BY <3>1, <3>2, <3>3, Zenon DEF LiesFrom, m, n
  <2> QED  BY <2>5, <2>6, Zenon DEF Lays, m, n
<1> QED  BY <1>2, <1>3 DEF n

(* A star that no star follows takes characters up to where the rest lies. *)
LEMMA LaysStar ==
  ASSUME NEW T, NEW p \in Seq(T), NEW s \in Seq(T), NEW i \in 1..(Len(p) - 1), NEW j \in 1..(Len(s) + 1),
         p[i] = "*", p[i + 1] # "*"
  PROVE  /\ Lays(p, s, i, j) => \E k \in j..Len(s) : Lays(p, s, i + 1, k)
         /\ (\E k \in j..Len(s) : Lays(p, s, i + 1, k)) => Lays(p, s, i, j)
<1> DEFINE m == Len(p)
           n == Len(s)
<1>1. m \in Nat /\ n \in Nat /\ i \in Nat /\ j \in Nat /\ i >= 1 /\ i < m /\ j >= 1 /\ j <= n + 1
  OBVIOUS
<1> HIDE DEF m, n
<1>2. ASSUME Lays(p, s, i, j)
      PROVE  \E k \in j..n : Lays(p, s, i + 1, k)
  <2>1. PICK place \in [j..n -> i..m] :
            /\ \A a, b \in j..n : a < b => place[a] <= place[b]
            /\ \A a \in j..n : p[place[a]] \in {"*", "?"} \/ Lower(p[place[a]]) = Lower(s[a])
            /\ \A k \in i..m : p[k] # "*" =>
                   \E a \in j..n : place[a] = k /\ \A b \in (j..n) \ {a} : place[b] # k
    BY <1>2, Zenon DEF Lays, LiesFrom, m, n
  <2> DEFINE beyond == {a \in j..n : place[a] > i}
  <2>2. beyond \in SUBSET Nat
    BY <1>1
  <2>3. beyond # {}
    <3>1. i + 1 \in i..m
      BY <1>1
    <3>2. PICK a \in j..n : place[a] = i + 1
      BY <2>1, <3>1
    <3>3. a \in beyond
      BY <1>1, <3>2
    <3> QED  BY <3>3
  <2>4. PICK k \in beyond : \A x \in beyond : k <= x
    <3> HIDE DEF beyond
    <3> QED  BY <2>2, <2>3, SmallestOf
  <2>5. k \in j..n /\ place[k] > i /\ k \in Nat
    BY <2>2, <2>4
  <2>6. \A a \in j..n : a < k => place[a] = i
    <3>1. ASSUME NEW a \in j..n, a < k PROVE place[a] = i
      <4>1. a \notin beyond
        BY <1>1, <2>2, <2>4, <2>5, <3>1
      <4>2. place[a] \in i..m
        BY <2>1
      <4> QED  BY <1>1, <4>1, <4>2
    <3> QED  BY <3>1
  <2> DEFINE rest == [b \in k..n |-> place[b]]
  <2>7. \A b \in k..n : b \in j..n /\ rest[b] = place[b]
    BY <1>1, <2>5
  <2>8. \A b \in k..n : place[b] \in (i + 1)..m
    <3>1. ASSUME NEW b \in k..n PROVE place[b] \in (i + 1)..m
      <4>1. place[b] \in i..m /\ place[k] \in i..m /\ b \in Nat /\ k <= b
        BY <1>1, <2>1, <2>5, <2>7
      <4>2. place[k] <= place[b]
        <5>1. CASE b = k
          BY <1>1, <4>1, <5>1
        <5>2. CASE k < b
          BY <2>1, <2>5, <2>7, <5>2
        <5> QED  BY <2>5, <4>1, <5>1, <5>2
      <4> QED  BY <1>1, <2>5, <4>1, <4>2
    <3> QED  BY <3>1
  <2>9. rest \in [k..n -> (i + 1)..m]
    BY <2>8
  <2> HIDE DEF rest, beyond
  <2>10. LiesFrom(p, s, i + 1, k, rest)
    <3>1. ASSUME NEW b \in k..n, NEW c \in k..n, b < c PROVE rest[b] <= rest[c]
      BY <2>1, <2>7, <3>1
    <3>2. ASSUME NEW b \in k..n
          PROVE  p[rest[b]] \in {"*", "?"} \/ Lower(p[rest[b]]) = Lower(s[b])
      BY <2>1, <2>7
    <3>3. ASSUME NEW l \in (i + 1)..m, p[l] # "*"
          PROVE  \E b \in k..n : rest[b] = l /\ \A c \in (k..n) \ {b} : rest[c] # l
      <4>1. l \in i..m /\ l # i
        BY <1>1
      <4>2. PICK b \in j..n : place[b] = l /\ \A c \in (j..n) \ {b} : place[c] # l
        BY <2>1, <3>3, <4>1
      <4>3. ~(b < k)
        BY <2>6, <4>1, <4>2
      <4>4. b \in k..n
        BY <1>1, <2>5, <4>3
      <4>5. rest[b] = l /\ \A c \in (k..n) \ {b} : rest[c] # l
        BY <2>7, <4>2, <4>4
      <4> QED  BY <4>4, <4>5
    <3> QED  BY <3>1, <3>2, <3>3, Zenon DEF LiesFrom, m, n
  <2>11. Lays(p, s, i + 1, k)
    BY <2>9, <2>10, Zenon DEF Lays, m, n
  <2> QED  BY <2>5, <2>11, Zenon
<1>3. ASSUME NEW k \in j..n, Lays(p, s, i + 1, k)
      PROVE  Lays(p, s, i, j)
  <2>1. PICK rest \in [k..n -> (i + 1)..m] :
            /\ \A a, b \in k..n : a < b => rest[a] <= rest[b]
            /\ \A a \in k..n : p[rest[a]] \in {"*", "?"} \/ Lower(p[rest[a]]) = Lower(s[a])
            /\ \A l \in (i + 1)..m : p[l] # "*" =>
                   \E a \in k..n : rest[a] = l /\ \A b \in (k..n) \ {a} : rest[b] # l
    BY <1>3, Zenon DEF Lays, LiesFrom, m, n
  <2> DEFINE place == [a \in j..n |-> IF a < k THEN i ELSE rest[a]]
  <2>2. \A a \in j..n : a < k \/ a \in k..n
    BY <1>1
  <2>3. \A a \in k..n : /\ a \in j..n /\ ~(a < k) /\ place[a] = rest[a]
                        /\ rest[a] \in (i + 1)..m /\ rest[a] > i /\ rest[a] \in i..m
    BY <1>1, <2>1
  <2>4. \A a \in j..n : a < k => place[a] = i
    OBVIOUS
  <2>5. i \in i..m /\ k \in Nat
    BY <1>1
  <2>6. place \in [j..n -> i..m]
    BY <2>2, <2>3, <2>4, <2>5
  <2> HIDE DEF place
  <2>7. LiesFrom(p, s, i, j, place)
    <3>1. ASSUME NEW a \in j..n, NEW b \in j..n, a < b PROVE place[a] <= place[b]
      <4>1. CASE a < k /\ b < k
        BY <1>1, <2>4, <4>1
      <4>2. CASE a < k /\ ~(b < k)
        <5>1. place[a] = i /\ b \in k..n
          BY <2>2, <2>4, <4>2
        <5>2. place[b] \in i..m
          BY <2>3, <5>1
        <5> QED  BY <1>1, <5>1, <5>2
      <4>3. CASE ~(a < k)
        <5>1. a \in k..n /\ b \in k..n
          BY <1>1, <2>2, <2>5, <3>1, <4>3
        <5> QED  BY <2>1, <2>3, <3>1, <5>1
      <4> QED  BY <4>1, <4>2, <4>3
    <3>2. ASSUME NEW a \in j..n
          PROVE  p[place[a]] \in {"*", "?"} \/ Lower(p[place[a]]) = Lower(s[a])
      <4>1. CASE a < k
        BY <2>4, <4>1
      <4>2. CASE a \in k..n
        BY <2>1, <2>3, <4>2
      <4> QED  BY <2>2, <4>1, <4>2
    <3>3. ASSUME NEW l \in i..m, p[l] # "*"
          PROVE  \E a \in j..n : place[a] = l /\ \A b \in (j..n) \ {a} : place[b] # l
      <4>1. l # i /\ l \in (i + 1)..m
        BY <1>1, <3>3
      <4>2. PICK a \in k..n : rest[a] = l /\ \A b \in (k..n) \ {a} : rest[b] # l
        BY <2>1, <3>3, <4>1
      <4>3. place[a] = l /\ a \in j..n
        BY <2>3, <4>2
      <4>4. \A b \in (j..n) \ {a} : place[b] # l
        BY <2>2, <2>3, <2>4, <4>1, <4>2
      <4> QED  BY <4>3, <4>4
    <3> QED  BY <3>1, <3>2, <3>3, Zenon DEF LiesFrom, m, n
  <2> QED  BY <2>6, <2>7, Zenon DEF Lays, m, n
<1> QED  BY <1>2, <1>3, Zenon DEF n

LayTable(p, s) ==
    [i \in 1..(Len(p) + 1) |-> [j \in 1..(Len(s) + 1) |-> Lays(p, s, i, j)]]
NoTwoStars(p) == \A k \in 1..(Len(p) - 1) : p[k] # "*" \/ p[k + 1] # "*"

LEMMA LayTableAt ==
  ASSUME NEW T, NEW p \in Seq(T), NEW s \in Seq(T), NEW i \in 1..(Len(p) + 1), NEW j \in 1..(Len(s) + 1)
  PROVE  LayTable(p, s)[i][j] = Lays(p, s, i, j)
BY Zenon DEF LayTable

LEMMA SameTruth == ASSUME NEW a \in BOOLEAN, NEW b \in BOOLEAN, a <=> b PROVE a = b
OBVIOUS

(* What lies along the pattern obeys the equations of the match.           *)
LEMMA LayTableMatches ==
  ASSUME NEW T, NEW p \in Seq(T), NEW s \in Seq(T), NoTwoStars(p),
         NEW i \in 1..(Len(p) + 1), NEW j \in 1..(Len(s) + 1), NEW h,
         \A a \in 1..(Len(p) + 1), b \in 1..(Len(s) + 1) : h[a][b] = Lays(p, s, a, b)
  PROVE  Lays(p, s, i, j) = MatchBody(p, s, h, i, j)
<1> DEFINE m == Len(p)
           n == Len(s)
<1>1. m \in Nat /\ n \in Nat /\ i \in Nat /\ j \in Nat /\ i >= 1 /\ i <= m + 1 /\ j >= 1 /\ j <= n + 1
  OBVIOUS
<1>2. \A a \in 1..(m + 1), b \in 1..(n + 1) : h[a][b] = Lays(p, s, a, b)
  OBVIOUS
<1>3. Lays(p, s, i, j) \in BOOLEAN
  BY DEF Lays
<1> HIDE DEF m, n
<1>4. CASE i = m + 1
  <2>1. MatchBody(p, s, h, i, j) = (j > n)
    <3>1. i > m
      BY <1>1, <1>4
    <3> QED  BY <3>1, Zenon DEF MatchBody, m, n
  <2>2. Lays(p, s, m + 1, j) <=> j > n
    BY LaysAtEnd, Zenon DEF m, n
  <2>3. (j > n) \in BOOLEAN
    BY <1>1
  <2> QED  BY <1>3, <1>4, <2>1, <2>2, <2>3, Zenon
<1>5. CASE i \in 1..m /\ p[i] = "*" /\ i = m
  <2>1. MatchBody(p, s, h, i, j) = TRUE
    BY <1>1, <1>5 DEF MatchBody, m, n
  <2>2. Lays(p, s, m, j)
    <3>1. m > 0 /\ p[m] = "*"
      BY <1>1, <1>5
    <3> QED  BY <3>1, LaysUnderStar, Zenon DEF m
  <2> QED  BY <1>3, <1>5, <2>1, <2>2, Zenon
<1>6. CASE i \in 1..m /\ p[i] = "*" /\ i # m
  <2>1. i \in 1..(m - 1)
    BY <1>1, <1>6
  <2>2. p[i + 1] # "*"
    BY <1>6, <2>1 DEF NoTwoStars, m
  <2>3. MatchBody(p, s, h, i, j) = (\E k \in j..n : h[i + 1][k])
    <3>1. ~(i > m)
      BY <1>1, <1>6
    <3> QED  BY <1>6, <3>1, Zenon DEF MatchBody, m, n
  <2>4. i + 1 \in 1..(m + 1)
    BY <1>1, <2>1
  <2>5. \A k \in j..n : k \in 1..(n + 1)
    BY <1>1
  <2>6. (\E k \in j..n : h[i + 1][k]) <=> (\E k \in j..n : Lays(p, s, i + 1, k))
    BY <1>2, <2>4, <2>5, Zenon
  <2>7. Lays(p, s, i, j) <=> (\E k \in j..n : Lays(p, s, i + 1, k))
    BY <1>6, <2>1, <2>2, LaysStar, Zenon DEF m, n
  <2>8. (\E k \in j..n : h[i + 1][k]) \in BOOLEAN
    OBVIOUS
  <2> QED  BY <1>3, <2>3, <2>6, <2>7, <2>8, Zenon
<1>7. CASE i \in 1..m /\ p[i] # "*"
  <2> DEFINE body == /\ j <= n
                     /\ p[i] = "?" \/ Lower(p[i]) = Lower(s[j])
                     /\ h[i + 1][j + 1]
  <2>1. MatchBody(p, s, h, i, j) = body
    <3>1. ~(i > m)
      BY <1>1, <1>7
    <3> QED  BY <1>7, <3>1, Zenon DEF MatchBody, m, n
  <2>2. j <= n => h[i + 1][j + 1] = Lays(p, s, i + 1, j + 1)
    <3>1. ASSUME j <= n PROVE i + 1 \in 1..(m + 1) /\ j + 1 \in 1..(n + 1)
      BY <1>1, <1>7, <3>1
    <3> QED  BY <1>2, <3>1, Zenon
  <2>3. /\ Lays(p, s, i, j) =>
               j <= n /\ (p[i] = "?" \/ Lower(p[i]) = Lower(s[j])) /\ Lays(p, s, i + 1, j + 1)
        /\ j <= n /\ (p[i] = "?" \/ Lower(p[i]) = Lower(s[j])) /\ Lays(p, s, i + 1, j + 1) =>
               Lays(p, s, i, j)
    <3>1. i \in 1..Len(p) /\ j \in 1..(Len(s) + 1)
      BY <1>7, Zenon DEF m
    <3>2. p[i] # "*"
      BY <1>7
    <3>3. Lays(p, s, i, j) =>
              j <= n /\ (p[i] = "?" \/ Lower(p[i]) = Lower(s[j])) /\ Lays(p, s, i + 1, j + 1)
      BY <3>1, <3>2, LaysOne DEF n
    <3>4. j <= n /\ (p[i] = "?" \/ Lower(p[i]) = Lower(s[j])) /\ Lays(p, s, i + 1, j + 1) =>
              Lays(p, s, i, j)
      BY <3>1, <3>2, LaysOne DEF n
    <3> QED  BY <3>3, <3>4, Zenon
  <2>4. Lays(p, s, i, j) <=> body
    BY <2>2, <2>3, Zenon
  <2>5. body \in BOOLEAN
    OBVIOUS
  <2>6. Lays(p, s, i, j) = body
    <3> HIDE DEF body
    <3> QED  BY <1>3, <2>4, <2>5, SameTruth, Zenon
  <2> QED  BY <2>1, <2>6, Zenon
<1>8. i = m + 1 \/ i \in 1..m
  BY <1>1
<1> QED  BY <1>4, <1>5, <1>6, <1>7, <1>8, Zenon

LEMMA LayTableIsMatch ==
  ASSUME NEW T, NEW p \in Seq(T), NEW s \in Seq(T), NoTwoStars(p)
  PROVE  LayTable(p, s) = MatchFcn(p, s, LayTable(p, s))
<1> DEFINE m == Len(p)
           n == Len(s)
           h == LayTable(p, s)
<1>1. \A i \in 1..(m + 1), j \in 1..(n + 1) : Lays(p, s, i, j) = MatchBody(p, s, h, i, j)
  <2>1. \A i \in 1..(m + 1), j \in 1..(n + 1) : h[i][j] = Lays(p, s, i, j)
    BY LayTableAt, Zenon
  <2> HIDE DEF h
  <2> QED  BY <2>1, LayTableMatches, Zenon
<1>2. h = [i \in 1..(m + 1) |-> [j \in 1..(n + 1) |-> Lays(p, s, i, j)]]
  BY Zenon DEF LayTable
<1>3. MatchFcn(p, s, h) = [i \in 1..(m + 1) |-> [j \in 1..(n + 1) |-> MatchBody(p, s, h, i, j)]]
  BY Zenon DEF MatchFcn
<1> HIDE DEF m, n, h
<1>4. [i \in 1..(m + 1) |-> [j \in 1..(n + 1) |-> Lays(p, s, i, j)]] =
      [i \in 1..(m + 1) |-> [j \in 1..(n + 1) |-> MatchBody(p, s, h, i, j)]]
  BY <1>1, Zenon
<1> QED  BY <1>2, <1>3, <1>4 DEF h

(* The equations have one solution.                                        *)
Solves(p, s, g) == g = MatchFcn(p, s, g)

LEMMA OneMatch ==
  ASSUME NEW p, NEW s, Len(p) \in Nat, Len(s) \in Nat, NEW g, NEW h,
         Solves(p, s, g), Solves(p, s, h)
  PROVE  g[1][1] = h[1][1]
<1> DEFINE m == Len(p)
           n == Len(s)
           Good == {k \in Nat : \A j \in 1..(n + 1) : g[m + 1 - k][j] = h[m + 1 - k][j]}
<1>1. m \in Nat /\ n \in Nat
  OBVIOUS
<1>2. \A i \in 1..(m + 1), j \in 1..(n + 1) :
          g[i][j] = MatchBody(p, s, g, i, j) /\ h[i][j] = MatchBody(p, s, h, i, j)
  BY MatchAt, Zenon DEF Solves
<1> HIDE DEF m, n
<1>3. 0 \in Good
  <2>1. ASSUME NEW j \in 1..(n + 1) PROVE g[m + 1][j] = h[m + 1][j]
    <3>1. MatchBody(p, s, g, m + 1, j) = (j > n) /\ MatchBody(p, s, h, m + 1, j) = (j > n)
      <4>1. m + 1 > m
        BY <1>1
      <4> QED  BY <4>1, Zenon DEF MatchBody, m, n
    <3>2. m + 1 \in 1..(m + 1)
      BY <1>1
    <3> QED  BY <1>2, <3>1, <3>2
  <2>2. m + 1 - 0 = m + 1
    BY <1>1
  <2> QED  BY <2>1, <2>2
<1>4. ASSUME NEW k \in 1..m, k - 1 \in Good PROVE k \in Good
  <2> DEFINE i == m + 1 - k
  <2>1. i \in 1..m /\ i + 1 = m + 1 - (k - 1) /\ i \in 1..(m + 1) /\ k \in Nat
    BY <1>1
  <2>2. \A j \in 1..(n + 1) : g[i + 1][j] = h[i + 1][j]
    BY <1>4, <2>1
  <2> HIDE DEF i
  <2>3. ASSUME NEW j \in 1..(n + 1) PROVE g[i][j] = h[i][j]
    <3>1. \A l \in j..n : g[i + 1][l] = h[i + 1][l]
      <4>1. \A l \in j..n : l \in 1..(n + 1)
        BY <1>1
      <4> QED  BY <2>2, <4>1
    <3>2. j <= n => g[i + 1][j + 1] = h[i + 1][j + 1]
      <4>1. j <= n => j + 1 \in 1..(n + 1)
        BY <1>1
      <4> QED  BY <2>2, <4>1
    <3>3. MatchBody(p, s, g, i, j) = MatchBody(p, s, h, i, j)
      <4>1. CASE j <= n
        BY <3>1, <3>2, <4>1, SameBody, Zenon DEF n
      <4>2. CASE ~(j <= n)
        <5>1. (\E l \in j..n : g[i + 1][l]) = (\E l \in j..n : h[i + 1][l])
          BY <3>1, Zenon
        <5> QED  BY <4>2, <5>1, Zenon DEF MatchBody, n
      <4> QED  BY <4>1, <4>2
    <3> QED  BY <1>2, <2>1, <3>3, Zenon
  <2> QED  BY <2>1, <2>3 DEF i
<1>5. m \in Good
  <2>1. \A k \in 1..m : k - 1 \in Good => k \in Good
    BY <1>4
  <2>2. \A k \in 0..m : k \in Good
    <3> HIDE DEF Good
    <3> QED  BY <1>1, <1>3, <2>1, Climbs, Zenon
  <2>3. m \in 0..m
    BY <1>1
  <2> QED  BY <2>2, <2>3
<1>6. m + 1 - m = 1 /\ 1 \in 1..(n + 1)
  BY <1>1
<1> QED  BY <1>5, <1>6

LEMMA MatchIsLays ==
  ASSUME NEW T, NEW p \in Seq(T), NEW s \in Seq(T), NoTwoStars(p)
  PROVE  MatchWildcard(p, s) = Lays(p, s, 1, 1)
<1> DEFINE h == LayTable(p, s)
           g == CHOOSE f : f = MatchFcn(p, s, f)
<1>1. Solves(p, s, h)
  BY LayTableIsMatch, Zenon DEF Solves
<1>2. Solves(p, s, g)
  <2> HIDE DEF h
  <2> QED  BY <1>1, Zenon DEF Solves
<1>3. MatchWildcard(p, s) = g[1][1]
  BY MatchIsChosen, Zenon
<1> HIDE DEF g
<1>4. g[1][1] = h[1][1]
  <2> HIDE DEF h
  <2>1. Len(p) \in Nat /\ Len(s) \in Nat
    OBVIOUS
  <2> QED  BY <1>1, <1>2, <2>1, OneMatch
<1>5. h[1][1] = Lays(p, s, 1, 1)
  <2>1. 1 \in 1..(Len(p) + 1) /\ 1 \in 1..(Len(s) + 1)
    OBVIOUS
  <2> QED  BY <2>1, LayTableAt, Zenon
<1> QED  BY <1>3, <1>4, <1>5

LEMMA LaysIsLies ==
  ASSUME NEW T, NEW p \in Seq(T), NEW s \in Seq(T)
  PROVE  Lays(p, s, 1, 1) = \E place \in [DOMAIN s -> DOMAIN p] : Lies(s, p, place)
<1>1. DOMAIN s = 1..Len(s) /\ DOMAIN p = 1..Len(p)
  OBVIOUS
<1>2. \A place : LiesFrom(p, s, 1, 1, place) <=> Lies(s, p, place)
  BY <1>1, Zenon DEF LiesFrom, Lies
<1> QED  BY <1>1, <1>2, Zenon DEF Lays

(* An answer is what MatchWildcard gives.                                  *)
MatchOK ==
    Answered("Match") => /\ call.pattern \in Patterns /\ call.name \in FileNames
                         /\ call.answer = MatchWildcard(call.pattern, call.name)

LEMMA NextMatch == MatchOK /\ [Next]_vars => MatchOK'
<1> SUFFICES ASSUME MatchOK, [Next]_vars PROVE MatchOK'
  OBVIOUS
<1>1. ASSUME UNCHANGED call PROVE MatchOK'
  BY <1>1 DEF MatchOK, Answered
<1>2. ASSUME call'.at \in {"Copy", "Count", "None"} \/ call'.op \in {"Full", "Current", "Nt"} PROVE MatchOK'
  BY <1>2 DEF MatchOK, Answered
<1>3. ASSUME NEW pattern \in Patterns, NEW name \in FileNames, MatchName(pattern, name) PROVE MatchOK'
  <2>1. call'.pattern = pattern /\ call'.name = name /\ call'.answer = MatchWildcard(pattern, name)
    BY <1>3 DEF MatchName
  <2> QED  BY <2>1 DEF MatchOK
<1>4. ASSUME NEW name, NEW capacity, NEW answer, FullAnswer(name, capacity, answer) PROVE MatchOK'
  BY <1>2, <1>4 DEF FullAnswer
<1>5. ASSUME NEW name \in Names, NEW capacity \in Capacities, GetFullPathName(name, capacity) PROVE MatchOK'
  <2>1. \/ call'.at = "Copy"
        \/ \E answer : FullAnswer(name, capacity, answer)
    BY <1>5 DEF GetFullPathName
  <2> QED  BY <1>2, <1>4, <2>1
<1>6. CASE CopyDirectory
  BY <1>4, <1>6 DEF CopyDirectory
<1>7. ASSUME NEW capacity \in Capacities, GetCurrentDirectory(capacity) PROVE MatchOK'
  <2>1. call'.op = "Current"
    BY <1>7 DEF GetCurrentDirectory
  <2> QED  BY <1>2, <2>1
<1>8. CASE CountDirectory
  BY <1>2, <1>8 DEF CountDirectory
<1>9. ASSUME NEW name \in Names, ToNtName(name) PROVE MatchOK'
  <2>1. PICK answer \in NtNames(name) : Answers("Nt", name, answer)
    BY <1>9 DEF ToNtName
  <2>2. call'.op = "Nt"
    BY <2>1 DEF Answers
  <2> QED  BY <1>2, <2>2
<1>10. CASE Return
  BY <1>2, <1>10 DEF Return, NoCall
<1>11. ASSUME NEW name \in Directories, SetCurrentDirectory(name) PROVE MatchOK'
  BY <1>1, <1>11 DEF SetCurrentDirectory
<1>12. CASE WriteCharacter
  BY <1>1, <1>12 DEF WriteCharacter
<1>13. CASE UNCHANGED vars
  BY <1>1, <1>13 DEF vars
<1> QED  BY <1>3, <1>5, <1>6, <1>7, <1>8, <1>9, <1>10, <1>11, <1>12, <1>13 DEF Next

(* MatchWildcard finds a name for a pattern without adjacent stars exactly *)
(* if the name can be laid along the pattern: every character and question *)
(* mark takes one character, a star any number, in order.                  *)
THEOREM WildcardsAreMatched == ASSUME SizesFit PROVE Spec => []WildcardsMatch
<1>1. Init => MatchOK
  BY DEF Init, NoCall, MatchOK, Answered
<1>2. MatchOK => WildcardsMatch
  <2> DEFINE p == call.pattern
             s == call.name
  <2> SUFFICES ASSUME MatchOK, Answered("Match"), NoTwoStars(p)
               PROVE  call.answer = \E place \in [DOMAIN s -> DOMAIN p] : Lies(s, p, place)
    BY Zenon DEF WildcardsMatch, NoTwoStars
  <2>1. p \in Seq(Symbols) /\ s \in Seq(Symbols) /\ call.answer = MatchWildcard(p, s)
    BY Strings DEF MatchOK
  <2> HIDE DEF p, s
  <2>2. MatchWildcard(p, s) = Lays(p, s, 1, 1)
    BY <2>1, MatchIsLays, Zenon
  <2>3. Lays(p, s, 1, 1) = \E place \in [DOMAIN s -> DOMAIN p] : Lies(s, p, place)
    BY <2>1, LaysIsLies, Zenon
  <2> QED  BY <2>1, <2>2, <2>3
<1> QED  BY NextMatch, <1>1, <1>2, PTL DEF Spec
=============================================================================
