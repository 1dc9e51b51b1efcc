----------------------------- MODULE FileCalls ------------------------------
(***************************************************************************)
(* The functions of KernelBase.File.cpp that borrow and give back, and     *)
(* those that are one service and its answer.                              *)
(***************************************************************************)
EXTENDS CallSteps

(* Arguments, then the NT path of a name.                                  *)
Named == <<Refuses, Path("NtPath", {})>>

GetFileType ==
    Function(Effect({"Answer"}),
        <<Takes(Effect({"Answer"}), {}, {}),
          Succeeds>>)                           \* FILE_TYPE_UNKNOWN included

-----------------------------------------------------------------------------
(* Reading, writing and control, overlapped or not.  *)
(* A warning, and for a read the end of the file, is no failure.           *)
Overlapped(effect) ==
    Step({}, {Finishes(effect), Fails({}), Outcome({}, {}, "After", Pending)})
Waits(effect, pends) ==
    Step({}, {Finishes(effect), Fails({})} \cup (IF pends THEN {Goes(Onward)} ELSE {}))

ReadFile ==
    Function(Effect({"Read"}),
        <<Refuses, Choice({3, 4}), Overlapped("Read"), Waits("Read", TRUE), Waits("Read", FALSE)>>)

WriteFile ==
    Function(Effect({"Written"}),
        <<Choice({2, 3}), Overlapped("Written"), Refuses, Waits("Written", TRUE),
          Waits("Written", FALSE)>>)

DeviceIoControl ==
    Function(Effect({"Controlled"}),
        <<Choice({2, 3}), Overlapped("Controlled"), Waits("Controlled", TRUE),
          Waits("Controlled", FALSE)>>)
FlushFileBuffers == Service("Flushed")

-----------------------------------------------------------------------------
(* Opening.  A template that cannot be read is ignored.                    *)
CreateFileW ==
    Function(Handle({"FileHandle"}),
        Named \o
        <<Step({}, {Goes(Onward), Fails(String({"NtPath"}))}),     \* an unknown disposition
          Tries({}, {}),
          Takes(Handle({"FileHandle"}), String({"NtPath"}), String({"NtPath"})),
          Returns(String({"NtPath"})),
          Succeeds>>)

CreateFile2 ==
    Function(Handle({"FileHandle"}),
        <<Refuses, Takes(Handle({"FileHandle"}), {}, {}), Succeeds>>)   \* CreateFileW

-----------------------------------------------------------------------------
(* Names: one service on a converted path.                                 *)
OnName(effect) ==
    Function(Effect({effect}),
        Named \o
        <<Takes(Effect({effect}), String({"NtPath"}), String({"NtPath"})),
          Returns(String({"NtPath"})),
          Succeeds>>)

GetFileAttributesExW == [OnName("Answer") EXCEPT !.steps = <<Refuses>> \o @]
GetFileAttributesW == OnName("Answer")
DeleteFileW == OnName("Deleted")

CreateDirectoryW ==
    Function(Effect({"Directory"}),
        Named \o
        <<Takes(Effect({"Directory"}) \cup Handle({"DirHandle"}),
                String({"NtPath"}), String({"NtPath"})),
          Returns(String({"NtPath"})),
          Returns(Handle({"DirHandle"})),
          Succeeds>>)

(* Names: a handle on it, and one service on the handle.                   *)
\* as if the path were freed before it is opened
BadOnHandle(handle, effect) ==
    Function(Effect({effect}),
        Named \o
        <<Returns(String({"NtPath"})),
          Takes(Handle({handle}), String({"NtPath"}), {}),
          Takes(Effect({effect}), Handle({handle}), Handle({handle})),
          Returns(Handle({handle})),
          Succeeds>>)

OnHandle(handle, effect) ==
    Function(Effect({effect}),
        Named \o
        <<Takes(Handle({handle}), String({"NtPath"}), String({"NtPath"})),
          Returns(String({"NtPath"})),
          Takes(Effect({effect}), Handle({handle}), Handle({handle})),
          Returns(Handle({handle})),
          Succeeds>>)

SetFileAttributesW == OnHandle("FileHandle", "Attributes")
RemoveDirectoryW == OnHandle("DirHandle", "Removed")

\* as if the handle stayed open when the new name has no NT path
BadMoveFileExW ==
    Function(Effect({"Moved"}),
        Named \o
        <<Takes(Handle({"FileHandle"}), String({"NtPath"}), String({"NtPath"})),
          Returns(String({"NtPath"})),
          Path("NewNtPath", {}),
          Takes(Effect({"Moved"}), Handle({"FileHandle"}),
                String({"NewNtPath"}) \cup Handle({"FileHandle"})),
          Returns(String({"NewNtPath"}) \cup Handle({"FileHandle"})),
          Succeeds>>)

MoveFileExW ==
    Function(Effect({"Moved"}),
        Named \o
        <<Takes(Handle({"FileHandle"}), String({"NtPath"}), String({"NtPath"})),
          Returns(String({"NtPath"})),
          Path("NewNtPath", Handle({"FileHandle"})),
          Takes(Block({"RenameInfo"}), String({"NewNtPath"}),
                String({"NewNtPath"}) \cup Handle({"FileHandle"})),
          Takes(Effect({"Moved"}), Handle({"FileHandle"}) \cup Block({"RenameInfo"}),
                Block({"RenameInfo"}) \cup String({"NewNtPath"}) \cup Handle({"FileHandle"})),
          Returns(Block({"RenameInfo"}) \cup String({"NewNtPath"}) \cup Handle({"FileHandle"})),
          Succeeds>>)

-----------------------------------------------------------------------------
(* GetTempPathW: the first of two variables that fits, else the fallback   *)
(* or its size.  A variable that is not there is told, and passed over.    *)
GetTempPathW ==
    LET candidate == Step({}, {Finishes("Answer"), Goes(Onward), Tells}) IN
    Function(Effect({"Answer"}),
        <<candidate, candidate, Step({}, {Finishes("Answer"), Fails({})})>>)

(* GetDriveTypeW answers DRIVE_UNKNOWN without touching the last error.    *)
(* RtlFreeUnicodeString may meet a string it has already emptied.          *)
GetDriveTypeW ==
    Function(Effect({"Answer"}),
        <<Step({}, {Goes(Onward), FailsMute({})}),
          Step({}, {Gets(String({"NtPath"})), FailsMute({})}),
          Step(String({"NtPath"}), {Gets(Handle({"VolHandle"})), Goes(5)}),
          Step(Handle({"VolHandle"}),
              {Outcome(Effect({"Answer"}), Handle({"VolHandle"}) \cup String({"NtPath"}), "No", Success),
               Leads(Handle({"VolHandle"}) \cup String({"NtPath"}), Onward)}),
          Step({}, {If(String({"NtPath"}), FailsMute(String({"NtPath"}))),
                    Unless(String({"NtPath"}), FailsMute({}))})>>)

-----------------------------------------------------------------------------
(* Searching.  The find handle is a context that holds a directory handle. *)
(* QueryNextMatch asks again for every entry that does not match, and      *)
(* tells that there is no other or that the query failed; FindFirstFileExW *)
(* then tells of "no such file" either way.                                *)
Context == Handle({"DirHandle"}) \cup Block({"Ctx"})

FindFirstFileExW ==
    Function(Context \cup Effect({"Answer"}),
        <<Refuses,
          Takes(Handle({"DirHandle"}), {}, {}),                     \* CreateFileW
          Takes(Block({"Ctx"}), {}, Handle({"DirHandle"})),
          Step(Context, {Goes(4), Outcome(Effect({"Answer"}), {}, "No", Success), Tells}),
          Step(Context, {FailsTold(Context)})>>)

FindFirstFileW == FindFirstFileExW

\* as if a search that goes on ended like one that begins
BadFindNextFileW ==
    Function(Effect({"Answer"}),
        <<Refuses, Step({}, {Goes(2), Finishes("Answer"), Tells}), Step({}, {Fails({})})>>)

FindNextFileW ==
    Function(Effect({"Answer"}), <<Refuses, Step({}, {Goes(2), Finishes("Answer"), Fails({})})>>)

(* Here the context comes from the caller.                                 *)
FindClose == Function({}, <<Step({}, {Gets(Context), Fails({})}), Returns(Context), Succeeds>>)

-----------------------------------------------------------------------------
(* Handles: one service, or an attempt before or after it.                 *)
GetFullPathNameW == Service("Answer")           \* RtlGetFullPathName_UEx
GetFileSizeEx == Service("Answer")
SetFileTime == Service("Times")
GetFileTime == Service("Answer")

(* A position relative to the current one, or to the end, is asked first;  *)
(* a negative one is refused.                                              *)
SetFilePointerEx ==
    Guarded(Function(Effect({"Position"}),
        <<Asks({}, {}), Refuses, Takes(Effect({"Position"}), {}, {}), Succeeds>>))
SetFilePointer == SetFilePointerEx

SetEndOfFile ==
    Function(Effect({"EndOfFile"}),
        <<Asks({}, {}), Takes(Effect({"EndOfFile"}), {}, {}), Tries({}, {}), Succeeds>>)

GetFileInformationByHandle ==
    Function(Effect({"Answer"}), <<Tries({}, {}), Takes(Effect({"Answer"}), {}, {}), Succeeds>>)

SetFileInformationByHandle ==
    Function(Effect({"Information"}),
        <<Refuses, Refuses, Refuses, Takes(Effect({"Information"}), {}, {}), Succeeds>>)

(* Step 2 is the class: unknown, that of a volume, or a file's; step 4 a   *)
(* directory's, where a query that pends counts as done and the end of the *)
(* directory makes the call wait for the handle; step 6 the others'.       *)
GetFileInformationByHandleEx ==
    Function(Effect({"Answer"}),
        <<Refuses,
          Step({}, {Fails({}), Finishes("Answer"), Goes(Onward)}),
          Step({}, {Fails({}), Goes(4), Goes(6)}),
          Step({}, {Finishes("Answer"), Goes(Success), Goes(Onward), Fails({})}),
          Step({}, {Fails({})}),
          Step({}, {Finishes("Answer"), Fails({})})>>)

-----------------------------------------------------------------------------
(* Pipes.  PeekNamedPipe waits on an event of its own.                     *)
PeekNamedPipe ==
    LET all == Block({"OutBuf"}) \cup Handle({"EventHandle"}) IN
    Function(Effect({"Answer"}),
        <<Takes(Block({"OutBuf"}), {}, {}),
          Takes(Handle({"EventHandle"}), {}, Block({"OutBuf"})),
          Step(all, {Outcome(Effect({"Answer"}), {}, "No", 5), Goes(Onward), Fails(all)}),
          Step(all, {Gets(Effect({"Answer"})), Fails(all)}),
          Returns(all),
          Succeeds>>)

CreateNamedPipeW ==
    Function(Handle({"PipeHandle"}),
        <<Path("NtPath", {}),
          Step({}, {Goes(Onward), Fails(String({"NtPath"}))}),      \* the open mode
          Takes(Handle({"PipeHandle"}), String({"NtPath"}), String({"NtPath"})),
          Returns(String({"NtPath"})),
          Step({}, {Outcome({}, {}, "After", Success)})>>)

-----------------------------------------------------------------------------
(* Links.  A target without NT path is let through with an empty one; a    *)
(* link that cannot be made one is deleted, if that succeeds.              *)
\* as if a file that cannot be made a link were closed and left there
BadCreateSymbolicLinkW ==
    Function(Effect({"LinkFile", "ReparsePoint"}),
        <<Refuses,
          Path("NtLink", {}),
          Takes(Handle({"FileHandle"}) \cup Effect({"LinkFile"}), String({"NtLink"}),
                String({"NtLink"})),
          Returns(String({"NtLink"})),
          Takes(Effect({"ReparsePoint"}), Handle({"FileHandle"}), Handle({"FileHandle"})),
          Returns(Handle({"FileHandle"})),
          Succeeds>>)

CreateSymbolicLinkW ==
    LET target == String({"NtTarget"})
        all == Handle({"FileHandle"}) \cup Block({"ReparseBuf"}) IN
    Function(Effect({"LinkFile", "ReparsePoint"}),
        <<Refuses, Refuses,
          Tries(target, {}),
          Step({}, {Gets(Block({"ReparseBuf"})), If(target, Fails(target)),
                    Unless(target, Fails({}))}),
          Step({}, {If(target, Gives(target)), Unless(target, Goes(Onward))}),
          Path("NtLink", Block({"ReparseBuf"})),
          Takes(Handle({"FileHandle"}) \cup Effect({"LinkFile"}), String({"NtLink"}),
                String({"NtLink"}) \cup Block({"ReparseBuf"})),
          Returns(String({"NtLink"})),
          Step(all, {Outcome(Effect({"ReparsePoint"}), {}, "No", 11),
                     Outcome({}, {}, "After", Onward)}),
          Step(all, {FailsMute(all \cup Effect({"LinkFile"})),
                     Outcome(Effect({"Refused"}), all, "No", Failure)}),
          Returns(all),
          Succeeds>>)

(* The path buffers go to RtlFreeHeap.                                     *)
CreateHardLinkW ==
    LET all == Handle({"FileHandle"}) \cup Block({"LinkInfo", "NtLink", "NtExisting"}) IN
    Function(Effect({"HardLink"}),
        <<Refuses,
          Path("NtExisting", {}),
          Step(String({"NtExisting"}),
              {Gets(Handle({"FileHandle"})), FailsTold(Block({"NtExisting"}))}),
          Path("NtLink", Handle({"FileHandle"}) \cup Block({"NtExisting"})),
          Takes(Block({"LinkInfo"}), {},
                Handle({"FileHandle"}) \cup Block({"NtExisting", "NtLink"})),
          Takes(Effect({"HardLink"}), Handle({"FileHandle"}) \cup Block({"LinkInfo"}), all),
          Returns(all),
          Succeeds>>)

-----------------------------------------------------------------------------
(* GetFinalPathNameByHandleW: two buffers, each exchanged for a larger one *)
(* as long as it is too small.                                             *)
GetFinalPathNameByHandleW ==
    LET object == Block({"ObjBuf"})
        both == Block({"ObjBuf", "FileNameBuf"}) IN
    Function(Effect({"Answer"}),
        <<Refuses, Refuses,
          Takes(object, {}, {}),
          Step(object, {Goes(Onward), Leads(object, 3), Fails(object)}),
          Takes(Block({"FileNameBuf"}), {}, object),
          Step(both, {Gets(Effect({"Answer"})), Leads(Block({"FileNameBuf"}), 5), Fails(both)}),
          Returns(both),
          Succeeds>>)

(* The path buffer goes to RtlFreeHeap.  A file that is not found is told, *)
(* and then told as a path that is not (step 6).                           *)
GetDiskFreeSpaceExW ==
    Function(Effect({"Answer"}),
        <<Path("NtPathName", {}),
          Step(String({"NtPathName"}),
              {Gets(Handle({"FileHandle"})), FailsTold(Block({"NtPathName"})),
               Outcome({}, {}, "After", 6)}),
          Returns(Block({"NtPathName"})),
          Step(Handle({"FileHandle"}),
              {Outcome(Effect({"Answer"}), Handle({"FileHandle"}), "No", Success), Goes(Onward)}),
          Step(Handle({"FileHandle"}),
              {Outcome(Effect({"Answer"}), Handle({"FileHandle"}), "No", Success),
               Fails(Handle({"FileHandle"}))}),
          Step({}, {FailsTold(Block({"NtPathName"}))})>>)

-----------------------------------------------------------------------------
(* CopyFile2 answers with a status of its own.  Steps 5 and 6 read and     *)
(* write; a write that is cut short reports the last error there was,      *)
(* which may be none.  Steps 9 and 10 take back the destination by name;   *)
(* without a buffer (step 4) it stays.                                     *)
CopyFile2 ==
    LET all == Block({"CopyBuf"}) \cup Handle({"hSource", "hDest"}) IN
    Function(Effect({"Destination", "Copied"}),
        <<Step({}, {Goes(Onward), FailsMute({})}),
          Step({}, {Gets(Handle({"hSource"})), FailsMute({})}),
          Step({}, {Gets(Handle({"hDest"}) \cup Effect({"Destination"})),
                    FailsMute(Handle({"hSource"}))}),
          Step({}, {Gets(Block({"CopyBuf"})), FailsMute(Handle({"hSource", "hDest"}))}),
          Step(all, {Goes(Onward), Outcome(Effect({"Copied"}), {}, "No", 7), Goes(9)}),
          Step(all, {Goes(5), Goes(7), Goes(9)}),
          Returns(all),
          Succeeds,
          Returns(all),
          Step({}, {Gives(Effect({"Destination"})), Gets(Effect({"Refused"}))}),
          Step({}, {FailsMute({})})>>)

(* CreateDirectoryExW: whatever goes wrong with the template, the          *)
(* directory is there.  The path buffers go to RtlFreeHeap.                *)
CreateDirectoryExW ==
    LET template == Block({"NtTemplate"}) IN
    Function(Effect({"Directory"}),
        <<Takes(Effect({"Directory"}), {}, {}),                     \* CreateDirectoryW
          Choice({3, 11}),
          Step({}, {Gets(String({"NtTemplate"})), Goes(Success)}),
          Step(String({"NtTemplate"}), {Gets(Handle({"TemplateHandle"})), Leads(template, Success)}),
          Step(Handle({"TemplateHandle"}), {Gives(template), Leads(template, 10)}),
          Step({}, {Gets(String({"NtNew"})), Goes(10)}),
          Step(String({"NtNew"}), {Gets(Handle({"NewHandle"})), Goes(9)}),
          Returns(Handle({"NewHandle"})),
          Returns(Block({"NtNew"})),
          Returns(Handle({"TemplateHandle"})),
          Succeeds>>)
=============================================================================
