---------------------------- MODULE LibraryCalls ----------------------------
(***************************************************************************)
(* The functions on loaded images and their resources, on messages, on     *)
(* text and on memory blocks: Ntdll.LibraryLoader(.ProcAddr), Ntdll.Image, *)
(* Ntdll.Debug, Ntdll.Pool, Ntdll.Synchronize.CriticalSection, and         *)
(* KernelBase.LibraryLoader, .FileVersion, .Debug, .NLS.  An exception a   *)
(* handler turns into a status is one of the outcomes of its step.         *)
(***************************************************************************)
EXTENDS CallSteps

(* Data files: a view of the file, which needs neither section nor file    *)
(* once it is there.                                                       *)
LdrLoadDataFile ==
    LET file == Handle({"FileHandle"})
        section == Object({"SectionObject"}) IN
    Function(View({"DllHandle"}),
        <<Step({}, {Goes(Onward), FailsMute({})}),
          Step({}, {Gets(file), FailsMute({})}),
          Step(file, {Gets(section), FailsMute(file)}),
          Step(section, {Gets(View({"DllHandle"})), FailsMute(section \cup file)}),
          Returns(section),
          Returns(file),
          Succeeds>>)

(* Here the view comes from the caller.                                    *)
LdrUnloadDataFile ==
    Function({}, <<Step({}, {Gets(View({"DllHandle"})), FailsMute({})}),
                   Returns(View({"DllHandle"})), Succeeds>>)

(* The directory of known modules, the one for 32 bits if asked for and    *)
(* there, and a section in it.                                             *)
LdrGetKnownDllSectionHandle ==
    LET directory == Handle({"DirectoryHandle"}) IN
    Function(Handle({"Section"}),
        <<Step({}, {Outcome(directory, {}, "No", 3), Goes(Onward), FailsMute({})}),
          Step({}, {Gets(directory), FailsMute({})}),
          Step(directory, {Goes(Onward), FailsMute(directory)}),
          Step(directory, {Outcome(Handle({"Section"}), directory, "No", Success),
                           FailsMute(directory)})>>)

(* The second outcome: an export at the base address is none.              *)
LdrGetProcedureAddressForCaller ==
    Function(Effect({"Address"}), <<Step({}, {Finishes("Address"), FailsMute({})})>>)
GetProcAddress ==
    Function(Effect({"Address"}), <<Asks({}, {}), Step({}, {Finishes("Address"), Fails({})})>>)
LoadLibraryExA == Function({}, <<Step({}, {Fails({})})>>)

-----------------------------------------------------------------------------
(* Resources.  A name is copied in upper case; an id or "#id" is not.  An  *)
(* exception while the copy is made leaves the copy behind.                *)
RtlMapResourceId ==
    Function({},
        <<Step({}, {Goes(Success), Gets(Block({"String"})), FailsMute({})}),
          Step(Block({"String"}), {Goes(Success), FailsMute({})})>>)

RtlFindResource ==
    LET type == Block({"Type"})
        name == Block({"Name"})
        both == type \cup name
        Unmapped(ends(_)) == {[o EXCEPT !.unless = (both \ o.when)] :
                                  o \in {If(held, ends(held)) : held \in SUBSET both}}
        Found(held) == Outcome(Effect({"Resource"}), held, "No", Success)
    IN Function(Effect({"Resource"}),
        <<Step({}, {Goes(Onward), Gets(type), FailsMute({})}),
          Step({}, {Goes(Onward), Gets(name)} \cup Releasing(type, FailsMute)),
          Step({}, Unmapped(Found) \cup Unmapped(FailsMute))>>)

RtlLoadResource ==
    Function(Effect({"Resource"}), <<Step({}, {Finishes("Resource"), FailsMute({})})>>)

(* Versions: load, find, read, unload.  A buffer that is too short is      *)
(* filled, told, and no failure.                                           *)
Version(ends) ==
    Function(Effect({"Answer"}),
        <<Takes(View({"DllHandle"}), {}, {}),
          Asks(View({"DllHandle"}), View({"DllHandle"})),
          Asks(View({"DllHandle"}), View({"DllHandle"})),
          Step(View({"DllHandle"}), ends)>>)

GetFileVersionInfoExW ==
    Version({Outcome(Effect({"Answer"}), View({"DllHandle"}), told, Success) : told \in {"No", "After"}}
            \cup {Fails(View({"DllHandle"}))})

GetFileVersionInfoSizeW ==
    Version({Outcome(Effect({"Answer"}), View({"DllHandle"}), "No", Success)})

VerQueryValueW == Function(Effect({"Answer"}), <<Step({}, {Goes(1), Finishes("Answer"), Fails({})})>>)

-----------------------------------------------------------------------------
(* Messages.  RtlFindAndFormatMessage: a format, converted if it is not    *)
(* wide; a buffer, exchanged for a larger one until it suffices, and then  *)
(* the caller's, if it asked for one, or copied and freed.                 *)
BadRtlFindAndFormatMessage ==
    LET message == String({"UnicodeMessage"})
        buffer == Block({"AllocatedBuffer"})
    IN Function(Effect({"Answer"}),
        <<Step({}, {Goes(Onward), FailsMute({})}),
          Step({}, {Goes(Onward), FailsMute({})}),
          Step({}, {Goes(Onward), Gets(message), FailsMute({})}),
          Step({}, {Gets(buffer)} \cup Releasing(message, FailsMute)),
          Step(buffer, {Goes(Onward), Leads({}, 4)}
                       \cup Releasing(message, LAMBDA d : FailsMute(d \cup buffer))),
          Step(buffer,
               Releasing(message, LAMBDA d : Outcome(Effect({"Answer"}), d \cup buffer, "No", Success))
               \cup Releasing(message, LAMBDA d : FailsMute(d \cup buffer)))>>)

RtlFindAndFormatMessage ==
    LET message == String({"UnicodeMessage"})
        buffer == Block({"AllocatedBuffer"})
    IN Function(Effect({"Answer"}),
        <<Step({}, {Goes(Onward), FailsMute({})}),
          Step({}, {Goes(Onward), FailsMute({})}),
          Step({}, {Goes(Onward), Gets(message), FailsMute({})}),
          Step({}, {Gets(buffer)} \cup Releasing(message, FailsMute)),
          Step(buffer, {Goes(Onward), Leads(buffer, 4)}
                       \cup Releasing(message, LAMBDA d : FailsMute(d \cup buffer))),
          Step(buffer,
               Releasing(message, LAMBDA d : Outcome(Effect({"Answer"}), d \cup buffer, "No", Success))
               \cup Releasing(message, LAMBDA d : FailsMute(d \cup buffer)))>>)

(* FormatMessageA and FormatMessageW answer with the size, which is the    *)
(* caller's when something fails: a failure that says success.             *)
Stops(drops) == {Fails(drops), Outcome({}, drops, "After", Success)}

(* Into the caller's buffer (steps 3 and 4) the wide text is handed on     *)
(* with length zero, so that the answer is empty and FALSE; into one of    *)
(* its own (steps 5 and 6) it becomes a narrow string, the caller's.       *)
(* Without a buffer the converted source stays behind (step 2).            *)
FormatMessageA ==
    LET source == String({"UnicodeString"})
        buffer == Block({"UnicodeBuffer"})
        StopsWith(drops) == {If(source, o) : o \in Stops(drops \cup source)}
                            \cup {Unless(source, o) : o \in Stops(drops)}
    IN Function(Effect({"Answer"}),
        <<Step({}, {Goes(Onward), Gets(source)} \cup Stops({})),
          Step({}, {Gets(buffer), Goes(5)} \cup Stops({})),
          Step(buffer, Releasing(source, Gives) \cup StopsWith(buffer)),
          Step(buffer, {FailsMute(buffer)} \cup Stops(buffer)),
          Step({}, Releasing(source, LAMBDA d : Outcome(buffer, d, "No", 6)) \cup StopsWith({})),
          Step(buffer, {Outcome(Effect({"Answer"}), buffer, "No", Success)} \cup Stops(buffer))>>)

FormatMessageW ==
    Function(Effect({"Answer"}),
        <<Step({}, {Goes(Onward)} \cup Stops({})), Step({}, {Finishes("Answer")} \cup Stops({}))>>)

-----------------------------------------------------------------------------
(* Memory blocks and locks: what was allocated for an object goes back when *)
(* the object cannot be made.                                              *)
RtlCreateMemoryBlockLookaside ==
    Function(Lookaside({"MemoryBlockLookaside", "List"}),
        <<Step({}, {Goes(Onward), FailsMute({})}),
          Step({}, {Gets(Lookaside({"MemoryBlockLookaside"})), FailsMute({})}),
          Step(Lookaside({"MemoryBlockLookaside"}),
              {Gets(Lookaside({"List"})), FailsMute(Lookaside({"MemoryBlockLookaside"}))}),
          Succeeds>>)

(* Here the list comes from the caller.                                    *)
RtlDestroyMemoryBlockLookaside ==
    Function({},
        <<Step({}, {Gets(Lookaside({"MemoryBlockLookaside", "List"})), Goes(Success)}),
          Returns(Lookaside({"List"})), Returns(Lookaside({"MemoryBlockLookaside"})), Succeeds>>)

RtlInitializeCriticalSectionEx ==
    Function(Block({"LockSemaphore"}) \cup Object({"Resource"}),
        <<Step({}, {Gets(Block({"LockSemaphore"})), FailsMute({})}),
          Step(Block({"LockSemaphore"}),
              {Gets(Object({"Resource"})), FailsMute(Block({"LockSemaphore"}))}),
          Succeeds>>)

-----------------------------------------------------------------------------
(* Text.  Step 2 is for the ANSI and the OEM code page, steps 3 to 5 for   *)
(* UTF-8, which converts into a buffer of its own to learn the length.     *)
(* A buffer of the caller that is too small is answered with 0 and nothing *)
(* told.                                                                   *)
Transcodes ==
    LET temporary == Block({"TempBuffer"})
        Into == {Finishes("Answer"), FailsMute({}), Fails({})}
    IN Function(Effect({"Answer"}),
        <<Step({}, {Goes(2), Goes(3), Fails({})}),
          Step({}, Into),
          Takes(temporary, {}, {}),
          Step(temporary, {Leads(temporary, 5), Fails(temporary)}),
          Step({}, Into)>>)

MultiByteToWideChar == Transcodes
WideCharToMultiByte == Transcodes

GetCPInfo == Service("Answer")
GetCPInfoExW == Guarded(Service("Answer"))

(* A buffer that is too small is told, and answered with the length.       *)
GetDateFormatEx ==
    Function(Effect({"Answer"}),
        <<Refuses, Step({}, {Finishes("Answer"), Outcome({}, {}, "After", Success)})>>)
GetTimeFormatEx == GetDateFormatEx
=============================================================================
