--------------------------- MODULE FileDescriptor ---------------------------
(***************************************************************************)
(* base::FileDescriptor on POSIX: the owner of one number of the process's *)
(* table of open files.  What a number refers to is the kernel's affair;   *)
(* the object has only the number, and a number that was closed is given   *)
(* to whoever opens the next file.                                         *)
(*                                                                         *)
(* The operators are parts of the actions of a module that has such        *)
(* objects.                                                                *)
(***************************************************************************)
EXTENDS Integers

CONSTANTS
    Objects, \* the FileDescriptor objects
    Others,  \* the files that the rest of the process opens and closes
    None,    \* no number, no file
    Limit    \* the limit of open files

ASSUME DescriptorAssumption ==
    /\ Limit \in Nat \ {0}
    /\ None \notin Objects \cup Others \cup Int
    /\ Objects \cap Others = {}

VARIABLES
    impl,  \* impl[o]: the number in FileDescriptor::impl, None if impl is null
    files, \* files[n]: the file n refers to
    scarce \* the system has as many files open as it may: ENFILE

descriptors == <<impl, files, scarce>>

Numbers == 0 .. Limit - 1
Unused == {n \in Numbers : files[n] = None}

\* EMFILE: open, socket and accept fail, before they look at the limit of the system.
Exhausted == Unused = {}

\* A call that opens a file succeeds.
CanOpen == ~Exhausted /\ ~scarce

\* What a call returns that opens a file: the lowest number there is.
Lowest == CHOOSE n \in Unused : \A m \in Unused : n <= m

\* -1 in an impl.
Bad == -1

-----------------------------------------------------------------------------
\* FileDescriptor(fd) on what a call has just opened; socket.
Opens(o) ==
    /\ CanOpen
    /\ files' = [files EXCEPT ![Lowest] = o]
    /\ impl' = [impl EXCEPT ![o] = Lowest]
    /\ UNCHANGED scarce

\* close, and the destructor of an object that has an impl.  Closing -1 fails, and
\* is logged.
Closes(o) ==
    /\ impl[o] # None
    /\ files' = [n \in Numbers |-> IF n = impl[o] THEN None ELSE files[n]]
    /\ impl' = [impl EXCEPT ![o] = None]
    /\ UNCHANGED scarce

\* FileDescriptor(-1) in a build without assertions, after a call that failed.
OpensBad(o) ==
    /\ ~CanOpen
    /\ impl' = [impl EXCEPT ![o] = Bad]
    /\ UNCHANGED <<files, scarce>>

\* The rest of the process.
OtherOpens(f) ==
    /\ CanOpen /\ \A n \in Numbers : files[n] # f
    /\ files' = [files EXCEPT ![Lowest] = f]
    /\ UNCHANGED <<impl, scarce>>

OtherCloses(f) ==
    \E n \in Numbers :
        /\ files[n] = f
        /\ files' = [files EXCEPT ![n] = None]
        /\ UNCHANGED <<impl, scarce>>

\* The rest of the system opens its last file, or closes one.
SystemLimit == scarce' = ~scarce /\ UNCHANGED <<impl, files>>

-----------------------------------------------------------------------------
DescriptorsOK ==
    /\ impl \in [Objects -> Numbers \cup {None, Bad}]
    /\ files \in [Numbers -> Objects \cup Others \cup {None}]
    /\ scarce \in BOOLEAN

\* The number of an object refers to its own file, and every file of an object is
\* held by it: no number is closed by two, none is forgotten.
OwnFile(o, n) == impl[o] = n <=> files[n] = o
=============================================================================
