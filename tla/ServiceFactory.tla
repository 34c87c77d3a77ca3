---------------------------- MODULE ServiceFactory ----------------------------
(***************************************************************************)
(* UServiceFactory (src/internal/ServiceFactory.cpp): loads the libraries  *)
(* of the core and the extending services, makes services with them and    *)
(* destroys them by the same path.  An agent gets the service it is booted *)
(* with and keeps it until CleanUp or its own destruction.                 *)
(*                                                                         *)
(* A file is a library with a directory and a name, one entry of its map;  *)
(* an agent stands for the service instance made for it, since it has one. *)
(***************************************************************************)
EXTENDS Naturals, FiniteSetsExt

CONSTANTS
    CoreFiles, ExtendFiles, \* libraries in the two directories
    Broken,                 \* those that cannot be loaded
    NoSymbols,              \* those without CreateInstance, DestroyInstance
    Agents,
    None

ASSUME FilesAssumption ==
    Broken \cup NoSymbols \subseteq CoreFiles \cup ExtendFiles

Files == CoreFiles \cup ExtendFiles

\* None and the names of LoadService's variables are not files or agents.
ASSUME NamesAssumption ==
    /\ None \notin Files \cup Agents
    /\ Files \cap {"library", "entry"} = {}

VARIABLES
    pending,        \* files in the directories that are not loaded yet
    file,           \* the file it is at, or None
    libraries,      \* the FSharedLibrary objects
    path,           \* the path of each agent's service, or None
    handles,        \* the FServiceHandle objects
    factory         \* "new", "loaded", "threw", "gone"

factoryVars == <<pending, file, libraries, path, handles, factory>>

\* LoadService's variable, the entry it inserts, and what the maps keep.
Lib == INSTANCE SharedLibrary WITH
    Objects <- Files \cup {"library", "entry"}, Blocks <- Files, Null <- None

\* BootService's variable, and mService of the agent.
Own == INSTANCE OwningHandle WITH
    Handles <- Agents \X {"boot", "agent"}, Instances <- Agents, Nothing <- None

FactoryInit ==
    /\ pending \in SUBSET Files
    /\ file = None
    /\ libraries = Lib!NoLibraries
    /\ path = [a \in Agents |-> None]
    /\ handles = Own!NoHandles
    /\ factory = "new"

----------------------------------------------------------------------------
\* LoadService: core first; a library that cannot be loaded throws.
LoadLibrary ==
    /\ factory = "new" /\ file = None
    /\ \E f \in pending :
        /\ f \in CoreFiles \/ pending \cap CoreFiles = {}
        /\ IF f \in Broken
           THEN factory' = "threw" /\ UNCHANGED <<pending, file, libraries>>
           ELSE /\ pending' = pending \ {f}
                /\ file' = f
                /\ libraries' = Lib!Load(libraries, "library", f)
                /\ UNCHANGED factory
    /\ UNCHANGED <<path, handles>>

\* Mutant: the entry takes the library without counting.
InsertEntryUncounted ==
    /\ factory = "new" /\ file # None
    /\ libraries' = Lib!Release(IF file \in NoSymbols THEN libraries
                                ELSE Lib!Points(libraries, file, file), "library")
    /\ file' = None
    /\ UNCHANGED <<pending, path, handles, factory>>

\* The entry is a copy of the variable, and moved into the map; the variable
\* goes at the end of the iteration.
InsertEntry ==
    /\ factory = "new" /\ file # None
    /\ LET entry == Lib!Copy(libraries, "entry", "library")
           kept == Lib!Release(Lib!MoveAssign(entry, file, "entry"), "entry") IN
        libraries' = Lib!Release(IF file \in NoSymbols THEN libraries ELSE kept,
                                 "library")
    /\ file' = None
    /\ UNCHANGED <<pending, path, handles, factory>>

LoadDone ==
    /\ factory = "new" /\ file = None /\ pending = {}
    /\ factory' = "loaded"
    /\ UNCHANGED <<pending, file, libraries, path, handles>>

\* The files that have an entry.
Entries == {f \in Files : Lib!IsValid(libraries, f)}

\* CreateInstance with a path that has an entry.
CreateInstance(a, f) ==
    /\ factory = "loaded" /\ path[a] = None
    /\ f \in Entries
    /\ path' = [path EXCEPT ![a] = f]
    /\ handles' = Own!Construct(handles, <<a, "boot">>, a)
    /\ UNCHANGED <<pending, file, libraries, factory>>

\* Mutant: the handle that is moved keeps what it had.
SetUpServiceKeeps(a) ==
    /\ Own!Owns(handles, <<a, "boot">>)
    /\ handles' = Own!Release(Own!Construct(handles, <<a, "agent">>, a), <<a, "boot">>)
    /\ UNCHANGED <<pending, file, libraries, path, factory>>

\* SetUpService: the agent takes the handle, which goes with BootService.
SetUpService(a) ==
    /\ Own!Owns(handles, <<a, "boot">>)
    /\ handles' = Own!Release(Own!MoveAssign(handles, <<a, "agent">>, <<a, "boot">>),
                              <<a, "boot">>)
    /\ UNCHANGED <<pending, file, libraries, path, factory>>

\* DestroyInstance by its path: not by a factory, nor with a library, that is
\* gone.
CanDestroy(a) == factory = "loaded" /\ path[a] \in Entries

\* mService.Release(), or the destructor of the agent.
ReleaseService(a) ==
    /\ CanDestroy(a)
    /\ handles' = Own!Release(handles, <<a, "agent">>)
    /\ UNCHANGED <<pending, file, libraries, path, factory>>

\* The destructor: every entry goes.
FactoryGone ==
    /\ factory' = "gone"
    /\ libraries' = FoldSet(LAMBDA f, l : Lib!Release(l, f), libraries, Files)
    /\ UNCHANGED <<pending, file, path, handles>>

----------------------------------------------------------------------------
\* A service has one owner until it is destroyed, once, and its library is
\* loaded from its creation to its end, or the end of the factory.
ServicesHaveTheirLibrary ==
    /\ Own!OneOwner(handles)
    /\ \A a \in Agents :
        path[a] # None /\ handles.destroyed[a] = 0 /\ factory # "gone" =>
            /\ path[a] \in libraries.loaded
            /\ \E h \in Agents \X {"boot", "agent"} : handles.owned[h] = a
=============================================================================
