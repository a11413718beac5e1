---------------------------- MODULE ScratchSetup ----------------------------
(***************************************************************************)
(* How the Buck test runner (private_root) and the artifact adapter        *)
(* (prepare_scratch, unique_root) make their scratch directories under one *)
(* BUCK_SCRATCH_PATH: the missing components of the path are created one   *)
(* by one, by whoever finds them missing, then each process creates a root *)
(* of its own, and removes it at its end.  One system call is one step.    *)
(***************************************************************************)
EXTENDS Naturals

CONSTANTS
    Owners,     \* the processes
    Adapters,   \* those that run the artifact adapter
    Depth,      \* components of the path
    Stamps,     \* values of the clock
    Attempts,   \* how many names are tried: 1000
    NoName      \* nobody, no name

ASSUME ScratchAssumption ==
    /\ Adapters \subseteq Owners
    /\ Depth \in Nat \ {0} /\ Attempts \in Nat \ {0}
    /\ NoName \notin Owners

VARIABLES
    at,         \* the call each process makes next, or how it ended
    level,      \* the component it is at
    attempt,    \* how many names for its root were taken
    root,       \* the name of its root
    depth,      \* how many components exist
    maker,      \* who created each component, or NoName
    roots       \* the roots in the scratch directory

walk == <<level, depth, maker>>
naming == <<attempt, root, roots>>
scratchVars == <<at, walk, naming>>

\* "buck2-nextest-test.<stamp>.<attempt>", or "buck2-nextest-buck-artifact."
RootName(o, stamp) ==
    [by |-> IF o \in Adapters THEN "artifact" ELSE "runner", stamp |-> stamp, attempt |-> attempt[o]]
Taken(name) == \E d \in roots : d.name = name

SInit ==
    /\ at = [o \in Owners |-> "looking"]
    /\ level = [o \in Owners |-> 1]
    /\ attempt = [o \in Owners |-> 0]
    /\ root = [o \in Owners |-> NoName]
    /\ depth \in 0..Depth
    /\ maker = [l \in 1..Depth |-> NoName]
    /\ roots = {}

Go(o, from, to) == at[o] = from /\ at' = [at EXCEPT ![o] = to]

\* The component is there, and so the next one is looked at.
Enter(o, from) ==
    /\ Go(o, from, IF level[o] = Depth THEN "naming" ELSE "looking")
    /\ level' = [level EXCEPT ![o] = @ + 1]

-----------------------------------------------------------------------------
(* The components.                                                         *)

\* symlink_metadata, or openat, of the component.
Found(o) == Enter(o, "looking") /\ level[o] <= depth /\ UNCHANGED <<depth, maker, naming>>
Missing(o) == Go(o, "looking", "making") /\ level[o] > depth /\ UNCHANGED <<walk, naming>>

Created(o) ==
    /\ level[o] > depth
    /\ depth' = level[o]
    /\ maker' = [maker EXCEPT ![level[o]] = o]
    /\ UNCHANGED naming

\* Mutant: the component just created is created once more.
MakeAgain(o) == Go(o, "making", "making") /\ Created(o) /\ UNCHANGED level

\* create_dir or mkdirat
Make(o) == Enter(o, "making") /\ Created(o)

\* Another process has made it by now.  The adapter opens what is there ...
MakeLate(o) ==
    /\ Enter(o, "making")
    /\ o \in Adapters
    /\ level[o] <= depth
    /\ UNCHANGED <<depth, maker, naming>>

\* ... and the runner gives up.
MakeLost(o) ==
    /\ Go(o, "making", "lost")
    /\ o \notin Adapters
    /\ level[o] <= depth
    /\ UNCHANGED <<walk, naming>>

\* A component is no directory, or a call fails in another way.
WalkFails(o) == \E from \in {"looking", "making", "naming"} :
    Go(o, from, "failed") /\ UNCHANGED <<walk, naming>>

-----------------------------------------------------------------------------
(* The root.                                                               *)

Own(o, name) ==
    /\ roots' = roots \cup {[name |-> name, owner |-> o]}
    /\ root' = [root EXCEPT ![o] = name]
    /\ UNCHANGED <<walk, attempt>>

\* Mutant: a directory that exists already will do.
MakeRootAnyway(o, stamp) == Go(o, "naming", "ready") /\ Own(o, RootName(o, stamp))

MakeRoot(o, stamp) ==
    /\ Go(o, "naming", "ready")
    /\ ~Taken(RootName(o, stamp))
    /\ Own(o, RootName(o, stamp))

\* The root exists and cannot be made private, or opened again: it stays.
MakeRootFails(o, stamp) ==
    /\ Go(o, "naming", "failed")
    /\ ~Taken(RootName(o, stamp))
    /\ Own(o, RootName(o, stamp))

\* The name is in use, and another one is tried, if any is left.
TryNext(o, stamp) ==
    /\ Taken(RootName(o, stamp))
    /\ Go(o, "naming", IF attempt[o] + 1 = Attempts THEN "failed" ELSE "naming")
    /\ attempt' = [attempt EXCEPT ![o] = @ + 1]
    /\ UNCHANGED <<walk, root, roots>>

\* remove_dir_all at the end, whoever's directory has the name; or it fails.
RemoveRoot(o) ==
    /\ Go(o, "ready", "removed")
    /\ roots' \in {roots, {d \in roots : d.name # root[o]}}
    /\ UNCHANGED <<walk, attempt, root>>

\* Process o gets itself a root.
SetUp(o) ==
    \/ Found(o) \/ Missing(o) \/ Make(o) \/ MakeLate(o) \/ MakeLost(o) \/ WalkFails(o)
    \/ \E stamp \in Stamps : MakeRoot(o, stamp) \/ MakeRootFails(o, stamp) \/ TryNext(o, stamp)

-----------------------------------------------------------------------------
(* Correctness.                                                            *)

Places == {"looking", "making", "lost", "naming", "ready", "failed", "removed"}
RootNames == [by : {"runner", "artifact"}, stamp : Stamps, attempt : 0..(Attempts - 1)]

\* Every variable holds a value of its type.
STypeOK ==
    /\ at \in [Owners -> Places]
    /\ level \in [Owners -> 1..(Depth + 1)]
    /\ attempt \in [Owners -> 0..Attempts]
    /\ root \in [Owners -> RootNames \cup {NoName}]
    /\ depth \in 0..Depth
    /\ maker \in [1..Depth -> Owners \cup {NoName}]
    /\ roots \subseteq [name : RootNames, owner : Owners]

\* A process works in a root that is there, that it created itself, and that
\* nobody else works in or will remove.
RootsAreOwn ==
    \A o \in Owners : at[o] = "ready" =>
        /\ [name |-> root[o], owner |-> o] \in roots
        /\ \A p \in Owners \ {o} : at[p] = "ready" => root[p] # root[o]

\* A runner gives up when another process is faster at a component.  But not
\* all of them do: whoever made the deepest component has not given up.
NotEveryoneLoses ==
    \A o \in Owners : depth > 0 /\ maker[depth] = o => at[o] # "lost"

-----------------------------------------------------------------------------
(* The inductive invariant behind these properties.                        *)

\* Nobody looks past the first missing component, nor past the last one or the
\* last attempt, and the maker of the deepest one is past it.
WalkInv ==
    /\ \A o \in Owners : level[o] <= depth + 1
    /\ \A o \in Owners : at[o] \in {"looking", "making"} => level[o] <= Depth
    /\ \A o \in Owners : at[o] \in {"looking", "making", "naming"} => attempt[o] < Attempts
    /\ \A o \in Owners : depth > 0 /\ maker[depth] = o => level[o] = depth + 1 /\ at[o] # "lost"

\* A name is one directory's, and a process that works has its own.
RootInv ==
    /\ \A d, e \in roots : d.name = e.name => d = e
    /\ \A o \in Owners : at[o] = "ready" => [name |-> root[o], owner |-> o] \in roots

SetupInv == STypeOK /\ WalkInv /\ RootInv
=============================================================================
