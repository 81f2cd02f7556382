------------------------------- MODULE DirTree -------------------------------
(***************************************************************************)
(* The storage driver of storage/storage_dirtree.c: objects in a tree of   *)
(* directories that the tasks make as they need them and that the parent   *)
(* removes recursively.  Tasks may share directories (those of clients     *)
(* with equal low halves, those of objects with equal high halves), so     *)
(* each system call is a step.  The parent starts to remove when the tasks *)
(* have ended, as module Motif shows.                                      *)
(***************************************************************************)
EXTENDS Integers, Sequences, FiniteSets, SequencesExt

CONSTANTS
  Clients,    \* the tasks' client identifiers, as pairs <<high half, low half>>
  ObjIds,     \* the identifiers each task writes, in order, as such pairs
  OpenMax,    \* the directories the parent may have open (RLIMIT_NOFILE)
  MaxFaults   \* at most this many system calls fail of themselves

ASSUME DirTreeAssumption ==
  /\ Clients # {} /\ Clients \subseteq Nat \X Nat
  /\ ObjIds \in Seq(Nat \X Nat) /\ ObjIds # <<>>
  /\ OpenMax \in Nat \ {0}
  /\ MaxFaults \in Nat

VARIABLES
  parent,     \* where the parent is
  cwd,        \* its working directory
  stack,      \* its calls of storage_dirtree_rmdir that have a directory open
  workspace,  \* what is at the workspace's path
  dirs,       \* the directories in it, by path
  sealed,     \* those of them that cannot be entered
  links,      \* the symbolic links in it: the directory each leads to
  files,      \* each object's file, and somebody's own
  outside,    \* the files in a directory that is not of the workspace
  task,       \* where each task is in its loops
  k,          \* the object it is at
  existed,    \* history: whether there was a file when its write began
  ok,         \* history: the results of its writes
  lost,       \* history: whether getcwd has failed in storage_dirtree_rmdir
  faults      \* history: how many faults there have been

treeVars == <<workspace, dirs, sealed, links, files>>
parentVars == <<parent, cwd, stack, outside, lost>>
taskVars == <<task, k, existed, ok>>
vars == <<parent, cwd, stack, workspace, dirs, sealed, links, files, outside,
          task, k, existed, ok, lost, faults>>

-----------------------------------------------------------------------------
(* Paths: the sequence of names from the workspace. *)

Root == <<>>
Home == << <<"home">> >>    \* the parent's own working directory
Elsewhere == << <<"elsewhere">> >>  \* a directory of somebody's

Dir(n) == <<"dir", n>>
Strange == <<"other">>      \* a file that is not named as an object
Link == <<"link">>          \* a symbolic link to a directory

\* storage_dirtree_pathname: three directories and the file.
Pathname(c, o) == <<Dir(c[2]), Dir(c[1]), Dir(o[1]), <<"obj", c, o>> >>

\* Mutant: the last directory is that of the identifier's low half.
GenLastDirLow(o) == Dir(o[2])

\* storage_dirtree_pathgen's own spelling of the last directory.
GenLastDir(o) == Dir(o[1])

\* storage_dirtree_pathgen: the n-th directory it makes.
GenDir(c, o, n) == SubSeq(<<Dir(c[2]), Dir(c[1]), GenLastDir(o)>>, 1, n)

ObjPaths == {Pathname(c, ObjIds[i]) : c \in Clients, i \in DOMAIN ObjIds}
StrangePaths == {<<Strange>>} \cup {<<Dir(c[2]), Strange>> : c \in Clients}
Tree == {SubSeq(p, 1, n) : p \in ObjPaths, n \in 1 .. 3}
LinkPaths == {<<Link>>}
OutsidePaths == {Append(Elsewhere, Last(p)) : p \in ObjPaths}
Names == {Last(p) : p \in Tree \cup ObjPaths \cup StrangePaths \cup LinkPaths}

\* A directory one can make entries in and look entries up in.
Enterable(d) ==
  /\ workspace = "dir"
  /\ \A n \in 1 .. Len(d) : SubSeq(d, 1, n) \in dirs \ sealed

\* What there is in the workspace, and with what is outside.
Contents == dirs \cup {f \in DOMAIN files : files[f] # "absent"} \cup DOMAIN links
Present == Contents \cup outside

Exists(p) == p \in Present

\* The names in a directory.
Entries(d) == {Last(p) : p \in {q \in Present : Front(q) = d}}

Empty(d) == Entries(d) = {}

Fault == faults < MaxFaults /\ faults' = faults + 1
NoFault == UNCHANGED faults

-----------------------------------------------------------------------------
\* A new run: no workspace, something else at its path, or what an earlier run
\* left: the directories of its first object, one of them perhaps closed to
\* us, that object's file or somebody's file, and a symbolic link to the
\* workspace or out of it.  Outside there is a file that is named as an object.
Init ==
  LET first == Pathname(CHOOSE c \in Clients : TRUE, ObjIds[1])
  IN /\ parent = "create" /\ cwd = Home /\ stack = <<>>
     /\ workspace \in {"none", "dir", "file"}
     /\ dirs \in IF workspace = "dir" THEN {{}, {SubSeq(first, 1, n) : n \in 1 .. 3}}
                                      ELSE {{}}
     /\ sealed \in {{}} \cup {{d} : d \in dirs}
     /\ links \in {<<>>} \cup IF workspace = "dir" THEN [LinkPaths -> {Root, Elsewhere}]
                                                  ELSE {}
     /\ \E there \in {{}} \cup IF dirs = {} THEN {} ELSE {{first}, {<<first[1], Strange>>}} :
          files = [p \in ObjPaths \cup StrangePaths |->
                     IF p \in there THEN "whole" ELSE "absent"]
     /\ outside = {Append(Elsewhere, Last(first))}
     /\ task = [c \in Clients |-> "born"]
     /\ k = [c \in Clients |-> 1]
     /\ existed = [c \in Clients |-> [i \in DOMAIN ObjIds |-> FALSE]]
     /\ ok = [c \in Clients |-> [i \in DOMAIN ObjIds |-> FALSE]]
     /\ lost = FALSE /\ faults = 0

\* storage_dirtree_driver_create; what getcwd fails to note there is felt in
\* DriverDestroyed.
DriverCreate ==
  /\ parent = "create"
  /\ \/ /\ NoFault
        /\ parent' = "wait"
        /\ workspace' = IF workspace = "none" THEN "dir" ELSE workspace
     \/ /\ Fault
        /\ parent' = "failed"
        /\ workspace' \in {workspace, IF workspace = "none" THEN "dir" ELSE workspace}
  /\ UNCHANGED <<cwd, stack, dirs, sealed, links, files, outside, taskVars, lost>>

-----------------------------------------------------------------------------
(* A task. *)

Goto(c, place) == task' = [task EXCEPT ![c] = place]

Path(c) == Pathname(c, ObjIds[k[c]])

\* The end of one round of the write loop, with its result.
WriteReturns(c, result) ==
  /\ ok' = [ok EXCEPT ![c][k[c]] = result]
  /\ IF k[c] < Len(ObjIds) THEN k' = [k EXCEPT ![c] = @ + 1] /\ Goto(c, "open")
                           ELSE k' = [k EXCEPT ![c] = 1] /\ Goto(c, "read")
  /\ UNCHANGED existed

\* storage_dirtree_worker_create: into the workspace, or away with it.
WorkerCreate(c) ==
  /\ parent = "wait" /\ task[c] = "born"
  /\ \/ /\ workspace = "dir" /\ NoFault
        /\ Goto(c, "open")
        /\ UNCHANGED workspace
     \/ /\ IF workspace = "dir" THEN Fault ELSE NoFault
        /\ Goto(c, "done")
        /\ workspace' = IF workspace = "dir" /\ Empty(Root) THEN "none" ELSE workspace
  /\ UNCHANGED <<parentVars, dirs, sealed, links, files, k, existed, ok>>

\* Mutant: without O_EXCL.
CanCreateOver(p) == Enterable(Front(p)) /\ p \notin dirs

CanCreate(p) == Enterable(Front(p)) /\ ~Exists(p)

\* storage_dirtree_write, the first open( O_CREAT|O_EXCL ).
Open(c) ==
  /\ task[c] = "open"
  /\ existed' = [existed EXCEPT ![c][k[c]] = Exists(Path(c))]
  /\ \/ /\ CanCreate(Path(c)) /\ NoFault
        /\ files' = [files EXCEPT ![Path(c)] = "part"]
        /\ Goto(c, "fill")
     \/ /\ IF CanCreate(Path(c)) THEN Fault ELSE NoFault
        /\ Goto(c, "mkdir1")
        /\ UNCHANGED files
  /\ UNCHANGED <<parentVars, workspace, dirs, sealed, links, k, ok>>

Mkdirs == <<"mkdir1", "mkdir2", "mkdir3", "reopen">>

\* Mutant: a directory that is there already is taken for a failure.
MkdirExistsFails(c, n) ==
  LET d == GenDir(c, ObjIds[k[c]], n)
  IN /\ task[c] = Mkdirs[n]
     /\ NoFault
     /\ IF Enterable(Front(d)) /\ ~Exists(d)
          THEN Goto(c, Mkdirs[n + 1]) /\ dirs' = dirs \cup {d} /\ UNCHANGED <<k, existed, ok>>
          ELSE WriteReturns(c, FALSE) /\ UNCHANGED dirs
     /\ UNCHANGED <<parentVars, workspace, sealed, links, files>>

\* storage_dirtree_pathgen, one mkdir, whose result is not looked at: the
\* directory is there already, cannot be made, or is made.
Mkdir(c, n) ==
  LET d == GenDir(c, ObjIds[k[c]], n)
      can == Enterable(Front(d)) /\ ~Exists(d)
  IN /\ task[c] = Mkdirs[n]
     /\ Goto(c, Mkdirs[n + 1])
     /\ \/ can /\ NoFault /\ dirs' = dirs \cup {d}
        \/ UNCHANGED dirs /\ IF can THEN Fault ELSE NoFault
     /\ UNCHANGED <<parentVars, workspace, sealed, links, files, k, existed, ok>>

\* storage_dirtree_write, the second open: its failure is the write's.
Reopen(c) ==
  /\ task[c] = "reopen"
  /\ \/ /\ CanCreate(Path(c)) /\ NoFault
        /\ files' = [files EXCEPT ![Path(c)] = "part"]
        /\ Goto(c, "fill")
        /\ UNCHANGED <<k, existed, ok>>
     \/ /\ IF CanCreate(Path(c)) THEN Fault ELSE NoFault
        /\ WriteReturns(c, FALSE)
        /\ UNCHANGED files
  /\ UNCHANGED <<parentVars, workspace, dirs, sealed, links>>

\* storage_dirtree_write, write and close.
Fill(c) ==
  /\ task[c] = "fill"
  /\ \/ /\ NoFault
        /\ files' = [files EXCEPT ![Path(c)] = "whole"]
        /\ WriteReturns(c, TRUE)
     \/ /\ Fault
        /\ \E held \in {"part", "whole"} : files' = [files EXCEPT ![Path(c)] = held]
        /\ WriteReturns(c, FALSE)
  /\ UNCHANGED <<parentVars, workspace, dirs, sealed, links>>

\* The read loop of run_motif: storage_dirtree_read keeps nothing but the sample,
\* which module Motif has.
Read(c) ==
  /\ task[c] = "read"
  /\ IF k[c] < Len(ObjIds) THEN k' = [k EXCEPT ![c] = @ + 1] /\ UNCHANGED task
                           ELSE Goto(c, "done") /\ UNCHANGED k
  /\ NoFault
  /\ UNCHANGED <<parentVars, treeVars, existed, ok>>

-----------------------------------------------------------------------------
(* The parent: storage_dirtree_driver_destroy and storage_dirtree_rmdir. *)

\* Mutant: chdir's result is not looked at, as in storage_debug.c.
DriverDestroyAnyway ==
  /\ parent = "wait"
  /\ \A c \in Clients : task[c] = "done"
  /\ parent' = "call"
  /\ \/ workspace = "dir" /\ NoFault /\ cwd' = Root
     \/ UNCHANGED cwd /\ IF workspace = "dir" THEN Fault ELSE NoFault
  /\ UNCHANGED <<stack, treeVars, outside, taskVars, lost>>

\* Into the workspace, or give up.
DriverDestroy ==
  /\ parent = "wait"
  /\ \A c \in Clients : task[c] = "done"
  /\ \/ workspace = "dir" /\ NoFault /\ cwd' = Root /\ parent' = "call"
     \/ /\ IF workspace = "dir" THEN Fault ELSE NoFault
        /\ parent' = "failed" /\ UNCHANGED cwd
  /\ UNCHANGED <<stack, treeVars, outside, taskVars, lost>>

\* Mutant: opendir's result is not looked at.
RmdirCallUnchecked ==
  /\ parent = "call"
  /\ stack' = Append(stack, [left |-> Entries(cwd), pruned |-> <<>>, back |-> Root])
  /\ parent' = "loop"
  /\ NoFault
  /\ UNCHANGED <<cwd, treeVars, outside, taskVars, lost>>

\* A call: opendir( "." ), unless too many directories are open.
RmdirCall ==
  /\ parent = "call"
  /\ \/ /\ Len(stack) < OpenMax /\ NoFault
        /\ stack' = Append(stack, [left |-> Entries(cwd), pruned |-> <<>>, back |-> Root])
        /\ parent' = "loop"
     \/ /\ IF Len(stack) < OpenMax THEN Fault ELSE NoFault
        /\ parent' = "return" /\ UNCHANGED stack
  /\ UNCHANGED <<cwd, treeVars, outside, taskVars, lost>>

Frame == Last(stack)

\* Where chdir( d ) leads, be d a directory or a link to one.
Target(d) == IF d \in DOMAIN links THEN links[d] ELSE d

\* What the buffer that getcwd has not filled may hold when chdir is called
\* with it: it has no initial value.
Unfilled == Tree \cup {Root, Elsewhere}

\* The call that has read an entry, and the entry's path.
Rest(name) == [Frame EXCEPT !.left = @ \ {name}]
Entry(name) == Append(cwd, name)

\* What stat does not find, or fails for, is passed over.
EntryPassed(name) ==
  /\ stack' = Append(Front(stack), Rest(name))
  /\ IF Exists(Entry(name)) THEN Fault ELSE NoFault
  /\ UNCHANGED <<parent, cwd, files, outside, lost>>

\* An object is unlinked, or not: unlink's result is not looked at.
EntryUnlinked(name) ==
  LET p == Entry(name)
  IN /\ p \in ObjPaths \cup OutsidePaths /\ Exists(p)
     /\ stack' = Append(Front(stack), Rest(name))
     /\ \/ /\ p \in ObjPaths /\ NoFault
           /\ files' = [files EXCEPT ![p] = "absent"] /\ UNCHANGED outside
        \/ /\ p \in OutsidePaths /\ NoFault
           /\ outside' = outside \ {p} /\ UNCHANGED files
        \/ Fault /\ UNCHANGED <<files, outside>>
     /\ UNCHANGED <<parent, cwd, lost>>

\* At a file of another name the program aborts.
EntryAborts(name) ==
  /\ Entry(name) \in StrangePaths /\ Exists(Entry(name))
  /\ parent' = "crashed"
  /\ NoFault
  /\ UNCHANGED <<cwd, stack, files, outside, lost>>

\* A directory, which for stat a link to one is too, is entered (if it can be)
\* for the function to call itself, and the way back is in a buffer: neither
\* getcwd's result nor chdir's is looked at.
EntryEntered(name) ==
  LET p == Entry(name)
  IN /\ p \in dirs \cup DOMAIN links
     /\ parent' = "call"
     /\ \/ /\ stack' = Append(Front(stack), [Rest(name) EXCEPT !.pruned = name, !.back = cwd])
           /\ \/ p \notin sealed /\ cwd' = Target(p) /\ NoFault
              \/ p \notin sealed /\ UNCHANGED cwd /\ Fault
              \/ p \in sealed /\ UNCHANGED cwd /\ NoFault
           /\ UNCHANGED lost
        \/ /\ \E way \in Unfilled :
                stack' = Append(Front(stack), [Rest(name) EXCEPT !.pruned = name, !.back = way])
           /\ cwd' = IF p \in sealed THEN cwd ELSE Target(p)
           /\ lost' = TRUE
           /\ Fault
     /\ UNCHANGED <<files, outside>>

\* readdir gives an entry.
RmdirEntry(name) ==
  /\ parent = "loop"
  /\ name \in Frame.left
  /\ \/ EntryPassed(name) \/ EntryUnlinked(name)
     \/ EntryAborts(name) \/ EntryEntered(name)
  /\ UNCHANGED <<workspace, dirs, sealed, links, taskVars>>

\* The listing is at its end: closedir, and return.
RmdirEnd ==
  /\ parent = "loop"
  /\ Frame.left = {}
  /\ stack' = Front(stack)
  /\ parent' = "return"
  /\ NoFault
  /\ UNCHANGED <<cwd, treeVars, outside, taskVars, lost>>

\* What rmdir( name ) leaves: it removes an empty directory of that name where
\* we are.
AfterRmdir(here, name) ==
  {d \in dirs : ~(d = Append(here, name) /\ Empty(d))}

\* Mutant: the directory is removed before the function has left it.
RmdirPrunedEarly ==
  /\ parent = "return" /\ stack # <<>>
  /\ parent' = "loop"
  /\ dirs' = AfterRmdir(cwd, Frame.pruned)
  /\ cwd' = Frame.back
  /\ NoFault
  /\ UNCHANGED <<stack, workspace, sealed, links, files, outside, taskVars, lost>>

\* Mutant: the listing starts again after a directory.
RmdirPrunedRewinds ==
  /\ parent = "return" /\ stack # <<>>
  /\ parent' = "loop"
  /\ cwd' = Frame.back
  /\ dirs' = AfterRmdir(cwd', Frame.pruned)
  /\ stack' = Append(Front(stack), [Frame EXCEPT !.left = Entries(Frame.back)])
  /\ NoFault
  /\ UNCHANGED <<workspace, sealed, links, files, outside, taskVars, lost>>

\* Mutant: the way back is "..".
RmdirPrunedDotDot ==
  /\ parent = "return" /\ stack # <<>>
  /\ parent' = "loop"
  /\ \/ cwd' = (IF cwd = Root THEN Home ELSE Front(cwd)) /\ NoFault
     \/ UNCHANGED cwd /\ Fault
  /\ dirs' = AfterRmdir(cwd', Frame.pruned)
  /\ UNCHANGED <<stack, workspace, sealed, links, files, outside, taskVars, lost>>

\* Where chdir( Frame.back ) leaves us: there, if it can be entered.
WayBack ==
  IF Frame.back \in {Root, Elsewhere} \/ Enterable(Frame.back) THEN Frame.back ELSE cwd

\* Back in the caller, that goes up again and removes the directory; both
\* calls' results are not looked at.  The second fails for a link.
RmdirPruned ==
  /\ parent = "return" /\ stack # <<>>
  /\ parent' = "loop"
  /\ \/ cwd' = WayBack /\ NoFault /\ dirs' = AfterRmdir(cwd', Frame.pruned)
     \/ cwd' = cwd /\ Fault /\ dirs' = AfterRmdir(cwd, Frame.pruned)
     \/ cwd' = WayBack /\ Fault /\ UNCHANGED dirs
  /\ UNCHANGED <<stack, workspace, sealed, links, files, outside, taskVars, lost>>

\* Back in storage_dirtree_driver_destroy: home (if driver_create's getcwd has
\* noted it), and rmdir of the workspace.
DriverDestroyed ==
  /\ parent = "return" /\ stack = <<>>
  /\ parent' = "end"
  /\ \/ /\ cwd' = Home /\ NoFault
        /\ workspace' = IF Empty(Root) THEN "none" ELSE workspace
     \/ /\ cwd' \in {cwd, Home} /\ Fault
        /\ workspace' \in {workspace, IF Empty(Root) THEN "none" ELSE workspace}
  /\ UNCHANGED <<stack, dirs, sealed, links, files, outside, taskVars, lost>>

-----------------------------------------------------------------------------
ParentStep ==
  \/ DriverCreate \/ DriverDestroy \/ RmdirCall
  \/ (\E name \in Names : RmdirEntry(name))
  \/ RmdirEnd \/ RmdirPruned \/ DriverDestroyed

TaskStep(c) ==
  \/ WorkerCreate(c) \/ Open(c) \/ (\E n \in 1 .. 3 : Mkdir(c, n))
  \/ Reopen(c) \/ Fill(c) \/ Read(c)

Next == ParentStep \/ \E c \in Clients : TaskStep(c)

Spec == Init /\ [][Next]_vars

\* The parent and the tasks are scheduled; no system call has to fail.
FairSpec == Spec /\ WF_vars(ParentStep) /\ \A c \in Clients : WF_vars(TaskStep(c))

-----------------------------------------------------------------------------
(* Properties. *)

\* What there is in the workspace is in a directory, and where there is something
\* there is a workspace.
Attached == \A p \in Contents : workspace = "dir" /\ Front(p) \in dirs \cup {Root}

\* Every variable keeps its type; directories are in directories, files too.
TypeOK ==
  /\ parent \in {"create", "wait", "call", "loop", "return", "end", "failed", "crashed"}
  /\ workspace \in {"none", "dir", "file"}
  /\ dirs \subseteq Tree /\ sealed \subseteq Tree
  /\ DOMAIN links \subseteq LinkPaths /\ \A p \in DOMAIN links : links[p] \in {Root, Elsewhere}
  /\ Attached
  /\ outside \subseteq OutsidePaths
  /\ files \in [ObjPaths \cup StrangePaths -> {"absent", "part", "whole"}]
  /\ task \in [Clients -> {"born", "open", "mkdir1", "mkdir2", "mkdir3", "reopen",
                           "fill", "read", "done"}]
  /\ k \in [Clients -> DOMAIN ObjIds]
  /\ Len(stack) <= OpenMax
  /\ lost \in BOOLEAN
  /\ faults \in 0 .. MaxFaults

\* The client has written its i-th object.
Written(c, i) == task[c] = "read" \/ (task[c] # "born" /\ k[c] > i)

\* However the tasks' openings and mkdirs interleave in shared directories, a
\* write fails only if the object was there before, and what it wrote is whole
\* until the parent removes it (storage_dirtree_write, storage_dirtree_pathgen).
CreatedOnDemand ==
  faults = 0 /\ sealed = {} /\ parent = "wait" =>
    \A c \in Clients, i \in DOMAIN ObjIds :
      Written(c, i) => /\ ok[c][i] = ~existed[c][i]
                       /\ files[Pathname(c, ObjIds[i])] = "whole"

\* A link in the workspace leads out of it.
LeadsOut == \E p \in DOMAIN links : links[p] = Elsewhere

\* Where no link leads out, and unless getcwd has failed, the removal never works
\* outside the workspace, and never from a directory it has removed, whichever
\* chdir fails (storage_dirtree_rmdir).
StaysInside ==
  ~LeadsOut /\ ~lost /\ parent \in {"call", "loop", "return"} => cwd = Root \/ cwd \in dirs

\* When nothing fails, every directory can be entered and there is no link, the
\* workspace and all in it are gone at the end, an earlier run's objects included.
CleanAfter ==
  parent = "end" /\ faults = 0 /\ sealed = {} /\ DOMAIN links = {} =>
    workspace = "none" /\ dirs = {} /\ \A p \in DOMAIN files : files[p] = "absent"

\* The abstract workspace's variables: the removal begins when the parent goes
\* on; a file is being put while its task has it open.
Removing == parent \notin {"create", "wait"}
Held == [p \in ObjPaths |-> files[p]]
BeingPut == {Path(c) : c \in {d \in Clients : task[d] = "fill"}}

WS == INSTANCE AbstractWorkspace WITH
        Object <- ObjPaths, removing <- Removing, held <- Held, open <- BeingPut

\* The workspace is used as the abstract one: no object is put over another, or
\* changed by anything but its removal, and none is put when that has begun
\* (storage_dirtree_write, storage_dirtree_driver_destroy).
WorkspaceKept == WS!Spec

\* The recursion ends, also where a directory cannot be entered or a link leads
\* back to the workspace, and the function calls itself on a directory it is in
\* (storage_dirtree_rmdir).
DestroyReturns == <>(parent \in {"end", "failed", "crashed"})
=============================================================================
