------------------------------ MODULE MCFiles ------------------------------
(***************************************************************************)
(* The file server in part "tree": paths of up to four slashes and names,  *)
(* where an empty name stands between two slashes, and trees of up to four *)
(* nodes.  The programs that use it in part "programs": task 2 is the      *)
(* process manager, 3 the file server, 5 and 6 mount themselves at /n and  *)
(* /t.  Part "print" is the same with a printer in place of the readers of *)
(* f2 and f4, small enough for liveness.  The parts share no state.        *)
(***************************************************************************)
EXTENDS FileApi

CONSTANTS TreeName, TreePath, TreeServer, TreeNodes   \* those of part "tree"

Servers == {<<s, MountParameter[s]>> : s \in Mounter} \cup {<<Procman, 0>>}
Parameters == (5 :> 1) @@ (6 :> 2)
MountNames == (5 :> <<"/", "n">>) @@ (6 :> <<"/", "t">>)
Names == ("f1" :> <<"/", "n", "/", "/">>) @@ ("f2" :> <<"/", "modules", "/", "x">>)
         @@ ("f3" :> <<"/", "t">>) @@ ("f4" :> <<"/", "t", "/", "x">>)
TheModules == <<"fs", "x">>
TreeServers == {<<0, 0>>, <<5, 1>>}

VARIABLES part, t_node, t_answer

treeVars == <<t_node, t_answer>>
allVars == <<part, apiVars, treeVars>>

Tree == INSTANCE FileTree WITH
  Name <- TreeName, MAX_PATH <- TreePath, Server <- TreeServer, MaxNode <- TreeNodes,
  node <- t_node, answer <- t_answer

ASSUME TreeAssumption == Tree!FileTreeAssumption

AllInit == part \in {"tree", "programs", "print"} /\ Tree!Init /\ ApiInit

AllNext == /\ \/ part = "tree" /\ Tree!Next /\ UNCHANGED apiVars
              \/ part = "programs" /\ ApiNext /\ ~file'["f3"].made /\ UNCHANGED treeVars
              \/ part = "print" /\ ApiNext /\ ~file'["f2"].made /\ ~file'["f4"].made /\ UNCHANGED treeVars
           /\ UNCHANGED part

\* The fairness of FileApi, where its part runs.
OfPrint(A) == part = "print" /\ A /\ UNCHANGED <<part, treeVars>>
AllSpec == /\ AllInit /\ [][AllNext]_allVars
           /\ WF_allVars(OfPrint(FsMain))
           /\ \A s \in Mounter : WF_allVars(OfPrint(MounterStep(s)))
           /\ \A f \in Printer : /\ WF_allVars(OfPrint(New(f)))
                                 /\ WF_allVars(OfPrint(ResolveFile(f)))
                                 /\ WF_allVars(OfPrint(WriteFile(f)))

-----------------------------------------------------------------------------
\* Every node but the root is in one list, once, of an older node, and two
\* children of a node differ in name, so resolve ends and finds one node
\* (fs.cpp:106-180).
TreesSound == Tree!TypeOK /\ Tree!IsTree /\ IsTree

\* A number that the file server gave leads to its name for good; a write that
\* succeeds has reached a server mounted on the File's name or above it, though the
\* File keeps the server of an earlier resolve (api_file.cpp:45-80); and a server's
\* own create and mount succeed, as null.cpp:12-15 and tty.cpp:438-442 assert.
FilesSound == ApiTypeOK /\ NumberKept /\ WritesReach /\ AssertsHold

\* The file server keeps the promises of FileMap: the tree holds the known paths
\* and each answer is the one the paths and mounts call for (fs.cpp:106-252).
ServerImplementsMap ==
  Tree!Map!MapInit /\ [][part = "tree" => Tree!Map!MapNext]_(Tree!Map!mapVars)

\* printf waits until the terminal is mounted, and then gets its text out, unless
\* a server hangs on a read (system.cpp:122-131).
TextGetsOut == (part = "print") => PrintfEnds
=============================================================================
