------------------------------- MODULE FileApi -------------------------------
(***************************************************************************)
(* Programs that use files: the class File of servers/api_file.cpp over    *)
(* the tree of FileTree, with the servers behind it: servers/null.cpp, the *)
(* terminal's output (servers/tty.cpp) and the modules that the process    *)
(* manager serves (core/core.cpp).  A call is one step, and the programs   *)
(* interleave between calls.                                               *)
(***************************************************************************)
EXTENDS FileTree

CONSTANTS
  File,         \* File objects
  FileName,     \* the text of each
  Printer,      \* the Files that printf and getch use: stdout and stdin
  Fs, Procman,  \* tasks of the file server and the process manager
  Mounter,      \* tasks that mount themselves: null and the terminal
  Terminal,
  MountName, MountParameter,
  Modules       \* names of the boot modules

STDOUT == 2
ZERO_ID == 0
NULL_ID == 1

ASSUME FileApiAssumption ==
  /\ {Fs, Procman} \cup Mounter \subseteq Nat \ {0}
  /\ Fs \notin Mounter \cup {Procman} /\ Procman \notin Mounter
  /\ Printer \subseteq File /\ FileName \in [File -> Text]
  /\ MountName \in [Mounter -> Text] /\ MountParameter \in [Mounter -> Nat]
  /\ \A s \in Mounter : /\ <<s, MountParameter[s]>> \in Server
                        /\ Stripped(MountName[s]) # <<"", "modules">>
                        /\ MountParameter[s] \in IF s = Terminal THEN {STDOUT}
                                                 ELSE {ZERO_ID, NULL_ID}
  /\ \A s, t \in Mounter : Stripped(MountName[s]) = Stripped(MountName[t]) => s = t
  /\ Terminal \in Mounter /\ <<Procman, 0>> \in Server /\ Modules \in Seq(STRING)
  /\ MaxNode >= 2 /\ "modules" \in Name

VARIABLES
  root_fs,   \* what the process manager answers to pcGetRootFS, 0 at first
  file,      \* each object's fields, whether its constructor has returned, and
             \* whether its last create or resolve returned frOk
  main,      \* how far each mounter is: "create", "mount", "serve"
  last,      \* the last read, write or size: who answered, and what
  stuck      \* servers that get one request again and again

apiVars == <<node, answer, root_fs, file, main, last, stuck>>

-----------------------------------------------------------------------------
(* What the servers answer to a resolve that is forwarded to them: value1,   *)
(* value2 and type.  A refusal leaves the request's values, a 0 and the      *)
(* parameter of the mount.                                                   *)

Refusal(parameter) ==
  [id |-> 0, mounted |-> parameter # 0, type |-> "frFileNotFound"]

ModuleIndex(name) == {i \in DOMAIN Modules : Modules[i] = name}
FirstOf(indexes) == CHOOSE i \in indexes : \A j \in indexes : i <= j

\* What is left of the path is joined with slashes, so that one empty name, as of
\* "/t//", is as good as none.
Nothing == {<<>>, <<"">>}
MounterResolves(path, parameter) ==
  IF path \in Nothing THEN [id |-> parameter, mounted |-> TRUE, type |-> "frOk"]
  ELSE Refusal(parameter)

ModulesResolve(path) ==
  IF Len(path) = 1 /\ ModuleIndex(path[1]) # {}
  THEN [id |-> FirstOf(ModuleIndex(path[1])) - 1, mounted |-> TRUE, type |-> "frOk"]
  ELSE Refusal(0)

\* What a File takes over from the answer to its create or resolve, whoever
\* gave it and whether it succeeded.  Faulty: the server is always the
\* one that was asked; or the parameter of the mount.
TakenAsked(got) ==
  [made |-> TRUE, server_tid |-> Fs, file_id |-> 0, mounted |-> "forward" \in DOMAIN got,
   good |-> TRUE]
TakenByMount(got) ==
  [made |-> TRUE, server_tid |-> IF "forward" \in DOMAIN got THEN got.forward[2] ELSE Fs,
   file_id |-> 0, mounted |-> FALSE, good |-> TRUE]
Taken(got) ==
  IF "forward" \in DOMAIN got
  THEN LET tid == got.forward[1]
           r == IF tid = Procman THEN ModulesResolve(got.path)
                ELSE MounterResolves(got.path, got.forward[2])
       IN [made |-> TRUE, server_tid |-> tid, file_id |-> r.id, mounted |-> r.mounted,
           good |-> r.type = "frOk"]
  ELSE [made |-> TRUE, server_tid |-> Fs,
        file_id |-> IF got.type = "frOk" THEN got.id ELSE 0,
        mounted |-> FALSE, good |-> got.type = "frOk"]

-----------------------------------------------------------------------------
(* The mains of the servers *)

FsMain ==
  /\ root_fs = 0 /\ root_fs' = Fs
  /\ UNCHANGED <<node, answer, file, main, last, stuck>>

\* A second File is not needed: null and the terminal create and mount each of
\* their paths in turn, and each step asserts frOk.
MounterStep(s) ==
  /\ root_fs # 0 /\ Fs \notin stuck
  /\ \/ /\ main[s] = "create" /\ Create(MountName[s])
        /\ main' = [main EXCEPT ![s] = "mount"]
     \/ /\ main[s] = "mount" /\ Mount(MountName[s], <<s, MountParameter[s]>>)
        /\ main' = [main EXCEPT ![s] = IF answer'.got.type = "frOk" THEN "serve" ELSE "failed"]
  /\ UNCHANGED <<root_fs, file, last, stuck>>

-----------------------------------------------------------------------------
(* The methods of File *)

\* The constructor asks for the root file server until there is one.
New(f) ==
  /\ ~file[f].made /\ root_fs # 0
  /\ file' = [file EXCEPT ![f].made = TRUE]
  /\ UNCHANGED <<node, answer, root_fs, main, last, stuck>>

Learns(f) == file' = [file EXCEPT ![f] = Taken(answer'.got)]

CreateFile(f) ==
  /\ file[f].made /\ Fs \notin stuck /\ f \notin Printer
  /\ Create(FileName[f])
  /\ file' = [file EXCEPT ![f].server_tid = Fs, ![f].file_id = answer'.got.id,
                          ![f].good = TRUE]
  /\ UNCHANGED <<root_fs, main, last, stuck>>

\* resolve itself, or the one with which read, write and size begin on an object
\* that has no server yet; printf and getch call it until it succeeds.
ResolveFile(f) ==
  /\ file[f].made /\ Fs \notin stuck
  /\ f \in Printer => ~(file[f].good /\ file[f].mounted)
  /\ Resolve(FileName[f]) /\ Learns(f)
  /\ "forward" \in DOMAIN answer'.got => answer'.got.forward[1] \notin stuck
  /\ UNCHANGED <<root_fs, main, last, stuck>>

\* The server that a File names is asked for the number it names.
Asked(f, op, type) ==
  /\ file[f].server_tid \notin stuck \cup {0}
  /\ f \in Printer => file[f].good /\ file[f].mounted
  /\ last' = [op |-> op, file |-> f, server |-> file[f].server_tid,
              id |-> file[f].file_id, type |-> type, given |-> file[f].good]
  /\ UNCHANGED <<node, answer, root_fs, file, main>>

\* Only a server that mounts itself takes what is written, and the terminal only
\* under its own number.  Faulty: all do.
WritableAll == Mounter \cup {Fs, Procman}
Writable == Mounter
WriteType(f) ==
  IF file[f].server_tid \notin Writable THEN "frCommandNotSupported"
  ELSE IF file[f].server_tid = Terminal /\ file[f].file_id # STDOUT THEN "frFileNotFound"
  ELSE "frOk"
WriteFile(f) == Asked(f, "write", WriteType(f)) /\ UNCHANGED stuck

\* The file server and the terminal answer a read as not supported and leave the
\* reply buffer NULL with the reader's length: reply refuses that, and they
\* receive the same request again.
Unread(f) == {file[f].server_tid} \cap {Fs, Terminal}
ReadFile(f) == /\ Asked(f, "read", IF Unread(f) = {} THEN "frOk" ELSE "none")
               /\ stuck' = stuck \cup Unread(f)

SizeFile(f) ==
  /\ Asked(f, "size", IF file[f].server_tid = Procman THEN "frOk"
                      ELSE "frCommandNotSupported")
  /\ UNCHANGED stuck

ApiInit ==
  /\ node = [id \in {0, 1} |-> IF id = 0 THEN [Fresh("") EXCEPT !.children = <<1>>]
                               ELSE [Fresh("modules") EXCEPT !.mounted = <<Procman, 0>>]]
  /\ answer = NoAnswer
  /\ root_fs = 0
  /\ file = [f \in File |-> [made |-> FALSE, server_tid |-> 0, file_id |-> 0,
                             mounted |-> FALSE, good |-> FALSE]]
  /\ main = [s \in Mounter |-> "create"]
  /\ last = [op |-> "none"]
  /\ stuck = {}

ApiNext == \/ FsMain
           \/ \E s \in Mounter : MounterStep(s)
           \/ \E f \in File : New(f)
           \/ \E f \in File : CreateFile(f)
           \/ \E f \in File : ResolveFile(f)
           \/ \E f \in File : WriteFile(f)
           \/ \E f \in File \ Printer : ReadFile(f)
           \/ \E f \in File \ Printer : SizeFile(f)

ApiSpec == ApiInit /\ [][ApiNext]_apiVars

\* The scheduler runs every ready program again and again.
ApiFairSpec ==
  /\ ApiSpec
  /\ WF_apiVars(FsMain) /\ \A s \in Mounter : WF_apiVars(MounterStep(s))
  /\ \A f \in Printer : /\ WF_apiVars(New(f)) /\ WF_apiVars(ResolveFile(f))
                        /\ WF_apiVars(WriteFile(f))

-----------------------------------------------------------------------------
(* Properties *)

ApiTypeOK ==
  /\ root_fs \in {0, Fs} /\ stuck \subseteq {Fs, Terminal}
  /\ \A f \in File : /\ file[f].server_tid \in {0, Fs, Procman} \cup Mounter
                     /\ file[f].good => file[f].server_tid # 0
                     /\ file[f].file_id \in Nat /\ file[f].mounted \in BOOLEAN
  /\ \A s \in Mounter : main[s] \in {"create", "mount", "serve", "failed"}

\* The number in a File that the file server gave for its name leads to that
\* name for good, whatever else is created: it is safe to keep (api_file.cpp:45).
NumberKept ==
  \A f \in File : file[f].good /\ file[f].server_tid = Fs =>
    /\ file[f].file_id \in DOMAIN node
    /\ PathTo[file[f].file_id] = Stripped(FileName[f])

OnPath(f) == {id \in DOMAIN node : IsPrefix(PathTo[id], Stripped(FileName[f]))}

\* A write that succeeds has reached a server that is mounted on the File's name
\* or above it, though the File keeps the server of an earlier resolve and may
\* have failed to resolve since (api_file.cpp:66-80).
WritesReach ==
  last.op = "write" /\ last.type = "frOk" =>
    \E id \in OnPath(last.file) : node[id].mounted[1] = last.server

\* The assertions of null.cpp:12-15 and tty.cpp:438-442 hold: whatever other
\* programs create and mount meanwhile, a server's own create and mount succeed.
AssertsHold == \A s \in Mounter : main[s] # "failed"

\* printf waits until the terminal is mounted, and then gets its text out: every
\* standard output is written to in the end, unless a server hangs on a read
\* (system.cpp:122-131).
PrintfEnds ==
  \A f \in Printer :
    <>(stuck # {} \/ (last.op = "write" /\ last.file = f /\ last.type = "frOk"))

\* file.h:8 says "All: frCommandNotSupported, frPathTooLong, frOk": a server
\* answers even what it does not support.
ServersAnswer == stuck = {}

\* file.h:24-25 says of foWrite and foRead "v1 = file id": the number a File
\* sends is one that a create or resolve gave it.
SendsFileId == last.op \in {"read", "write"} => last.given
=============================================================================
