---------------------------- MODULE MCMessages ----------------------------
(***************************************************************************)
(* Three clients, the file system server, the terminal with its input      *)
(* thread, and the process manager.  The clients call the file system and  *)
(* the terminal, the file system forwards to the terminal (a path below a  *)
(* mount), the terminal forwards to its input thread (a read) and calls    *)
(* the process manager, and both ways a call can be refused occur: a dead  *)
(* receiver (kernel) and a missing one (ghost).                            *)
(***************************************************************************)
EXTENDS Messages

CONSTANTS c1, c2, c3, fs, tty, stdin, pm, kernel, ghost, p

MCTask == {c1, c2, c3, fs, tty, stdin, pm, kernel, ghost}
MCBoot == MCTask \ {ghost}
MCDead == {kernel}
MCServers == {fs, tty, stdin, pm}
MCPayload == {p}

Request(s, d) == [from |-> s, to |-> d, payload |-> p]

MCCalls == {Request(c1, fs), Request(c2, fs), Request(c1, tty),
            Request(tty, pm), Request(c2, pm),
            Request(c3, tty), Request(c2, kernel), Request(c1, ghost)}
MCRelays == {Request(fs, tty), Request(tty, stdin), Request(fs, ghost)}
MCAnswers == {[from |-> s, payload |-> p] : s \in MCServers}

=============================================================================
