------------------------------ MODULE FileMap ------------------------------
(***************************************************************************)
(* What the file server promises: a set of known paths, each with a number *)
(* of its own, and servers mounted on some of them for good.  A path that  *)
(* is not known belongs to the longest part of it that is.                 *)
(***************************************************************************)
EXTENDS Integers, Sequences, SequencesExt, FiniteSets, FiniteSetsExt

CONSTANTS Path,   \* sequences of names, the root's empty name first
          Server  \* tasks that mount, each with its parameter

VARIABLES
  known,    \* the paths that exist
  number,   \* the number of each, from 0 for the root in order of creation
  mounts,   \* the paths with a server, and which
  answer    \* the last request and what it got

mapVars == <<known, number, mounts, answer>>

Above(p) == CHOOSE q \in known : /\ IsPrefix(q, p)
                                 /\ \A r \in known : IsPrefix(r, p) => IsPrefix(r, q)
Rest(p) == SubSeq(p, Len(Above(p)) + 1, Len(p))

Answered(op, p, what) == answer' = [op |-> op, asked |-> p, got |-> what]

\* A path is created with all that it lies in; a server mounted above is not
\* asked.
MapCreate(p) ==
  LET new == {q \in {SubSeq(p, 1, k) : k \in 1..Len(p)} : q \notin known}
  IN /\ known' = known \cup new
     /\ number' = [q \in known \cup new |->
          IF q \in known THEN number[q]
          ELSE Cardinality(known) + Len(q) - Len(Above(p)) - 1]
     /\ Answered("create", p, [type |-> "frOk", id |-> number'[p]])
     /\ UNCHANGED mounts

\* A request goes on to the server mounted where the known part ends.
MapResolve(p) ==
  /\ IF Above(p) \in DOMAIN mounts
     THEN Answered("resolve", p, [forward |-> mounts[Above(p)], path |-> Rest(p)])
     ELSE IF p \in known THEN Answered("resolve", p, [type |-> "frOk", id |-> number[p]])
     ELSE Answered("resolve", p, [type |-> "frFileNotFound"])
  /\ UNCHANGED <<known, number, mounts>>

\* Nothing is mounted twice, nor on a path that belongs to a mounted server.
\* Task 0 is accepted and mounts nothing.
MapMount(p, server) ==
  /\ \/ /\ Above(p) \in DOMAIN mounts
        /\ Answered("mount", p, [type |-> "frAlreadyMounted"]) /\ UNCHANGED mounts
     \/ /\ p \notin known /\ Above(p) \notin DOMAIN mounts
        /\ Answered("mount", p, [type |-> "frFileNotFound"]) /\ UNCHANGED mounts
     \/ /\ p \in known /\ p \notin DOMAIN mounts
        /\ Answered("mount", p, [type |-> "frOk"])
        /\ mounts' = IF server[1] = 0 THEN mounts
                     ELSE [q \in DOMAIN mounts \cup {p} |->
                             IF q = p THEN server ELSE mounts[q]]
  /\ UNCHANGED <<known, number>>

MapRefuse(why) == /\ Answered("refused", <<>>, [type |-> why])
                  /\ UNCHANGED <<known, number, mounts>>

MapInit == /\ known = {<<"">>} /\ number = [p \in {<<"">>} |-> 0]
           /\ mounts = [p \in {} |-> 0]
           /\ answer = [op |-> "none", asked |-> <<>>, got |-> [type |-> "none"]]

MapNext == \/ \E p \in Path : MapCreate(p) \/ MapResolve(p)
           \/ \E p \in Path, server \in Server : MapMount(p, server)
           \/ \E why \in {"frFileNotFound", "frPathTooLong", "frCommandNotSupported"} :
                MapRefuse(why)

MapSpec == MapInit /\ [][MapNext]_mapVars
=============================================================================
