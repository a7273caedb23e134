----------------------------- MODULE StoreFile -----------------------------
(***************************************************************************)
(* One JSON file of $TASKQ_HOME, the processes that replace it through a   *)
(* temporary file and those that read it: write_json_atomic and read_json  *)
(* of storage/atomic.py, of which task_store.py, breaker_store.py and      *)
(* cache_store.py carry copies.  A step is one call of the file system.    *)
(* Names and contents are told apart: os.replace moves the name to another *)
(* inode, while a reader that opened the old inode goes on reading it.     *)
(*                                                                         *)
(* The other modules take a file as a register that is read and written in *)
(* one step; that this module implements StoreRegister entitles them to.   *)
(***************************************************************************)
EXTENDS FiniteSets, Naturals

CONSTANTS
    Proc,     \* processes and threads that read or write the file
    Value,    \* complete JSON documents
    Partial,  \* any proper prefix of a document, the empty one included
    Absent,   \* what a reader answers when there is no file
    Inode,    \* bound: how many inodes there are
    NoInode,  \* the name is not linked
    MayClear, \* whether `clear` may unlink the file
    MaxLeft   \* bound: temporary files left behind at the same time

ASSUME StoreFileAssumption ==
    /\ Partial \notin Value
    /\ Absent \notin Value
    /\ Partial # Absent
    /\ NoInode \notin Inode
    /\ MayClear \in BOOLEAN
    /\ MaxLeft \in Nat

VARIABLES
    path,     \* the inode under the store's own name
    temps,    \* the inodes under temporary names
    content,  \* what each inode holds
    pc,       \* what each process does next
    inode,    \* the inode it created, or opened for reading
    data,     \* what it is to write, or the answer of its read
    left      \* history: temporary files whose writer could not remove them

vars == <<path, temps, content, pc, inode, data, left>>

AtRest == {"idle", "written", "raised", "returned", "unreadable", "killed"}
Owning == {"dump", "replace", "cleanup"}
Steps == AtRest \cup Owning \cup {"mkstemp", "exists", "open", "load"}

TypeOK ==
    /\ path \in Inode \cup {NoInode}
    /\ temps \subseteq Inode
    /\ content \in [Inode -> Value \cup {Partial}]
    /\ pc \in [Proc -> Steps]
    /\ inode \in [Proc -> Inode \cup {NoInode}]
    /\ data \in [Proc -> Value \cup {Absent}]
    /\ left \subseteq Inode

Init ==
    /\ path = NoInode
    /\ temps = {}
    /\ content = [i \in Inode |-> Partial]
    /\ pc = [p \in Proc |-> "idle"]
    /\ inode = [p \in Proc |-> NoInode]
    /\ data = [p \in Proc |-> Absent]
    /\ left = {}

-----------------------------------------------------------------------------
GoTo(p, from, to) == pc[p] = from /\ pc' = [pc EXCEPT ![p] = to]

\* The call is over, and its locals with it.
Forget(p) ==
    /\ inode' = [inode EXCEPT ![p] = NoInode]
    /\ data' = [data EXCEPT ![p] = Absent]

\* Neither linked nor open: the file system may hand it out again.
Unused == {i \in Inode : /\ i # path
                         /\ i \notin temps
                         /\ \A q \in Proc : pc[q] = "load" => inode[q] # i}

CallWrite(p) ==
    /\ pc[p] \in AtRest
    /\ pc' = [pc EXCEPT ![p] = "mkstemp"]
    /\ \E v \in Value : data' = [data EXCEPT ![p] = v]
    /\ UNCHANGED <<path, temps, content, inode, left>>

\* Wrong variant, to confirm StoreKeepsTheRegister: one fixed temporary name,
\* so that a second writer truncates and shares the file of the first.
OpensFixedName(p) ==
    /\ GoTo(p, "mkstemp", "dump")
    /\ \E i \in IF temps = {} THEN Unused ELSE temps :
          /\ temps' = {i}
          /\ content' = [content EXCEPT ![i] = Partial]
          /\ inode' = [inode EXCEPT ![p] = i]
    /\ UNCHANGED <<path, data, left>>

\* Wrong variant, to confirm FilesAreSound: the name is replaced at once and
\* the document written through the open descriptor.
ReplacesFirst(p) ==
    /\ GoTo(p, "mkstemp", "dump")
    /\ \E i \in Unused :
          /\ path' = i
          /\ content' = [content EXCEPT ![i] = Partial]
          /\ inode' = [inode EXCEPT ![p] = i]
    /\ UNCHANGED <<temps, data, left>>

\* tempfile.mkstemp: an empty file under a name that nobody else has.
Mkstemp(p) ==
    /\ GoTo(p, "mkstemp", "dump")
    /\ \E i \in Unused :
          /\ temps' = temps \cup {i}
          /\ content' = [content EXCEPT ![i] = Partial]
          /\ inode' = [inode EXCEPT ![p] = i]
    /\ UNCHANGED <<path, data, left>>

\* There is nothing to remove yet: the exception leaves the writer.
MkstempFails(p) ==
    /\ GoTo(p, "mkstemp", "raised")
    /\ Forget(p)
    /\ UNCHANGED <<path, temps, content, left>>

\* json.dump and the flush when the `with` block closes the file.
Dump(p) ==
    /\ GoTo(p, "dump", "replace")
    /\ content' = [content EXCEPT ![inode[p]] = data[p]]
    /\ UNCHANGED <<path, temps, inode, data, left>>

\* Wrong variant, to confirm LeftoversComeFromKills: no clean-up.
DumpRaises(p) ==
    /\ GoTo(p, "dump", "raised")
    /\ Forget(p)
    /\ UNCHANGED <<path, temps, content, left>>

DumpFails(p) ==
    /\ GoTo(p, "dump", "cleanup")
    /\ UNCHANGED <<path, temps, content, inode, data, left>>

Replace(p) ==
    /\ GoTo(p, "replace", "written")
    /\ path' = inode[p]
    /\ temps' = temps \ {inode[p]}
    /\ Forget(p)
    /\ UNCHANGED <<content, left>>

ReplaceFails(p) ==
    /\ GoTo(p, "replace", "cleanup")
    /\ UNCHANGED <<path, temps, content, inode, data, left>>

\* The finally clause; then the exception goes on.
Cleanup(p) ==
    /\ GoTo(p, "cleanup", "raised")
    /\ temps' = temps \ {inode[p]}
    /\ Forget(p)
    /\ UNCHANGED <<path, content, left>>

MayLeave == Cardinality(left) < MaxLeft

\* An OSError of os.unlink is swallowed.
CleanupFails(p) ==
    /\ MayLeave
    /\ GoTo(p, "cleanup", "raised")
    /\ left' = left \cup {inode[p]}
    /\ Forget(p)
    /\ UNCHANGED <<path, temps, content>>

\* A kill; its temporary file, if it has one, stays under its name.
Kill(p) ==
    /\ pc[p] \notin AtRest
    /\ pc' = [pc EXCEPT ![p] = "killed"]
    /\ IF pc[p] \in Owning THEN MayLeave /\ left' = left \cup {inode[p]}
                           ELSE UNCHANGED left
    /\ Forget(p)
    /\ UNCHANGED <<path, temps, content>>

-----------------------------------------------------------------------------
CallRead(p) ==
    /\ pc[p] \in AtRest
    /\ pc' = [pc EXCEPT ![p] = "exists"]
    /\ data' = [data EXCEPT ![p] = Absent]
    /\ UNCHANGED <<path, temps, content, inode, left>>

NotThere(p) ==
    /\ path = NoInode
    /\ GoTo(p, "exists", "returned")
    /\ UNCHANGED <<path, temps, content, inode, data, left>>

Exists(p) ==
    /\ path # NoInode
    /\ GoTo(p, "exists", "open")
    /\ UNCHANGED <<path, temps, content, inode, data, left>>

\* The name is gone since it was tested: OSError, caught.
OpenFails(p) ==
    /\ path = NoInode
    /\ GoTo(p, "open", "unreadable")
    /\ UNCHANGED <<path, temps, content, inode, data, left>>

Open(p) ==
    /\ path # NoInode
    /\ GoTo(p, "open", "load")
    /\ inode' = [inode EXCEPT ![p] = path]
    /\ UNCHANGED <<path, temps, content, data, left>>

\* json.load of the inode that was opened.  JSONDecodeError is caught: None or
\* [] for the lenient readers, a corrupt store for _strict_load_tasks.
Load(p) ==
    /\ GoTo(p, "load", IF content[inode[p]] \in Value THEN "returned"
                                                     ELSE "unreadable")
    /\ data' = [data EXCEPT ![p] =
                  IF content[inode[p]] \in Value THEN content[inode[p]] ELSE @]
    /\ inode' = [inode EXCEPT ![p] = NoInode]
    /\ UNCHANGED <<path, temps, content, left>>

\* clear_cmd unlinks the name, and no temporary one.
Clear ==
    /\ MayClear
    /\ path # NoInode
    /\ path' = NoInode
    /\ UNCHANGED <<temps, content, pc, inode, data, left>>

Step(p) ==
    \/ CallWrite(p) \/ Mkstemp(p) \/ MkstempFails(p) \/ Dump(p) \/ DumpFails(p)
    \/ Replace(p) \/ ReplaceFails(p) \/ Cleanup(p) \/ CleanupFails(p) \/ Kill(p)
    \/ CallRead(p) \/ NotThere(p) \/ Exists(p) \/ OpenFails(p) \/ Open(p)
    \/ Load(p)

Next == (\E p \in Proc : Step(p)) \/ Clear

Spec == Init /\ [][Next]_vars
-----------------------------------------------------------------------------
(* The refinement mapping.  The register holds what is under the name; a
   write takes effect at os.replace, a read when it opens the file. *)
OpOf(p) ==
    CASE pc[p] \in {"mkstemp", "dump", "replace", "cleanup"} -> "writing"
      [] pc[p] = "written"                               -> "wrote"
      [] pc[p] = "raised"                                -> "failed"
      [] pc[p] \in {"exists", "open"}                    -> "reading"
      [] pc[p] \in {"load", "returned", "unreadable"}    -> "read"
      [] pc[p] = "killed"                                -> "dead"
      [] OTHER                                           -> "idle"

Held == IF path = NoInode THEN Absent ELSE content[path]
Ops  == [p \in Proc |-> OpOf(p)]
Args == [p \in Proc |-> IF pc[p] = "load" THEN content[inode[p]] ELSE data[p]]

Register == INSTANCE StoreRegister WITH value <- Held, op <- Ops, arg <- Args

(* write_json_atomic: "a reader observes either the previous complete JSON or
   the new complete JSON; never a partial write".  With any number of writers,
   failures of every call, kills and clear, the file is a register. *)
StoreKeepsTheRegister == Register!Spec

\* A writer has a temporary file to itself, and the name is never one of them.
OwnersAreApart ==
    /\ path \notin temps
    /\ \A p \in Proc : pc[p] \in Owning => inode[p] \in temps \ left
    /\ \A p, q \in Proc : /\ pc[p] \in Owning
                          /\ pc[q] \in Owning
                          /\ p # q
                          => inode[p] # inode[q]

\* What is about to be put under the name is the document to be written.
WritersAreFaithful ==
    \A p \in Proc :
        /\ pc[p] \in Owning \cup {"mkstemp"} => data[p] \in Value
        /\ pc[p] = "replace" => content[inode[p]] = data[p]

\* An inode once under the name is complete and nobody writes to it; a reader
\* that has not opened the file has no answer.
ReadersAreSafe ==
    /\ \A p \in Proc : pc[p] \in {"exists", "open"} => data[p] = Absent
    /\ path # NoInode => content[path] \in Value
    /\ \A p \in Proc : pc[p] = "load" => /\ inode[p] \in Inode \ temps
                                         /\ content[inode[p]] \in Value

(* Whoever reads the file by its name, now or through a file opened earlier,
   finds a complete document: no two writers share a temporary file, and no
   writer writes to a file that was put under the name. *)
FilesAreSound ==
    TypeOK /\ OwnersAreApart /\ WritersAreFaithful /\ ReadersAreSafe

(* A temporary file is in use by a writer that has not answered yet, or was
   left by a kill or a failed unlink: a write that returned or raised has none
   (the finally clause of write_json_atomic). *)
LeftoversComeFromKills ==
    temps = left \cup {inode[p] : p \in {q \in Proc : pc[q] \in Owning}}

(* commands.py: "tasks.json is corrupt" is answered for a corrupt file only.
   Not kept by the code when `clear` may come between the test for the file and
   the open: see "Disagreements" in the README. *)
UnreadableNever == \A p \in Proc : pc[p] # "unreadable"
=============================================================================
