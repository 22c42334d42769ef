------------------------------ MODULE DataDir ------------------------------
(***************************************************************************)
(* The data directory that several recorder processes share: the identity  *)
(* they load or create when they start (identity.go), and the session      *)
(* store (store.go), one file per session, pruned to the newest.           *)
(*                                                                         *)
(* A process loads its credentials and then records sessions; a session's  *)
(* writer creates its file, prunes the store, and appends.  Processes run  *)
(* in between each other's system calls and may be killed at any of them;  *)
(* one more process reads (the tray the identity, `pingrank sessions` the  *)
(* store).                                                                 *)
(***************************************************************************)
EXTENDS ReplacedFile, FiniteSets, Sequences, SequencesExt

CONSTANTS
  Retain,        (* how many sessions the store keeps                      *)
  Place,         (* of each number, where it puts a name among those of
                    the same start time                                    *)
  Ticks,         (* BOUND: times on the wall clock a session may start     *)
  MaxSessions,   (* BOUND: sessions recorded                               *)
  MaxRecords,    (* BOUND: records of one session                          *)
  MaxCrashes     (* BOUND: processes killed                                *)

ASSUME DataDirAssumption ==
  /\ IsFiniteSet(Procs)
  /\ Retain \in Nat \ {0} /\ Ticks \subseteq Nat
  /\ MaxSessions \in Nat /\ MaxRecords \in Nat /\ MaxCrashes \in Nat

(* No two names are the same text. *)
ASSUME PlaceAssumption ==
  /\ Place \in [1..MaxSessions -> Nat]
  /\ \A m, n \in 1..MaxSessions : Place[m] = Place[n] => m = n

VARIABLES
  credentials,   (* of each process that has them                          *)
  store,         (* from the files' names to their lines                   *)
  path,          (* the file a process' writer has open                    *)
  doomed,        (* what a process' Prune has still to remove              *)
  (* history *)
  sessions, crashes,
  lost,          (* there was no identity to keep, or one of the steps
                    that cost an agent its id was taken                    *)
  unpruned       (* prunings that failed or were cut short                  *)

identity == <<file, tmp, draft, credentials, lost>>
stored   == <<store, path, doomed, sessions, unpruned>>
vars     == <<identity, stored, step, reading, crashes>>

-----------------------------------------------------------------------------
(* Identity: an agent id and a key.  Known stands for the id on disk from  *)
(* the start, New for any id made since; of a key it matters whether a     *)
(* process can unprotect it.                                               *)

Known == 0
New   == 1

Identity == [id : {Known, New}, usable : BOOLEAN]

IsIdentity(x) == x \notin {None, Torn}

(* Mutant: a seed that cannot be unprotected costs the agent its id. *)
CreatedAnew == [id |-> New, usable |-> TRUE]

(* The id is kept, if there is one. *)
Created ==
  [id |-> IF IsIdentity(file) THEN file.id ELSE New, usable |-> TRUE]

(* The loss of the identity file, with nobody killed: a process that was   *)
(* refused removes it although another has already renamed its ".tmp" away *)
(* or removed it, or clears a ".tmp" that is all there is.                 *)
Destroys(p) ==
  \/ step[p] = "refused" /\ tmp = None /\ file' = None
  \/ step[p] = "failing" /\ file = None /\ tmp' = None

(* These steps of a save are behind its opening of the ".tmp": if it goes  *)
(* on, the ".tmp" is put in place, by it or by another.                    *)
Placing == {"writing", "written", "refused", "removed"}

(* Killed as the only one that could still put the file in place, or as    *)
(* the only writer of a ".tmp" that another is about to put in place.      *)
Abandons(p) ==
  LET others == {step[q] : q \in Procs \ {p}}
  IN  \/ file = None /\ step[p] \in Placing /\ others \cap Placing = {}
      \/ /\ step[p] = "writing" /\ tmp = Torn
         /\ "writing" \notin others /\ others \cap Placing # {}

LoadCredentials(p) ==
  /\ step[p] = "off"
  /\ IsIdentity(file) /\ file.usable
  /\ credentials' = [credentials EXCEPT ![p] = file]
  /\ Goto(p, "ready")
  /\ UNCHANGED <<contents, draft, lost, stored, reading, crashes>>

(* A file that is not there is one there never was: a start between a      *)
(* removal and the rename after it makes another id.  (A file that cannot  *)
(* be read for any other reason ends the process, which has done nothing.) *)
CreateCredentials(p) ==
  /\ step[p] = "off"
  /\ ~ (IsIdentity(file) /\ file.usable)
  /\ draft' = [draft EXCEPT ![p] = Created]
  /\ lost' = (lost \/ file = None)
  /\ Goto(p, "save")
  /\ UNCHANGED <<contents, credentials, stored, reading, crashes>>

SaveCredentials(p) ==
  /\ Save(p)
  /\ lost' = (lost \/ Destroys(p))
  /\ UNCHANGED <<credentials, stored, crashes>>

HaveCredentials(p) ==
  /\ step[p] = "saved"
  /\ credentials' = [credentials EXCEPT ![p] = draft[p]]
  /\ draft' = [draft EXCEPT ![p] = None]
  /\ Goto(p, "ready")
  /\ UNCHANGED <<contents, lost, stored, reading, crashes>>

(* Without credentials the process does not record. *)
NoCredentials(p) ==
  /\ step[p] = "failed"
  /\ draft' = [draft EXCEPT ![p] = None]
  /\ Goto(p, "off")
  /\ UNCHANGED <<contents, credentials, lost, stored, reading, crashes>>

-----------------------------------------------------------------------------
(* The session store *)

Name == [tick : Ticks, n : 1..MaxSessions]

(* No file and a torn one are neither an identity nor a name, and the path *)
(* of the identity is none of the store.                                   *)
ASSUME ValuesAssumption ==
  /\ None # Torn
  /\ None \notin Identity \cup Name /\ Torn \notin Identity
  /\ File \notin Name \cup {None}

(* Names sort by start time, those of the same time as text: "-10" before  *)
(* "-2", "-2" before the one without a number.                             *)
SortsBefore(a, b) ==
  \/ a.tick < b.tick
  \/ a.tick = b.tick /\ Place[a.n] < Place[b.n]

(* The files of a set in that order.  (SetToSortSeq says the same, by way  *)
(* of an operator of TLC that has no definition a proof could use.)        *)
SortedNames(names) ==
  CHOOSE s \in [1..Cardinality(names) -> names] :
    \A i, j \in DOMAIN s : i < j => SortsBefore(s[i], s[j])

SessionFiles == SortedNames(DOMAIN store)

IsOpen(name) == reading = name \/ \E p \in Procs : path[p] = name

(* Mutant: the file is opened whether or not it exists. *)
UniqueNameIgnored(t) == [tick |-> t, n |-> 1]

(* Names are tried until one does not exist.  The tries are one step: each *)
(* but the last changes nothing, and the last is an exclusive open.        *)
UniqueName(t) ==
  [tick |-> t,
   n |-> CHOOSE n \in 1..MaxSessions :
           /\ [tick |-> t, n |-> n] \notin DOMAIN store
           /\ \A m \in 1..(n - 1) : [tick |-> t, n |-> m] \in DOMAIN store]

CreateUnique(p, t) ==
  /\ step[p] = "ready" /\ sessions < MaxSessions
  /\ LET name == UniqueName(t) IN
       /\ path' = [path EXCEPT ![p] = name]
       /\ store' = [x \in DOMAIN store \cup {name} |->
                      IF x \in DOMAIN store THEN store[x] ELSE <<>>]
  /\ sessions' = sessions + 1
  /\ Goto(p, "created")
  /\ UNCHANGED <<identity, doomed, unpruned, reading, crashes>>

(* Mutant: the new session's file is not counted. *)
SurplusLessOne(names) == SubSeq(names, 1, Len(names) - Retain - 1)

Surplus(names) == SubSeq(names, 1, Len(names) - Retain)

PruneLists(p) ==
  /\ step[p] = "created"
  /\ doomed' = [doomed EXCEPT ![p] = Surplus(SessionFiles)]
  /\ Goto(p, "pruning")
  /\ UNCHANGED <<identity, store, path, sessions, unpruned, reading, crashes>>

PruneRemoves(p) ==
  /\ step[p] = "pruning" /\ doomed[p] # <<>>
  /\ LET name == Head(doomed[p]) IN
       /\ name \in DOMAIN store /\ ~ IsOpen(name)
       /\ store' = [x \in DOMAIN store \ {name} |-> store[x]]
  /\ doomed' = [doomed EXCEPT ![p] = Tail(@)]
  /\ UNCHANGED <<identity, path, sessions, unpruned, step, reading, crashes>>

(* The file to remove is open, or another process has removed it: the      *)
(* writer is closed again and the session goes unstored.                   *)
PruneFails(p) ==
  /\ step[p] = "pruning" /\ doomed[p] # <<>>
  /\ LET name == Head(doomed[p]) IN name \notin DOMAIN store \/ IsOpen(name)
  /\ doomed' = [doomed EXCEPT ![p] = <<>>]
  /\ path' = [path EXCEPT ![p] = None]
  /\ unpruned' = unpruned + 1
  /\ Goto(p, "ready")
  /\ UNCHANGED <<identity, store, sessions, reading, crashes>>

PruneEnds(p) ==
  /\ step[p] = "pruning" /\ doomed[p] = <<>>
  /\ Goto(p, "recording")
  /\ UNCHANGED <<identity, stored, reading, crashes>>

(* A line is "whole"; "torn", without its end; or "joined", of a torn one  *)
(* and what was written after it.                                          *)
EndsTorn(lines) == lines # <<>> /\ lines[Len(lines)] = "torn"

Written(lines, line) ==
  IF EndsTorn(lines)
    THEN [lines EXCEPT ![Len(lines)] = IF line = "whole" THEN "joined" ELSE "torn"]
    ELSE Append(lines, line)

Writes(p, line) ==
  /\ Len(store[path[p]]) < MaxRecords
  /\ store' = [store EXCEPT ![path[p]] = Written(@, line)]

(* A write that fails (the disk is full) may have written the beginning of *)
(* its record.  The callers go on with the next.                           *)
AppendRecord(p) ==
  /\ step[p] = "recording"
  /\ Writes(p, "whole") \/ Writes(p, "torn")
  /\ UNCHANGED <<identity, path, doomed, sessions, unpruned, step, reading, crashes>>

CloseWriter(p) ==
  /\ step[p] = "recording"
  /\ path' = [path EXCEPT ![p] = None]
  /\ Goto(p, "ready")
  /\ UNCHANGED <<identity, store, doomed, sessions, unpruned, reading, crashes>>

(* Mutant: an unfinished last line makes the file unreadable. *)
ReadRecordsStrictly(lines) ==
  IF \E i \in DOMAIN lines : lines[i] # "whole" THEN <<>> ELSE lines

WholeLines(lines) == SelectSeq(lines, LAMBDA l : l = "whole")

(* A line that cannot be parsed ends the records if it is the last, and    *)
(* makes the file unreadable otherwise.                                    *)
ReadRecords(lines) ==
  IF \E i \in DOMAIN lines : lines[i] # "whole" /\ i < Len(lines)
    THEN <<>>
    ELSE WholeLines(lines)

-----------------------------------------------------------------------------
(* A reader opens a file, and closes it; one at a time. *)
ReaderOpens(x) ==
  /\ reading = None
  /\ x \in DOMAIN store \cup {y \in {File} : file # None}
  /\ reading' = x
  /\ UNCHANGED <<identity, stored, step, crashes>>

ReaderCloses ==
  /\ reading # None
  /\ reading' = None
  /\ UNCHANGED <<identity, stored, step, crashes>>

(* The process ends between sessions. *)
Quit(p) ==
  /\ step[p] = "ready" /\ sessions < MaxSessions
  /\ credentials' = [credentials EXCEPT ![p] = None]
  /\ Goto(p, "off")
  /\ UNCHANGED <<contents, draft, lost, stored, reading, crashes>>

(* Killed in whatever it does; in the middle of a record, too. *)
Crash(p) ==
  /\ step[p] # "off" /\ crashes < MaxCrashes
  /\ crashes' = crashes + 1
  /\ \/ UNCHANGED store
     \/ step[p] = "recording" /\ Writes(p, "torn")
  /\ Goto(p, "off")
  /\ path' = [path EXCEPT ![p] = None]
  /\ doomed' = [doomed EXCEPT ![p] = <<>>]
  /\ lost' = (lost \/ Abandons(p))
  /\ unpruned' = unpruned + (IF step[p] \in {"created", "pruning"} THEN 1 ELSE 0)
  /\ draft' = [draft EXCEPT ![p] = None]
  /\ credentials' = [credentials EXCEPT ![p] = None]
  /\ UNCHANGED <<contents, sessions, reading>>

-----------------------------------------------------------------------------
(* No identity yet, one of an earlier version or whose seed cannot be      *)
(* unprotected (of another user, or restored from a backup), or a good one.*)
Init ==
  /\ file \in {None} \cup [id : {Known}, usable : BOOLEAN]
  /\ tmp = None /\ reading = None
  /\ step = [p \in Procs |-> "off"]
  /\ draft = [p \in Procs |-> None]
  /\ credentials = [p \in Procs |-> None]
  /\ store = <<>>
  /\ path = [p \in Procs |-> None]
  /\ doomed = [p \in Procs |-> <<>>]
  /\ sessions = 0 /\ crashes = 0
  /\ lost = (file = None) /\ unpruned = 0

Next ==
  \/ \E p \in Procs :
       \/ LoadCredentials(p) \/ CreateCredentials(p) \/ SaveCredentials(p)
       \/ HaveCredentials(p) \/ NoCredentials(p)
       \/ \E t \in Ticks : CreateUnique(p, t)
       \/ PruneLists(p) \/ PruneRemoves(p) \/ PruneFails(p) \/ PruneEnds(p)
       \/ AppendRecord(p) \/ CloseWriter(p)
       \/ Quit(p) \/ Crash(p)
  \/ \E x \in DOMAIN store \cup {File} : ReaderOpens(x)
  \/ ReaderCloses

Spec == Init /\ [][Next]_vars

-----------------------------------------------------------------------------
(* An agent id that is on disk is lost by the steps of `lost` only:        *)
(* removing the file when its replacement is gone or the replacement when  *)
(* the file is gone (two saves that overlap), starting while there is no   *)
(* file, being killed as the last that could put it in place, or in the    *)
(* middle of a write that another renames.  Until one of them is taken,    *)
(* every process records under the id and the file has it or somebody is   *)
(* about to put it in place: across keys renewed at once, with one ".tmp"  *)
(* for all, saves refused because the tray reads or another writes,        *)
(* removals, failed saves, and processes killed at any other step.         *)
KnownIdIsKept ==
  ~ lost =>
    /\ IF file = None THEN \E p \in Procs : step[p] \in Placing
                      ELSE IsIdentity(file) /\ file.id = Known
    /\ \A p \in Procs : credentials[p] # None => credentials[p].id = Known

(* store.go: "prunes old sessions so the store never exceeds retain files" *)
(* holds up to the sessions being created and the prunings that failed:    *)
(* each leaves one file too many at most.                                  *)
StoreIsBounded ==
  Cardinality(DOMAIN store) <=
    Retain + unpruned + Cardinality({p \in Procs : step[p] \in {"created", "pruning"}})

(* store.go: "prevents two recorder processes that start during the same   *)
(* clock tick from appending unrelated sessions to one file": a writer     *)
(* begins with an empty file, which is its own while it has it open.       *)
OneSessionPerFile ==
  \A p \in Procs : path[p] # None =>
    /\ path[p] \in DOMAIN store
    /\ step[p] \in {"created", "pruning"} => store[path[p]] = <<>>
    /\ \A q \in Procs \ {p} : path[q] # path[p]

(* store.go: "a crash loses at most the record being written": all records *)
(* appended in full are read back from every file, while it is being       *)
(* written, after its writer was killed and after a write that failed -    *)
(* unless the writer went on after the failure, and joined a record to the *)
(* torn line.                                                              *)
CrashLosesOneRecord ==
  \A name \in DOMAIN store :
    \/ \E i \in DOMAIN store[name] : store[name][i] = "joined"
    \/ ReadRecords(store[name]) = WholeLines(store[name])
=============================================================================
