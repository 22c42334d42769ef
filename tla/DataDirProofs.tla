---------------------------- MODULE DataDirProofs ----------------------------
(***************************************************************************)
(* DataDir.tla for any number of processes, sessions, records and          *)
(* crashes: an agent id on disk is kept, no two sessions share a file, the *)
(* store stays bounded, and records written whole are read back.           *)
(***************************************************************************)
EXTENDS DataDir, FiniteSetTheorems, WellFoundedInduction, TLAPS

-----------------------------------------------------------------------------
(* The inductive invariant *)

Steps ==
  {"off", "save", "writing", "written", "refused", "removed", "failing", "saved", "failed",
   "ready", "created", "pruning", "recording"}

Drafting == {"save", "writing", "written", "refused", "removed", "failing", "saved"}

Owning == {"created", "pruning", "recording"}

IdentityTypes ==
  /\ file \in {None, Torn} \cup Identity
  /\ tmp \in {None, Torn} \cup Identity
  /\ draft \in [Procs -> {None} \cup Identity]
  /\ credentials \in [Procs -> {None} \cup Identity]
  /\ \A p \in Procs : step[p] \in Drafting => draft[p] # None

StoreTypes ==
  /\ DOMAIN store \subseteq Name
  /\ store = [x \in DOMAIN store |-> store[x]]
  /\ path \in [Procs -> {None} \cup Name]
  /\ \A p \in Procs : path[p] # None <=> step[p] \in Owning

Types == step \in [Procs -> Steps] /\ lost \in BOOLEAN /\ IdentityTypes /\ StoreTypes

(* Wherever an id is - on disk, half saved, in memory - it is the known    *)
(* one.                                                                    *)
IsKnown(x) == x \in Identity => x.id = Known

KnownEverywhere ==
  ~ lost =>
    /\ file # Torn /\ IsKnown(file) /\ IsKnown(tmp)
    /\ \A p \in Procs : IsKnown(draft[p]) /\ IsKnown(credentials[p])

(* Behind its writing and before its last rename. *)
Renaming == {"written", "refused", "removed"}

NoneIsRenaming == \A p \in Procs : step[p] \notin Renaming

SomeoneIsPlacing == \E p \in Procs : step[p] \in Placing

(* While there is no file its ".tmp" is there, nothing keeps it from being *)
(* renamed but a writer, and somebody is going to; nobody is going to      *)
(* rename a torn one.                                                      *)
Recoverable ==
  ~ lost =>
    /\ file = None => ~ FileIsRead /\ tmp # None /\ SomeoneIsPlacing
    /\ tmp = Torn => TmpIsOpen \/ NoneIsRenaming

(* There are no more files than sessions were begun: a name is free.       *)
Counted ==
  /\ sessions \in Nat
  /\ IsFiniteSet(DOMAIN store)
  /\ Cardinality(DOMAIN store) <= sessions

IInv == Types /\ KnownEverywhere /\ Recoverable /\ Counted /\ OneSessionPerFile

-----------------------------------------------------------------------------
(* A nonempty set of numbers has a least one. *)
LEMMA LeastNumber ==
  ASSUME NEW S, S \subseteq Nat, S # {}
  PROVE  \E n \in S : \A m \in S : n <= m
<1>1. \E n \in S : \A m \in S : ~ (<<m, n>> \in OpToRel(<, Nat))
  BY NatLessThanWellFounded, WFMin
<1>2. PICK n \in S : \A m \in S : ~ (<<m, n>> \in OpToRel(<, Nat))
  BY <1>1
<1>3. ASSUME NEW m \in S PROVE n <= m
  <2>1. <<m, n>> \in Nat \X Nat
    OBVIOUS
  <2>2. <<m, n>>[1] < <<m, n>>[2] => <<m, n>> \in OpToRel(<, Nat)
    BY <2>1 DEF OpToRel
  <2>3. ~ (m < n)
    BY <1>2, <2>2
  <2> QED BY <2>3
<1> QED BY <1>3

(* Fewer files than names of a start time: one of those names is free.     *)
LEMMA SomeNameIsFree ==
  ASSUME NEW t \in Ticks,
         IsFiniteSet(DOMAIN store), Cardinality(DOMAIN store) < MaxSessions
  PROVE  \E n \in 1..MaxSessions : [tick |-> t, n |-> n] \notin DOMAIN store
<1> SUFFICES ASSUME \A n \in 1..MaxSessions : [tick |-> t, n |-> n] \in DOMAIN store
             PROVE  FALSE
  OBVIOUS
<1> DEFINE named == [n \in 1..MaxSessions |-> [tick |-> t, n |-> n]]
<1>1. named \in [1..MaxSessions -> DOMAIN store]
  OBVIOUS
<1>2. ASSUME NEW a \in 1..MaxSessions, NEW b \in 1..MaxSessions, named[a] = named[b]
      PROVE  a = b
  <2>1. [tick |-> t, n |-> a].n = [tick |-> t, n |-> b].n
    BY <1>2
  <2> QED BY <2>1
<1>3. named \in Injection(1..MaxSessions, DOMAIN store)
  <2> HIDE DEF named
  <2> QED BY <1>1, <1>2 DEF Injection, IsInjective
<1>4. Cardinality(1..MaxSessions) <= Cardinality(DOMAIN store)
  <2> HIDE DEF named
  <2> QED BY <1>3, FS_Injection
<1>5. Cardinality(1..MaxSessions) = MaxSessions
  BY FS_Interval, DataDirAssumption
<1>6. Cardinality(DOMAIN store) \in Nat
  BY FS_CardinalityType
<1> QED BY <1>4, <1>5, <1>6, DataDirAssumption

(* store.go, the loop over the names: what it opens did not exist.         *)
LEMMA UniqueNameIsFree ==
  ASSUME NEW t \in Ticks,
         IsFiniteSet(DOMAIN store), Cardinality(DOMAIN store) < MaxSessions
  PROVE  UniqueName(t) \in Name /\ UniqueName(t) \notin DOMAIN store
<1> DEFINE free == {n \in 1..MaxSessions : [tick |-> t, n |-> n] \notin DOMAIN store}
           First(n) == /\ [tick |-> t, n |-> n] \notin DOMAIN store
                       /\ \A m \in 1..(n - 1) : [tick |-> t, n |-> m] \in DOMAIN store
<1>1. PICK n \in free : \A m \in free : n <= m
  <2>1. free # {} /\ free \subseteq Nat
    BY SomeNameIsFree
  <2> HIDE DEF free
  <2> QED BY <2>1, LeastNumber
<1>2. n \in 1..MaxSessions /\ First(n)
  <2>1. ASSUME NEW m \in 1..(n - 1) PROVE [tick |-> t, n |-> m] \in DOMAIN store
    <3>1. m \in 1..MaxSessions /\ ~ (n <= m)
      BY DataDirAssumption
    <3>2. m \notin free
      BY <1>1, <3>1
    <3> QED BY <3>1, <3>2
  <2> QED BY <1>1, <2>1
<1> DEFINE least == CHOOSE k \in 1..MaxSessions : First(k)
<1>3. least \in 1..MaxSessions /\ First(least)
  <2> HIDE DEF First
  <2> QED BY <1>2
<1>4. UniqueName(t) = [tick |-> t, n |-> least]
  BY DEF UniqueName
<1> HIDE DEF least
<1> QED BY <1>3, <1>4 DEF Name

-----------------------------------------------------------------------------
(* The store is what it was, and so is whether the process has a file.     *)
StoreInv == StoreTypes /\ Counted /\ OneSessionPerFile

LEMMA StoreStays ==
  ASSUME step \in [Procs -> Steps], StoreInv, UNCHANGED stored,
         NEW p \in Procs, NEW s \in Steps, Goto(p, s),
         step[p] \in Owning <=> s \in Owning,
         s \in {"created", "pruning"} => step[p] \in {"created", "pruning"}
  PROVE  StoreInv'
<1> USE DEF stored, StoreInv
<1>1. \A q \in Procs : step'[q] = IF q = p THEN s ELSE step[q]
  BY DEF Goto
<1>2. StoreTypes'
  BY <1>1 DEF StoreTypes
<1>3. Counted'
  BY DEF Counted
<1>4. OneSessionPerFile'
  BY <1>1 DEF OneSessionPerFile
<1> QED BY <1>2, <1>3, <1>4

(* The identity's part of the state is what it was; the process is at none *)
(* of the steps of a save, before and after.                               *)
IdentityInv == lost \in BOOLEAN /\ IdentityTypes /\ KnownEverywhere /\ Recoverable

(* A process that is not placing a file neither hinders nor helps. *)
LEMMA RecoverableStays ==
  ASSUME step \in [Procs -> Steps], Recoverable, UNCHANGED contents, lost => lost',
         file = None /\ ~ FileIsRead => ~ FileIsRead',
         NEW p \in Procs, NEW s \in Steps, Goto(p, s) \/ UNCHANGED step,
         UNCHANGED step \/ step[p] \notin Placing, s \notin Placing \/ UNCHANGED step
  PROVE  Recoverable'
<1> USE DEF contents
<1>1. \A q \in Procs : \A x \in Placing : step'[q] = x <=> step[q] = x
  BY DEF Goto
<1>2. SomeoneIsPlacing => SomeoneIsPlacing'
  BY <1>1 DEF SomeoneIsPlacing
<1>3. TmpIsOpen => TmpIsOpen'
  BY <1>1 DEF TmpIsOpen, Placing
<1>4. NoneIsRenaming => NoneIsRenaming'
  BY <1>1 DEF NoneIsRenaming, Renaming, Placing
<1> QED BY <1>2, <1>3, <1>4 DEF Recoverable

LEMMA IdentityStays ==
  ASSUME step \in [Procs -> Steps], IdentityInv, UNCHANGED identity,
         file = None /\ ~ FileIsRead => ~ FileIsRead',
         NEW p \in Procs, NEW s \in Steps, Goto(p, s) \/ UNCHANGED step,
         UNCHANGED step \/ step[p] \notin Drafting, s \notin Drafting \/ UNCHANGED step
  PROVE  IdentityInv'
<1> USE DEF identity, IdentityInv
<1>1. \A q \in Procs : step'[q] # step[q] => q = p /\ step'[q] \notin Drafting
  BY DEF Goto
<1>2. IdentityTypes'
  BY <1>1 DEF IdentityTypes
<1>3. KnownEverywhere'
  BY DEF KnownEverywhere, IsKnown
<1>4. Recoverable'
  BY RecoverableStays DEF Drafting, Placing, contents
<1> QED BY <1>2, <1>3, <1>4

(* The file is replaced by a whole ".tmp". *)
LEMMA ReplaceKeepsIdentity ==
  ASSUME step \in [Procs -> Steps], IdentityInv, ValuesAssumption,
         NEW p \in Procs, step[p] \in {"written", "removed"}, Replace(p),
         UNCHANGED <<draft, credentials, lost, reading>>
  PROVE  IdentityInv' /\ step' \in [Procs -> Steps] /\ Goto(p, "saved")
<1> USE DEF IdentityInv
<1>n. None \notin Identity /\ Torn \notin Identity /\ None # Torn
  BY DEF ValuesAssumption
<1>1. Goto(p, "saved") /\ file' = tmp /\ tmp' = None /\ tmp # None /\ ~ TmpIsOpen
  BY DEF Replace, Renames
<1>2. step' \in [Procs -> Steps]
  BY <1>1 DEF Goto, Steps
<1>3. IdentityTypes'
  BY <1>1 DEF IdentityTypes, Goto, Drafting
<1>4. ~ lost => tmp # Torn
  BY <1>1 DEF Recoverable, NoneIsRenaming, Renaming
<1>5. KnownEverywhere'
  BY <1>1, <1>4, <1>n DEF KnownEverywhere, IsKnown
<1>6. Recoverable'
  BY <1>1, <1>n DEF Recoverable
<1> QED BY <1>1, <1>2, <1>3, <1>5, <1>6

(* Nothing is replaced: the process goes from one step of its save to      *)
(* another, and the file or the ".tmp" may be gone.                        *)
LEMMA RefusedKeepsIdentity ==
  ASSUME step \in [Procs -> Steps], IdentityInv, ValuesAssumption,
         NEW p \in Procs, NEW s \in {"refused", "removed", "failing", "failed"},
         Goto(p, s), step[p] \in {"written", "refused", "removed", "failing"},
         file' \in {file, None}, tmp' \in {tmp, None},
         lost' \in BOOLEAN, lost => lost',
         s \in Renaming => step[p] \in Renaming,
         ~ lost' /\ file' = None =>
            /\ ~ FileIsRead /\ tmp' # None
            /\ s \in Placing \/ TmpIsOpen,
         UNCHANGED <<draft, credentials, reading>>
  PROVE  IdentityInv' /\ step' \in [Procs -> Steps]
<1> USE DEF IdentityInv
<1>n. None \notin Identity /\ Torn \notin Identity /\ None # Torn
  BY DEF ValuesAssumption
<1>1. \A q \in Procs : step'[q] = IF q = p THEN s ELSE step[q]
  BY DEF Goto
<1>2. step' \in [Procs -> Steps]
  BY DEF Goto, Steps
<1>3. IdentityTypes'
  BY <1>1 DEF IdentityTypes, Drafting
<1>4. KnownEverywhere'
  BY <1>n DEF KnownEverywhere, IsKnown
<1>5. TmpIsOpen => TmpIsOpen'
  <2> SUFFICES ASSUME NEW q \in Procs, step[q] = "writing" PROVE TmpIsOpen'
    BY DEF TmpIsOpen
  <2>1. step'[q] = "writing"
    BY <1>1
  <2> QED BY <2>1 DEF TmpIsOpen
<1>6. NoneIsRenaming => NoneIsRenaming'
  BY <1>1 DEF NoneIsRenaming
<1>7. TmpIsOpen' => SomeoneIsPlacing'
  BY DEF TmpIsOpen, SomeoneIsPlacing, Placing
<1>8. s \in Placing => SomeoneIsPlacing'
  BY <1>1 DEF SomeoneIsPlacing
<1>9. ~ lost' /\ file' = None => ~ FileIsRead' /\ tmp' # None /\ SomeoneIsPlacing'
  BY <1>5, <1>7, <1>8 DEF FileIsRead
<1>10. ~ lost' /\ tmp' = Torn => TmpIsOpen' \/ NoneIsRenaming'
  BY <1>5, <1>6, <1>n DEF Recoverable
<1>11. Recoverable'
  BY <1>9, <1>10 DEF Recoverable
<1> QED BY <1>2, <1>3, <1>4, <1>11

(* The system calls of a save. *)
LEMMA SaveKeepsIdentity ==
  ASSUME step \in [Procs -> Steps], IdentityInv, ValuesAssumption,
         NEW p \in Procs, SaveCredentials(p)
  PROVE  IdentityInv' /\ step' \in [Procs -> Steps] /\ UNCHANGED stored
         /\ \E s \in Steps \ Owning : Goto(p, s) /\ step[p] \in Steps \ Owning
<1> USE DEF IdentityInv
<1>u. lost' = (lost \/ Destroys(p)) /\ UNCHANGED <<credentials, stored>>
  BY DEF SaveCredentials
<1>b. lost' \in BOOLEAN /\ (lost => lost')
  BY <1>u
<1>n. None \notin Identity /\ Torn \notin Identity /\ None # Torn
  BY DEF ValuesAssumption
<1>d. step[p] \notin {"refused", "failing"} => lost' = lost
  BY <1>u DEF Destroys
<1>1. CASE OpenTmp(p)
  <2>1. /\ step[p] = "save" /\ Goto(p, "writing") /\ tmp' = Torn
        /\ UNCHANGED <<file, draft, reading>> /\ lost' = lost
    BY <1>1, <1>d DEF OpenTmp
  <2>2. step' \in [Procs -> Steps]
    BY <2>1 DEF Goto, Steps
  <2>3. IdentityTypes'
    BY <2>1, <1>u DEF IdentityTypes, Goto, Drafting
  <2>4. step'[p] = "writing"
    BY <2>1 DEF Goto
  <2>5. TmpIsOpen' /\ SomeoneIsPlacing'
    BY <2>4 DEF TmpIsOpen, SomeoneIsPlacing, Placing
  <2>6. KnownEverywhere'
    BY <2>1, <1>u, <1>n DEF KnownEverywhere, IsKnown
  <2>7. Recoverable'
    BY <2>1, <2>5, <1>n DEF Recoverable, FileIsRead
  <2> QED BY <2>1, <2>2, <2>3, <2>6, <2>7, <1>u DEF Steps, Owning
<1>2. CASE WriteTmp(p)
  <2>1. /\ step[p] = "writing" /\ Goto(p, "written") /\ tmp' = draft[p]
        /\ UNCHANGED <<file, draft, reading>> /\ lost' = lost
    BY <1>2, <1>d DEF WriteTmp
  <2>2. step' \in [Procs -> Steps]
    BY <2>1 DEF Goto, Steps
  <2>3. IdentityTypes'
    BY <2>1, <1>u DEF IdentityTypes, Goto, Drafting
  <2>4. tmp' \in Identity
    BY <2>1 DEF IdentityTypes, Drafting
  <2>5. step'[p] = "written"
    BY <2>1 DEF Goto
  <2>6. SomeoneIsPlacing'
    BY <2>5 DEF SomeoneIsPlacing, Placing
  <2>7. KnownEverywhere'
    BY <2>1, <2>4, <1>u, <1>n DEF KnownEverywhere, IsKnown
  <2>8. Recoverable'
    BY <2>1, <2>4, <2>6, <1>n DEF Recoverable, FileIsRead
  <2> QED BY <2>1, <2>2, <2>3, <2>7, <2>8, <1>u DEF Steps, Owning
<1>3. ASSUME step[p] \in {"written", "removed"}, Replace(p), UNCHANGED <<draft, reading>>
      PROVE  IdentityInv' /\ step' \in [Procs -> Steps] /\ Goto(p, "saved")
  <2>1. lost' = lost
    BY <1>3, <1>d
  <2> QED BY <1>3, <1>u, <2>1, ReplaceKeepsIdentity
<1>5. CASE Rename(p)
  <2>1. step[p] = "written" /\ UNCHANGED <<draft, reading>>
    BY <1>5 DEF Rename
  <2>2. CASE Replace(p)
    BY <2>1, <2>2, <1>3, <1>u DEF Steps, Owning
  <2>3. CASE Goto(p, "refused") /\ UNCHANGED contents
    <3>1. lost' = lost /\ file' = file /\ tmp' = tmp
      BY <1>d, <2>1, <2>3 DEF contents
    <3>2. ~ lost' /\ file' = None => ~ FileIsRead /\ tmp' # None
      BY <3>1 DEF Recoverable
    <3>3. "refused" \in Placing /\ step[p] \in Renaming
      BY <2>1 DEF Placing, Renaming
    <3>4. IdentityInv' /\ step' \in [Procs -> Steps]
      BY <1>b, <1>u, <2>1, <2>3, <3>1, <3>2, <3>3, RefusedKeepsIdentity
    <3> QED BY <2>1, <2>3, <3>4, <1>u DEF Steps, Owning
  <2> QED BY <1>5, <2>2, <2>3 DEF Rename
<1>6. CASE RemoveFile(p)
  <2>1. step[p] = "refused" /\ UNCHANGED <<tmp, draft, reading>>
    BY <1>6 DEF RemoveFile
  <2>2. CASE ~ FileIsRead /\ file' = None /\ Goto(p, "removed")
    <3>1. ~ lost' => tmp' # None
      BY <1>u, <2>1, <2>2 DEF Destroys
    <3>2. "removed" \in Placing /\ step[p] \in Renaming
      BY <2>1 DEF Placing, Renaming
    <3>3. IdentityInv' /\ step' \in [Procs -> Steps]
      BY <1>b, <1>u, <2>1, <2>2, <3>1, <3>2, RefusedKeepsIdentity
    <3> QED BY <2>1, <2>2, <3>3, <1>u DEF Steps, Owning
  <2>3. CASE FileIsRead /\ Goto(p, "failing") /\ UNCHANGED file
    <3>1. ~ lost' => file' # None
      BY <1>b, <2>3 DEF Recoverable
    <3>2. "failing" \notin Renaming
      BY DEF Renaming
    <3>3. IdentityInv' /\ step' \in [Procs -> Steps]
      BY <1>b, <1>u, <2>1, <2>3, <3>1, <3>2, RefusedKeepsIdentity
    <3> QED BY <2>1, <2>3, <3>3, <1>u DEF Steps, Owning
  <2> QED BY <1>6, <2>2, <2>3 DEF RemoveFile
<1>7. CASE RenameAgain(p)
  <2>1. step[p] = "removed" /\ UNCHANGED <<draft, reading>>
    BY <1>7 DEF RenameAgain
  <2>2. CASE Replace(p)
    BY <2>1, <2>2, <1>3, <1>u DEF Steps, Owning
  <2>3. CASE ~ Renames /\ Goto(p, "failing") /\ UNCHANGED contents
    <3>1. lost' = lost /\ file' = file /\ tmp' = tmp
      BY <1>d, <2>1, <2>3 DEF contents
    <3>2. ~ lost' /\ file' = None => ~ FileIsRead /\ tmp' # None
      BY <3>1 DEF Recoverable
    <3>3. ~ lost' /\ file' = None => TmpIsOpen
      BY <2>3, <3>1, <3>2 DEF Renames
    <3>4. "failing" \notin Renaming
      BY DEF Renaming
    <3>5. IdentityInv' /\ step' \in [Procs -> Steps]
      BY <1>b, <1>u, <2>1, <2>3, <3>1, <3>2, <3>3, <3>4, RefusedKeepsIdentity
    <3> QED BY <2>1, <2>3, <3>5, <1>u DEF Steps, Owning
  <2> QED BY <1>7, <2>2, <2>3 DEF RenameAgain
<1>8. CASE RemoveTmp(p)
  <2>1. /\ step[p] = "failing" /\ Goto(p, "failed") /\ UNCHANGED <<file, draft, reading>>
        /\ tmp' = IF TmpIsOpen THEN tmp ELSE None
    BY <1>8 DEF RemoveTmp
  <2>2. ~ lost' /\ file' = None => ~ FileIsRead /\ tmp' # None /\ TmpIsOpen
    BY <1>b, <1>u, <2>1 DEF Destroys, Recoverable
  <2>3. "failed" \notin Renaming /\ tmp' \in {tmp, None}
    BY <2>1 DEF Renaming
  <2>4. IdentityInv' /\ step' \in [Procs -> Steps]
    BY <1>b, <1>u, <2>1, <2>2, <2>3, RefusedKeepsIdentity
  <2> QED BY <2>1, <2>4, <1>u DEF Steps, Owning
<1> QED BY <1>1, <1>2, <1>5, <1>6, <1>7, <1>8 DEF SaveCredentials, Save

(* The other steps at which credentials, or what is to be saved, change.   *)
LEMMA CredentialsKeepIdentity ==
  ASSUME step \in [Procs -> Steps], IdentityInv, ValuesAssumption,
         NEW p \in Procs, NEW s \in Steps \ Placing, Goto(p, s), step[p] \notin Placing,
         UNCHANGED <<contents, reading>>, lost' \in BOOLEAN, lost => lost',
         NEW x \in {None} \cup Identity, draft' = [draft EXCEPT ![p] = x],
         s \in Drafting => x # None,
         NEW y \in {None} \cup Identity,
         UNCHANGED credentials \/ credentials' = [credentials EXCEPT ![p] = y],
         ~ lost' => IsKnown(x) /\ IsKnown(y)
  PROVE  IdentityInv'
<1> USE DEF IdentityInv
<1>1. \A q \in Procs : /\ step'[q] = IF q = p THEN s ELSE step[q]
                       /\ draft'[q] = IF q = p THEN x ELSE draft[q]
                       /\ credentials'[q] \in {y, credentials[q]}
  BY DEF Goto, IdentityTypes
<1>2. IdentityTypes'
  BY <1>1 DEF IdentityTypes, contents
<1>3. KnownEverywhere'
  BY <1>1 DEF KnownEverywhere, IsKnown, contents
<1>4. Recoverable'
  BY RecoverableStays DEF FileIsRead
<1> QED BY <1>2, <1>3, <1>4

(* A process killed anywhere: unless it abandons it, the file comes back.  *)
LEMMA CrashKeepsIdentity ==
  ASSUME step \in [Procs -> Steps], IdentityInv, ValuesAssumption,
         NEW p \in Procs, Crash(p)
  PROVE  IdentityInv' /\ step' \in [Procs -> Steps]
<1> USE DEF IdentityInv
<1>n. None \notin Identity
  BY DEF ValuesAssumption
<1>1. /\ Goto(p, "off") /\ lost' = (lost \/ Abandons(p))
      /\ draft' = [draft EXCEPT ![p] = None]
      /\ credentials' = [credentials EXCEPT ![p] = None]
      /\ UNCHANGED <<contents, reading>>
  BY DEF Crash
<1>2. \A q \in Procs : /\ step'[q] = IF q = p THEN "off" ELSE step[q]
                       /\ draft'[q] = IF q = p THEN None ELSE draft[q]
                       /\ credentials'[q] = IF q = p THEN None ELSE credentials[q]
  BY <1>1 DEF Goto, IdentityTypes
<1>3. step' \in [Procs -> Steps]
  BY <1>1 DEF Goto, Steps
<1>4. IdentityTypes'
  BY <1>1, <1>2 DEF IdentityTypes, contents, Drafting
<1>5. KnownEverywhere'
  BY <1>1, <1>2, <1>n DEF KnownEverywhere, IsKnown, contents
<1>6. ASSUME ~ lost', file' = None PROVE ~ FileIsRead' /\ tmp' # None /\ SomeoneIsPlacing'
  <2>1. ~ lost /\ ~ Abandons(p) /\ file = None
    BY <1>1, <1>6 DEF contents
  <2>2. ~ FileIsRead /\ tmp # None /\ SomeoneIsPlacing
    BY <2>1 DEF Recoverable
  <2>3. \E q \in Procs \ {p} : step[q] \in Placing
    BY <2>1, <2>2 DEF Abandons, SomeoneIsPlacing
  <2>4. SomeoneIsPlacing'
    BY <1>2, <2>3 DEF SomeoneIsPlacing
  <2> QED BY <1>1, <2>2, <2>4 DEF FileIsRead, contents
<1>7. ASSUME ~ lost', tmp' = Torn PROVE TmpIsOpen' \/ NoneIsRenaming'
  <2>1. ~ lost /\ ~ Abandons(p) /\ tmp = Torn
    BY <1>1, <1>7 DEF contents
  <2>2. TmpIsOpen \/ NoneIsRenaming
    BY <2>1 DEF Recoverable
  <2>3. CASE NoneIsRenaming
    BY <1>2, <2>3 DEF NoneIsRenaming, Renaming
  <2>4. CASE \E q \in Procs \ {p} : step[q] = "writing"
    BY <1>2, <2>4 DEF TmpIsOpen
  <2>5. CASE step[p] = "writing" /\ ~ \E q \in Procs \ {p} : step[q] = "writing"
    <3>1. \A q \in Procs \ {p} : step[q] \notin Placing
      BY <2>1, <2>5 DEF Abandons
    <3> QED BY <1>2, <3>1 DEF NoneIsRenaming, Renaming, Placing
  <2> QED BY <2>2, <2>3, <2>4, <2>5 DEF TmpIsOpen
<1>8. Recoverable'
  BY <1>6, <1>7 DEF Recoverable
<1> QED BY <1>1, <1>3, <1>4, <1>5, <1>8

(* CreateUnique: the new name is nobody's. *)
LEMMA CreateKeepsStore ==
  ASSUME step \in [Procs -> Steps], StoreInv, ValuesAssumption, DataDirAssumption,
         NEW p \in Procs, NEW t \in Ticks, CreateUnique(p, t)
  PROVE  StoreInv'
<1> USE DEF StoreInv
<1> DEFINE name == UniqueName(t)
<1>1. name \in Name /\ name \notin DOMAIN store
  <2>1. IsFiniteSet(DOMAIN store) /\ Cardinality(DOMAIN store) \in Nat
    BY FS_CardinalityType DEF Counted
  <2>2. Cardinality(DOMAIN store) < MaxSessions
    BY <2>1 DEF CreateUnique, Counted, DataDirAssumption
  <2> QED BY <2>1, <2>2, UniqueNameIsFree
<1>2. /\ step[p] = "ready" /\ Goto(p, "created")
      /\ path' = [path EXCEPT ![p] = name]
      /\ store' = [x \in DOMAIN store \cup {name} |->
                     IF x \in DOMAIN store THEN store[x] ELSE <<>>]
      /\ sessions' = sessions + 1
  BY DEF CreateUnique
<1> HIDE DEF name
<1>3. \A q \in Procs : /\ step'[q] = IF q = p THEN "created" ELSE step[q]
                       /\ path'[q] = IF q = p THEN name ELSE path[q]
  BY <1>2 DEF Goto, StoreTypes
<1>4. StoreTypes'
  <2>1. name # None
    BY <1>1 DEF ValuesAssumption
  <2>2. path' \in [Procs -> {None} \cup Name]
    BY <1>1, <1>2 DEF StoreTypes
  <2>3. DOMAIN store' = DOMAIN store \cup {name} /\ store' = [x \in DOMAIN store' |-> store'[x]]
    BY <1>2
  <2> QED BY <2>1, <2>2, <2>3, <1>1, <1>3 DEF StoreTypes, Owning
<1>5. Counted'
  <2>1. DOMAIN store' = DOMAIN store \cup {name}
    BY <1>2
  <2>2. IsFiniteSet(DOMAIN store') /\ Cardinality(DOMAIN store') = Cardinality(DOMAIN store) + 1
    BY <2>1, <1>1, FS_AddElement DEF Counted
  <2>3. Cardinality(DOMAIN store) \in Nat
    BY FS_CardinalityType DEF Counted
  <2> QED BY <2>2, <2>3, <1>2 DEF Counted
<1>6. OneSessionPerFile'
  <2> SUFFICES ASSUME NEW q \in Procs, path'[q] # None
      PROVE  /\ path'[q] \in DOMAIN store'
             /\ step'[q] \in {"created", "pruning"} => store'[path'[q]] = <<>>
             /\ \A r \in Procs \ {q} : path'[r] # path'[q]
    BY DEF OneSessionPerFile
  <2>1. DOMAIN store' = DOMAIN store \cup {name} /\ store'[name] = <<>>
        /\ \A x \in DOMAIN store : store'[x] = store[x]
    BY <1>1, <1>2
  <2>2. \A r \in Procs : path[r] # name
    BY <1>1 DEF OneSessionPerFile, ValuesAssumption
  <2>3. CASE q = p
    BY <2>1, <2>2, <2>3, <1>3
  <2>4. CASE q # p
    BY <2>1, <2>2, <2>4, <1>3 DEF OneSessionPerFile
  <2> QED BY <2>3, <2>4
<1> QED BY <1>4, <1>5, <1>6

(* Prune removes no file that somebody writes. *)
LEMMA PruneKeepsStore ==
  ASSUME step \in [Procs -> Steps], StoreInv, ValuesAssumption,
         NEW p \in Procs, PruneRemoves(p)
  PROVE  StoreInv'
<1> USE DEF StoreInv
<1> DEFINE name == Head(doomed[p])
<1>1. /\ name \in DOMAIN store
      /\ \A q \in Procs : path[q] # name
      /\ store' = [x \in DOMAIN store \ {name} |-> store[x]]
      /\ UNCHANGED <<path, sessions, step>>
  BY DEF PruneRemoves, IsOpen
<1> HIDE DEF name
<1>2. /\ DOMAIN store' = DOMAIN store \ {name}
      /\ \A x \in DOMAIN store' : store'[x] = store[x]
      /\ store' = [x \in DOMAIN store' |-> store'[x]]
  BY <1>1
<1>3. StoreTypes'
  BY <1>1, <1>2 DEF StoreTypes
<1>4. Counted'
  <2>1. IsFiniteSet(DOMAIN store') /\ Cardinality(DOMAIN store') <= Cardinality(DOMAIN store)
    BY <1>2, FS_Subset DEF Counted
  <2>2. Cardinality(DOMAIN store) \in Nat /\ Cardinality(DOMAIN store') \in Nat
    BY <2>1, FS_CardinalityType DEF Counted
  <2> QED BY <2>1, <2>2, <1>1 DEF Counted
<1>5. OneSessionPerFile'
  BY <1>1, <1>2 DEF OneSessionPerFile
<1> QED BY <1>3, <1>4, <1>5

(* A record goes to the writer's own file. *)
LEMMA WriteKeepsStore ==
  ASSUME step \in [Procs -> Steps], StoreInv, ValuesAssumption,
         NEW p \in Procs, NEW text, step[p] = "recording", Writes(p, text),
         UNCHANGED <<path, sessions, step>>
  PROVE  StoreInv'
<1> USE DEF StoreInv
<1> DEFINE line == Written(store[path[p]], text)
<1>1. store' = [store EXCEPT ![path[p]] = line]
  BY DEF Writes
<1> HIDE DEF line
<1>2. DOMAIN store' = DOMAIN store /\ \A x \in DOMAIN store : x # path[p] => store'[x] = store[x]
  BY <1>1
<1>3. StoreTypes'
  BY <1>1, <1>2 DEF StoreTypes
<1>4. Counted'
  BY <1>2 DEF Counted
<1>5. path[p] # None
  BY DEF StoreTypes, Owning
<1>6. OneSessionPerFile'
  BY <1>2, <1>5 DEF OneSessionPerFile
<1> QED BY <1>3, <1>4, <1>6

(* A writer closes its file; the store stays. *)
LEMMA CloseKeepsStore ==
  ASSUME step \in [Procs -> Steps], StoreInv,
         NEW p \in Procs, NEW s \in Steps \ Owning, Goto(p, s),
         path' = [path EXCEPT ![p] = None], UNCHANGED <<store, sessions>>
  PROVE  StoreInv'
<1> USE DEF StoreInv
<1>1. \A q \in Procs : /\ step'[q] = IF q = p THEN s ELSE step[q]
                       /\ path'[q] = IF q = p THEN None ELSE path[q]
  BY DEF Goto, StoreTypes
<1>2. StoreTypes'
  BY <1>1 DEF StoreTypes
<1>3. Counted'
  BY DEF Counted
<1>4. OneSessionPerFile'
  BY <1>1 DEF OneSessionPerFile
<1> QED BY <1>2, <1>3, <1>4

(* Crash: the file stays, with half a record at its end or without. *)
LEMMA CrashKeepsStore ==
  ASSUME step \in [Procs -> Steps], StoreInv, NEW p \in Procs, Crash(p)
  PROVE  StoreInv'
<1> USE DEF StoreInv
<1>1. \A q \in Procs : /\ step'[q] = IF q = p THEN "off" ELSE step[q]
                       /\ path'[q] = IF q = p THEN None ELSE path[q]
  BY DEF Crash, Goto, StoreTypes
<1>2. /\ DOMAIN store' = DOMAIN store
      /\ store' = [x \in DOMAIN store' |-> store'[x]]
      /\ \A x \in DOMAIN store : (step[p] \in Owning /\ x = path[p]) \/ store'[x] = store[x]
  <2>1. CASE UNCHANGED store
    BY <2>1 DEF StoreTypes
  <2>2. CASE step[p] = "recording" /\ Writes(p, "torn")
    <3> DEFINE line == Written(store[path[p]], "torn")
    <3>1. store' = [store EXCEPT ![path[p]] = line]
      BY <2>2 DEF Writes
    <3> HIDE DEF line
    <3> QED BY <2>2, <3>1 DEF Owning
  <2> QED BY <2>1, <2>2 DEF Crash
<1>3. path' = [path EXCEPT ![p] = None] /\ sessions' = sessions
  BY DEF Crash
<1>4. StoreTypes'
  BY <1>1, <1>2, <1>3 DEF StoreTypes, Owning
<1>5. Counted'
  BY <1>2, <1>3 DEF Counted
<1>6. OneSessionPerFile'
  <2> SUFFICES ASSUME NEW q \in Procs, path'[q] # None
      PROVE  /\ path'[q] \in DOMAIN store'
             /\ step'[q] \in {"created", "pruning"} => store'[path'[q]] = <<>>
             /\ \A r \in Procs \ {q} : path'[r] # path'[q]
    BY DEF OneSessionPerFile
  <2>1. q # p /\ path[q] # None /\ path'[q] = path[q] /\ step'[q] = step[q]
    BY <1>1
  <2>2. path[q] # path[p] \/ path[p] = None
    BY <2>1 DEF OneSessionPerFile
  <2>3. step[p] \in Owning => path[p] # None
    BY DEF StoreTypes
  <2>4. path[q] \in DOMAIN store /\ store'[path[q]] = store[path[q]]
    BY <1>2, <2>1, <2>2, <2>3 DEF OneSessionPerFile
  <2>5. \A r \in Procs \ {q} : path'[r] # path'[q]
    BY <1>1, <2>1 DEF OneSessionPerFile
  <2> QED BY <1>2, <2>1, <2>4, <2>5 DEF OneSessionPerFile
<1> QED BY <1>4, <1>5, <1>6

-----------------------------------------------------------------------------
LEMMA InitInv == Init => IInv
<1> SUFFICES ASSUME Init PROVE IInv
  OBVIOUS
<1> USE ValuesAssumption DEF ValuesAssumption, Init
<1>1. Types
  <2>1. file \in {None} \cup Identity
    BY DEF Identity
  <2>2. IdentityTypes
    BY <2>1 DEF IdentityTypes, Drafting
  <2>3. DOMAIN store = {} /\ store = [x \in DOMAIN store |-> store[x]]
    OBVIOUS
  <2>4. StoreTypes
    BY <2>3 DEF StoreTypes, Owning
  <2> QED BY <2>2, <2>4 DEF Types, Steps
<1>2. KnownEverywhere
  <2>1. file # None => file \in Identity /\ file.id = Known
    BY DEF Identity
  <2>2. file # Torn
    BY <2>1
  <2> QED BY <2>1, <2>2 DEF KnownEverywhere, IsKnown
<1>r. Recoverable
  BY DEF Recoverable
<1>3. Counted
  <2>1. DOMAIN store = {}
    OBVIOUS
  <2> QED BY <2>1, FS_EmptySet DEF Counted
<1>4. OneSessionPerFile
  BY DEF OneSessionPerFile
<1> QED BY <1>1, <1>2, <1>r, <1>3, <1>4 DEF IInv

LEMMA StepInv == IInv /\ [Next]_vars => IInv'
<1> SUFFICES ASSUME IInv, [Next]_vars PROVE IInv'
  OBVIOUS
<1> DEFINE Stepped == step' \in [Procs -> Steps]
<1>0. step \in [Procs -> Steps] /\ IdentityInv /\ StoreInv
  BY DEF IInv, Types, IdentityInv, StoreInv
<1> SUFFICES Stepped /\ IdentityInv' /\ StoreInv'
  BY DEF IInv, Types, IdentityInv, StoreInv
<1> USE ValuesAssumption
<1>1. ASSUME NEW p \in Procs, NEW s \in Steps, Goto(p, s) PROVE Stepped
  BY <1>0, <1>1 DEF Goto
<1>n. None \notin Identity
  BY DEF ValuesAssumption
<1>2. ASSUME NEW p \in Procs, LoadCredentials(p) PROVE Stepped /\ IdentityInv' /\ StoreInv'
  <2>1. /\ step[p] = "off" /\ Goto(p, "ready") /\ file \in Identity
        /\ credentials' = [credentials EXCEPT ![p] = file]
        /\ UNCHANGED <<contents, draft, lost, stored, reading>>
    BY <1>0, <1>2 DEF LoadCredentials, IsIdentity, IdentityInv, IdentityTypes
  <2>2. /\ "ready" \in Steps \ Placing /\ "off" \notin Owning \cup Placing
        /\ "ready" \notin Owning /\ "ready" \notin Drafting
    BY DEF Steps, Owning, Drafting, Placing
  <2>3. draft' = [draft EXCEPT ![p] = draft[p]] /\ draft[p] \in {None} \cup Identity
    BY <1>0, <2>1 DEF IdentityInv, IdentityTypes
  <2>4. lost' \in BOOLEAN /\ (lost => lost') /\ (~ lost' => IsKnown(draft[p]) /\ IsKnown(file))
    BY <1>0, <2>1 DEF IdentityInv, KnownEverywhere
  <2>5. IdentityInv'
    BY <1>0, <2>1, <2>2, <2>3, <2>4, CredentialsKeepIdentity
  <2>6. StoreInv'
    BY <1>0, <2>1, <2>2, StoreStays
  <2> QED BY <1>1, <2>1, <2>2, <2>5, <2>6
<1>3. ASSUME NEW p \in Procs, CreateCredentials(p) PROVE Stepped /\ IdentityInv' /\ StoreInv'
  <2>1. /\ step[p] = "off" /\ Goto(p, "save")
        /\ draft' = [draft EXCEPT ![p] = Created]
        /\ lost' = (lost \/ file = None)
        /\ UNCHANGED <<contents, credentials, stored, reading>>
    BY <1>3 DEF CreateCredentials
  <2>2. /\ "save" \in Steps \ Placing /\ "off" \notin Owning \cup Placing
        /\ "save" \notin Owning
    BY DEF Steps, Owning, Placing
  <2>3. Created \in Identity
    BY <1>0 DEF Created, Identity, IsIdentity, IdentityInv, IdentityTypes
  <2>4. ~ lost' => IsKnown(Created)
    <3> SUFFICES ASSUME ~ lost' PROVE IsKnown(Created)
      OBVIOUS
    <3>1. ~ lost /\ file # None /\ file # Torn /\ IsKnown(file)
      BY <1>0, <2>1 DEF IdentityInv, KnownEverywhere
    <3>2. file \in Identity
      BY <1>0, <3>1 DEF IdentityInv, IdentityTypes
    <3>3. Created.id = file.id
      BY <3>1 DEF Created, IsIdentity
    <3> QED BY <3>1, <3>2, <3>3 DEF IsKnown
  <2>5. /\ credentials[p] \in {None} \cup Identity /\ (~ lost' => IsKnown(credentials[p]))
        /\ lost' \in BOOLEAN /\ (lost => lost')
    BY <1>0, <2>1 DEF IdentityInv, IdentityTypes, KnownEverywhere
  <2>6. IdentityInv'
    BY <1>0, <1>n, <2>1, <2>2, <2>3, <2>4, <2>5, CredentialsKeepIdentity
  <2>7. StoreInv'
    BY <1>0, <2>1, <2>2, StoreStays
  <2> QED BY <1>1, <2>1, <2>2, <2>6, <2>7
<1>4. ASSUME NEW p \in Procs, SaveCredentials(p) PROVE Stepped /\ IdentityInv' /\ StoreInv'
  <2>1. /\ IdentityInv' /\ Stepped /\ UNCHANGED stored
        /\ \E s \in Steps \ Owning : Goto(p, s) /\ step[p] \in Steps \ Owning
    BY <1>0, <1>4, SaveKeepsIdentity
  <2>2. PICK s \in Steps \ Owning : Goto(p, s) /\ step[p] \in Steps \ Owning
    BY <2>1
  <2>3. s \notin {"created", "pruning"}
    BY DEF Owning
  <2>4. StoreInv'
    BY <1>0, <2>1, <2>2, <2>3, StoreStays
  <2> QED BY <2>1, <2>4
<1>5. ASSUME NEW p \in Procs, HaveCredentials(p) PROVE Stepped /\ IdentityInv' /\ StoreInv'
  <2>1. /\ step[p] = "saved" /\ Goto(p, "ready")
        /\ draft' = [draft EXCEPT ![p] = None]
        /\ credentials' = [credentials EXCEPT ![p] = draft[p]]
        /\ UNCHANGED <<contents, lost, stored, reading>>
    BY <1>5 DEF HaveCredentials
  <2>2. /\ "ready" \in Steps \ Placing /\ "saved" \notin Owning \cup Placing
        /\ "ready" \notin Owning /\ "ready" \notin Drafting
    BY DEF Steps, Owning, Drafting, Placing
  <2>3. /\ draft[p] \in {None} \cup Identity /\ (~ lost' => IsKnown(None) /\ IsKnown(draft[p]))
        /\ lost' \in BOOLEAN /\ (lost => lost')
    BY <1>0, <1>n, <2>1 DEF IdentityInv, IdentityTypes, KnownEverywhere, IsKnown
  <2>4. IdentityInv'
    BY <1>0, <2>1, <2>2, <2>3, CredentialsKeepIdentity
  <2>5. StoreInv'
    BY <1>0, <2>1, <2>2, StoreStays
  <2> QED BY <1>1, <2>1, <2>2, <2>4, <2>5
<1>7. ASSUME NEW p \in Procs, NoCredentials(p) PROVE Stepped /\ IdentityInv' /\ StoreInv'
  <2>1. step[p] = "failed" /\ Goto(p, "off") /\ draft' = [draft EXCEPT ![p] = None]
        /\ UNCHANGED <<contents, credentials, lost, stored, reading>>
    BY <1>7 DEF NoCredentials
  <2>2. /\ "off" \in Steps \ Placing /\ "failed" \notin Owning \cup Placing
        /\ "off" \notin Owning /\ "off" \notin Drafting
    BY DEF Steps, Owning, Drafting, Placing
  <2>3. IsKnown(None) /\ lost' \in BOOLEAN /\ (lost => lost')
    BY <1>0, <1>n, <2>1 DEF IsKnown, IdentityInv
  <2>4. Stepped /\ IdentityInv'
    BY <1>0, <1>1, <2>1, <2>2, <2>3, CredentialsKeepIdentity
  <2>5. StoreInv'
    BY <1>0, <2>1, <2>2, StoreStays
  <2> QED BY <2>4, <2>5
<1>8. ASSUME NEW p \in Procs, NEW s \in {"ready", "created", "pruning", "recording"},
             step[p] \in {"ready", "created", "pruning", "recording"},
             Goto(p, s), UNCHANGED <<identity, reading>>
      PROVE  Stepped /\ IdentityInv'
  <2>1. /\ s \in Steps /\ s \notin Drafting /\ step[p] \notin Drafting
        /\ FileIsRead' = FileIsRead
    BY <1>8 DEF Steps, Drafting, FileIsRead
  <2> QED BY <1>0, <1>1, <1>8, <2>1, IdentityStays
<1>9. ASSUME UNCHANGED <<identity, step>>, file = None /\ ~ FileIsRead => ~ FileIsRead'
      PROVE  Stepped /\ IdentityInv'
  <2>1. IdentityTypes' /\ KnownEverywhere' /\ lost' \in BOOLEAN
    BY <1>0, <1>9 DEF identity, IdentityInv, IdentityTypes, KnownEverywhere, IsKnown
  <2>2. Recoverable'
    BY <1>0, <1>9
       DEF identity, IdentityInv, Recoverable, TmpIsOpen, NoneIsRenaming, SomeoneIsPlacing
  <2> QED BY <1>0, <1>9, <2>1, <2>2 DEF IdentityInv
<1>10. ASSUME NEW p \in Procs, NEW t \in Ticks, CreateUnique(p, t)
       PROVE  Stepped /\ IdentityInv' /\ StoreInv'
  <2>1. Stepped /\ IdentityInv'
    BY <1>8, <1>10 DEF CreateUnique
  <2>2. StoreInv'
    BY <1>0, <1>10, CreateKeepsStore, DataDirAssumption
  <2> QED BY <2>1, <2>2
<1>11. ASSUME NEW p \in Procs, PruneLists(p) \/ PruneEnds(p)
       PROVE  Stepped /\ IdentityInv' /\ StoreInv'
  <2>1. Stepped /\ IdentityInv'
    BY <1>8, <1>11 DEF PruneLists, PruneEnds
  <2>2. PICK s \in {"pruning", "recording"} :
          /\ Goto(p, s) /\ step[p] \in {"created", "pruning"}
          /\ UNCHANGED <<store, path, sessions>>
    BY <1>11 DEF PruneLists, PruneEnds, stored
  <2>3. \A q \in Procs : step'[q] = IF q = p THEN s ELSE step[q]
    BY <1>0, <2>2 DEF Goto
  <2>4. StoreTypes'
    BY <1>0, <2>2, <2>3 DEF StoreInv, StoreTypes, Owning
  <2>5. Counted'
    BY <1>0, <2>2 DEF StoreInv, Counted
  <2>6. OneSessionPerFile'
    BY <1>0, <2>2, <2>3 DEF StoreInv, OneSessionPerFile
  <2> QED BY <2>1, <2>4, <2>5, <2>6 DEF StoreInv
<1>12. ASSUME NEW p \in Procs, PruneRemoves(p) PROVE Stepped /\ IdentityInv' /\ StoreInv'
  <2>1. Stepped /\ IdentityInv'
    BY <1>9, <1>12 DEF PruneRemoves, FileIsRead
  <2> QED BY <1>0, <1>12, <2>1, PruneKeepsStore
<1>13. ASSUME NEW p \in Procs, PruneFails(p) \/ CloseWriter(p)
       PROVE  Stepped /\ IdentityInv' /\ StoreInv'
  <2>1. Stepped /\ IdentityInv'
    BY <1>8, <1>13 DEF PruneFails, CloseWriter
  <2>2. Goto(p, "ready") /\ path' = [path EXCEPT ![p] = None] /\ UNCHANGED <<store, sessions>>
    BY <1>13 DEF PruneFails, CloseWriter
  <2>3. "ready" \in Steps \ Owning
    BY DEF Steps, Owning
  <2> QED BY <1>0, <2>1, <2>2, <2>3, CloseKeepsStore
<1>14. ASSUME NEW p \in Procs, AppendRecord(p) PROVE Stepped /\ IdentityInv' /\ StoreInv'
  <2>1. Stepped /\ IdentityInv'
    BY <1>9, <1>14 DEF AppendRecord, FileIsRead
  <2>2. /\ step[p] = "recording" /\ UNCHANGED <<path, sessions, step>>
        /\ Writes(p, "whole") \/ Writes(p, "torn")
    BY <1>14 DEF AppendRecord
  <2> QED BY <1>0, <2>1, <2>2, WriteKeepsStore
<1>15. ASSUME NEW p \in Procs, Quit(p) PROVE Stepped /\ IdentityInv' /\ StoreInv'
  <2>1. step[p] = "ready" /\ Goto(p, "off") /\ credentials' = [credentials EXCEPT ![p] = None]
        /\ UNCHANGED <<contents, draft, lost, stored, reading>>
    BY <1>15 DEF Quit
  <2>2. /\ "off" \in Steps \ Placing /\ "ready" \notin Owning \cup Placing
        /\ "off" \notin Owning /\ "off" \notin Drafting
    BY DEF Steps, Owning, Drafting, Placing
  <2>3. draft' = [draft EXCEPT ![p] = draft[p]] /\ draft[p] \in {None} \cup Identity
    BY <1>0, <2>1 DEF IdentityInv, IdentityTypes
  <2>4. lost' \in BOOLEAN /\ (lost => lost') /\ (~ lost' => IsKnown(draft[p]) /\ IsKnown(None))
    BY <1>0, <1>n, <2>1 DEF IdentityInv, KnownEverywhere, IsKnown
  <2>5. IdentityInv'
    BY <1>0, <2>1, <2>2, <2>3, <2>4, CredentialsKeepIdentity
  <2>6. StoreInv'
    BY <1>0, <2>1, <2>2, StoreStays
  <2> QED BY <1>1, <2>1, <2>2, <2>5, <2>6
<1>16. ASSUME NEW p \in Procs, Crash(p) PROVE Stepped /\ IdentityInv' /\ StoreInv'
  BY <1>0, <1>16, CrashKeepsIdentity, CrashKeepsStore
<1>17. ASSUME UNCHANGED <<identity, stored, step>>, file = None /\ ~ FileIsRead => ~ FileIsRead'
       PROVE  Stepped /\ IdentityInv' /\ StoreInv'
  <2>1. StoreTypes' /\ Counted' /\ OneSessionPerFile'
    BY <1>0, <1>17 DEF stored, StoreInv, StoreTypes, Counted, OneSessionPerFile
  <2> QED BY <1>9, <1>17, <2>1 DEF StoreInv
<1>18. ASSUME (\E x \in DOMAIN store \cup {File} : ReaderOpens(x)) \/ ReaderCloses
       PROVE  Stepped /\ IdentityInv' /\ StoreInv'
  <2>1. UNCHANGED <<identity, stored, step>>
    BY <1>18 DEF ReaderOpens, ReaderCloses
  <2>2. File \notin DOMAIN store /\ File # None
    BY <1>0 DEF StoreInv, StoreTypes, ValuesAssumption
  <2>3. file = None => ~ FileIsRead'
    BY <1>18, <2>2 DEF ReaderOpens, ReaderCloses, FileIsRead
  <2> QED BY <1>17, <2>1, <2>3
<1>19. CASE UNCHANGED vars
  BY <1>17, <1>19 DEF vars, FileIsRead
<1> QED BY <1>2, <1>3, <1>4, <1>5, <1>7, <1>10, <1>11, <1>12, <1>13, <1>14, <1>15, <1>16,
          <1>18, <1>19 DEF Next

-----------------------------------------------------------------------------
(* The invariant the theorems below rest on. *)
THEOREM InvariantHolds == Spec => []IInv
<1>1. Init => IInv
  BY InitInv
<1>2. IInv /\ [Next]_vars => IInv'
  BY StepInv
<1> QED BY <1>1, <1>2, PTL DEF Spec

(* identity.go: an agent id on disk is lost by the steps `lost` names and  *)
(* by no other, for any number of processes that renew the key at once, of *)
(* readers in between and of processes killed: until one of these steps    *)
(* nobody records under another id, and a file that was removed has        *)
(* somebody who puts it back.                                              *)
THEOREM IdIsKept == Spec => []KnownIdIsKept
<1>1. IInv => KnownIdIsKept
  <2> SUFFICES ASSUME IInv, ~ lost
               PROVE  /\ file = None => \E p \in Procs : step[p] \in Placing
                      /\ file # None => IsIdentity(file) /\ file.id = Known
                      /\ \A p \in Procs : credentials[p] # None => credentials[p].id = Known
    BY DEF KnownIdIsKept
  <2>1. file = None => \E p \in Procs : step[p] \in Placing
    BY DEF IInv, Recoverable, SomeoneIsPlacing
  <2>2. ASSUME file # None PROVE IsIdentity(file) /\ file.id = Known
    <3>1. file # Torn /\ IsKnown(file)
      BY DEF IInv, KnownEverywhere
    <3>2. file \in Identity
      BY <2>2, <3>1 DEF IInv, Types, IdentityTypes
    <3> QED BY <2>2, <3>1, <3>2 DEF IsKnown, IsIdentity
  <2>3. ASSUME NEW p \in Procs, credentials[p] # None PROVE credentials[p].id = Known
    <3>1. credentials[p] \in Identity
      BY <2>3 DEF IInv, Types, IdentityTypes
    <3>2. IsKnown(credentials[p])
      BY DEF IInv, KnownEverywhere
    <3> QED BY <3>1, <3>2 DEF IsKnown
  <2> QED BY <2>1, <2>2, <2>3
<1> QED BY <1>1, InvariantHolds, PTL

(* store.go, O_EXCL and the numbered names: two recorders never append to  *)
(* one file, and no prune removes a file that is being written.            *)
THEOREM FilesAreNotShared == Spec => []OneSessionPerFile
<1>1. IInv => OneSessionPerFile
  BY DEF IInv
<1> QED BY <1>1, InvariantHolds, PTL

-----------------------------------------------------------------------------
(* The order of the names is a strict total order.                         *)
LEMMA NamesAreOrdered ==
  ASSUME DataDirAssumption, NEW a \in Name, NEW b \in Name, NEW c \in Name
  PROVE  /\ ~ SortsBefore(a, a)
         /\ SortsBefore(a, b) /\ SortsBefore(b, c) => SortsBefore(a, c)
         /\ a # b => SortsBefore(a, b) \/ SortsBefore(b, a)
<1>1. /\ a.tick \in Nat /\ b.tick \in Nat /\ c.tick \in Nat
      /\ Place[a.n] \in Nat /\ Place[b.n] \in Nat /\ Place[c.n] \in Nat
  <2>1. ASSUME NEW x \in Name PROVE x.tick \in Nat /\ Place[x.n] \in Nat
    <3>1. x.tick \in Ticks /\ x.n \in 1..MaxSessions
      BY DEF Name
    <3>2. x.tick \in Nat
      BY <3>1 DEF DataDirAssumption
    <3>3. Place[x.n] \in Nat
      BY <3>1, PlaceAssumption DEF PlaceAssumption
    <3> QED BY <3>2, <3>3
  <2> QED BY <2>1
<1>2. a.tick = b.tick /\ Place[a.n] = Place[b.n] => a = b
  <2>1. a = [tick |-> a.tick, n |-> a.n] /\ b = [tick |-> b.tick, n |-> b.n]
        /\ a.n \in 1..MaxSessions /\ b.n \in 1..MaxSessions
    BY DEF Name
  <2>2. Place[a.n] = Place[b.n] => a.n = b.n
    BY <2>1, PlaceAssumption DEF PlaceAssumption
  <2> QED BY <2>1, <2>2
<1> QED BY <1>1, <1>2 DEF SortsBefore

(* So a finite set of names can be sorted: a name's place is one more than *)
(* the number of names before it.                                          *)
LEMMA NamesCanBeSorted ==
  ASSUME DataDirAssumption, NEW names, names \subseteq Name, IsFiniteSet(names)
  PROVE  \E s \in [1..Cardinality(names) -> names] :
           \A i, j \in DOMAIN s : i < j => SortsBefore(s[i], s[j])
<1> DEFINE N == Cardinality(names)
           Before(x) == {y \in names : SortsBefore(y, x)}
           place == [x \in names |-> Cardinality(Before(x)) + 1]
<1>1. N \in Nat
  BY FS_CardinalityType
<1>2. ASSUME NEW x \in names PROVE IsFiniteSet(Before(x)) /\ Cardinality(Before(x)) \in Nat
  BY FS_Subset, FS_CardinalityType
<1>3. ASSUME NEW x \in names PROVE place[x] \in 1..N
  <2>1. Before(x) \subseteq names \ {x}
    BY NamesAreOrdered
  <2>2. IsFiniteSet(names \ {x}) /\ Cardinality(names \ {x}) = N - 1
    BY FS_RemoveElement
  <2>3. Cardinality(Before(x)) <= N - 1
    BY <2>1, <2>2, FS_Subset
  <2> QED BY <1>1, <1>2, <2>3
<1>4. ASSUME NEW x \in names, NEW y \in names, SortsBefore(x, y) PROVE place[x] < place[y]
  <2>1. ASSUME NEW z \in Before(x) PROVE z \in Before(y)
    <3>1. SortsBefore(z, x) /\ z \in Name /\ x \in Name /\ y \in Name
      OBVIOUS
    <3>2. SortsBefore(z, y)
      BY <1>4, <3>1, NamesAreOrdered
    <3> QED BY <3>2
  <2>2. Before(x) \cup {x} \subseteq Before(y) /\ x \notin Before(x)
    <3>1. ~ SortsBefore(x, x)
      BY NamesAreOrdered
    <3> QED BY <1>4, <2>1, <3>1
  <2>3. /\ IsFiniteSet(Before(x) \cup {x})
        /\ Cardinality(Before(x) \cup {x}) = Cardinality(Before(x)) + 1
    BY <1>2, <2>2, FS_AddElement
  <2>4. Cardinality(Before(x) \cup {x}) <= Cardinality(Before(y))
    BY <1>2, <2>2, FS_Subset
  <2>5. place[x] = Cardinality(Before(x)) + 1 /\ place[y] = Cardinality(Before(y)) + 1
    OBVIOUS
  <2> HIDE DEF Before, place
  <2> QED BY <1>2, <2>3, <2>4, <2>5
<1> HIDE DEF place
<1>5. place \in Injection(names, 1..N)
  <2>1. place \in [names -> 1..N]
    <3>1. place = [x \in names |-> place[x]]
      BY DEF place
    <3> QED BY <1>3, <3>1
  <2>2. ASSUME NEW x \in names, NEW y \in names, place[x] = place[y] PROVE x = y
    <3>1. place[x] \in Nat /\ place[y] \in Nat
      BY <1>3, <1>1
    <3>2. ~ SortsBefore(x, y) /\ ~ SortsBefore(y, x)
      BY <1>4, <2>2, <3>1
    <3> QED BY <3>2, NamesAreOrdered
  <2> QED BY <2>1, <2>2 DEF Injection, IsInjective
<1>6. place \in Surjection(names, 1..N)
  <2>1. IsFiniteSet(1..N) /\ Cardinality(1..N) = N
    BY <1>1, FS_Interval
  <2> QED BY <1>5, <2>1, FS_Injection
<1> DEFINE s == [i \in 1..N |-> CHOOSE x \in names : place[x] = i]
<1>7. ASSUME NEW i \in 1..N PROVE s[i] \in names /\ place[s[i]] = i
  <2>1. \E x \in names : place[x] = i
    BY <1>6 DEF Surjection
  <2> QED BY <2>1
<1>8. s \in [1..N -> names]
  BY <1>7
<1>9. ASSUME NEW i \in 1..N, NEW j \in 1..N, i < j PROVE SortsBefore(s[i], s[j])
  <2> HIDE DEF s
  <2>1. place[s[i]] = i /\ place[s[j]] = j /\ s[i] \in names /\ s[j] \in names
    BY <1>7
  <2>2. i \in Nat /\ j \in Nat /\ i # j
    BY <1>1, <1>9
  <2>3. s[i] # s[j]
    BY <2>1, <2>2
  <2>4. ~ SortsBefore(s[j], s[i])
    BY <1>4, <1>9, <2>1, <2>2
  <2> QED BY <2>1, <2>3, <2>4, NamesAreOrdered
<1>10. DOMAIN s = 1..N
  OBVIOUS
<1> HIDE DEF s
<1> QED BY <1>8, <1>9, <1>10

(* Prune's list: all but the newest Retain, each once.                     *)
LEMMA SurplusOfSorted ==
  ASSUME DataDirAssumption, NEW names, names \subseteq Name, IsFiniteSet(names),
         NEW s, s = Surplus(SortedNames(names))
  PROVE  /\ s \in Seq(Name) /\ IsInjective(s) /\ Range(s) \subseteq names
         /\ IsFiniteSet(Range(s)) /\ Cardinality(names) <= Retain + Cardinality(Range(s))
<1> DEFINE N == Cardinality(names)
           Sorted(q) == \A i, j \in DOMAIN q : i < j => SortsBefore(q[i], q[j])
           all == SortedNames(names)
<1>1. N \in Nat
  BY FS_CardinalityType
<1>2. all \in [1..N -> names] /\ Sorted(all)
  <2>1. \E q \in [1..N -> names] : Sorted(q)
    BY NamesCanBeSorted
  <2>2. all = CHOOSE q \in [1..N -> names] : Sorted(q)
    BY DEF SortedNames
  <2> HIDE DEF Sorted, N, all
  <2> QED BY <2>1, <2>2
<1>3. ASSUME NEW i \in 1..N, NEW j \in 1..N, i < j PROVE all[i] # all[j]
  <2>1. SortsBefore(all[i], all[j]) /\ all[i] \in Name
    BY <1>2, <1>3
  <2> QED BY <2>1, NamesAreOrdered
<1> HIDE DEF all
<1> DEFINE M == IF N < Retain THEN 0 ELSE N - Retain
<1>4. M \in Nat /\ M <= N /\ Retain \in Nat
  BY <1>1 DEF DataDirAssumption
<1>5. all \in Seq(Name) /\ Len(all) = N
  BY <1>1, <1>2
<1>6. s = [i \in 1..M |-> all[i]]
  <2>1. s = SubSeq(all, 1, N - Retain)
    BY <1>5 DEF Surplus, all
  <2>2. 1..(N - Retain) = 1..M
    BY <1>1, <1>4
  <2> QED BY <2>1, <2>2, <1>1, <1>4, <1>5
<1>7. s \in [1..M -> names] /\ s \in Seq(Name)
  <2>1. \A i \in 1..M : i \in 1..N
    BY <1>1, <1>4
  <2>2. s \in [1..M -> names]
    BY <1>2, <1>6, <2>1
  <2> QED BY <1>4, <2>2
<1>8. IsInjective(s)
  <2> SUFFICES ASSUME NEW a \in 1..M, NEW b \in 1..M, s[a] = s[b] PROVE a = b
    BY <1>7 DEF IsInjective
  <2>1. a \in 1..N /\ b \in 1..N /\ a \in Int /\ b \in Int
    BY <1>1, <1>4
  <2>2. s[a] = all[a] /\ s[b] = all[b]
    BY <1>6
  <2>3. ~ (a < b) /\ ~ (b < a)
    BY <1>3, <2>1, <2>2
  <2> QED BY <2>1, <2>3
<1>9. Range(s) \subseteq names /\ IsFiniteSet(Range(s))
  <2>1. Range(s) \subseteq names
    BY <1>7 DEF Range
  <2> QED BY <2>1, FS_Subset
<1>10. Cardinality(Range(s)) = M
  <2>1. s \in Bijection(1..M, Range(s))
    <3>1. s \in [1..M -> Range(s)] /\ \A t \in Range(s) : \E i \in 1..M : s[i] = t
      BY <1>7 DEF Range
    <3> QED BY <1>8, <3>1 DEF Bijection, Injection, Surjection
  <2>2. ExistsBijection(1..M, Range(s))
    BY <2>1 DEF ExistsBijection
  <2> QED BY <1>4, <2>2, FS_CountingElements
<1>11. N <= Retain + M
  BY <1>1, <1>4
<1> QED BY <1>7, <1>8, <1>9, <1>10, <1>11

-----------------------------------------------------------------------------
(* The store's bound.  Prunings whose lists are disjoint and still all     *)
(* there could each come to their end: what they have listed is surplus,   *)
(* and only the other sessions being created are not paid for.             *)
Pending == {p \in Procs : step[p] \in {"created", "pruning"}}

Doomed(Q) == UNION {Range(doomed[p]) : p \in Q}

CanEnd(Q) ==
  \A p \in Q :
    /\ step[p] = "pruning"
    /\ Range(doomed[p]) \subseteq DOMAIN store
    /\ \A q \in Q \ {p} : Range(doomed[p]) \cap Range(doomed[q]) = {}

Bound(Q) ==
  Cardinality(DOMAIN store) <=
    Retain + unpruned + Cardinality(Pending \ Q) + Cardinality(Doomed(Q))

BoundInv ==
  /\ unpruned \in Nat
  /\ doomed \in [Procs -> Seq(Name)] /\ \A p \in Procs : IsInjective(doomed[p])
  /\ \A Q \in SUBSET Procs : CanEnd(Q) => Bound(Q)

LEMMA FiniteProcs ==
  ASSUME DataDirAssumption, NEW Q, Q \subseteq Procs
  PROVE  IsFiniteSet(Q) /\ Cardinality(Q) \in Nat
BY FS_Subset, FS_CardinalityType DEF DataDirAssumption

LEMMA FiniteDoomed ==
  ASSUME NEW Q, CanEnd(Q), IsFiniteSet(DOMAIN store)
  PROVE  /\ Doomed(Q) \subseteq DOMAIN store
         /\ IsFiniteSet(Doomed(Q)) /\ Cardinality(Doomed(Q)) \in Nat
<1>1. Doomed(Q) \subseteq DOMAIN store
  BY DEF Doomed, CanEnd
<1> QED BY <1>1, FS_Subset, FS_CardinalityType

(* Taking the head of a list without repetitions takes it from its range.  *)
LEMMA TailOfInjective ==
  ASSUME NEW s \in Seq(Name), s # <<>>, IsInjective(s)
  PROVE  /\ Tail(s) \in Seq(Name) /\ IsInjective(Tail(s))
         /\ Range(Tail(s)) = Range(s) \ {Head(s)} /\ Head(s) \in Range(s)
<1>1. /\ Len(s) \in Nat /\ Len(s) # 0 /\ DOMAIN s = 1..Len(s) /\ Head(s) = s[1]
      /\ Tail(s) \in Seq(Name) /\ Len(Tail(s)) = Len(s) - 1
      /\ DOMAIN Tail(s) = 1..(Len(s) - 1)
      /\ \A i \in 1..(Len(s) - 1) : Tail(s)[i] = s[i + 1]
  OBVIOUS
<1>2. IsInjective(Tail(s))
  <2> SUFFICES ASSUME NEW a \in 1..(Len(s) - 1), NEW b \in 1..(Len(s) - 1),
                      Tail(s)[a] = Tail(s)[b]
               PROVE  a = b
    BY <1>1 DEF IsInjective
  <2>1. s[a + 1] = s[b + 1] /\ a + 1 \in 1..Len(s) /\ b + 1 \in 1..Len(s)
    BY <1>1
  <2>2. a + 1 = b + 1
    BY <1>1, <2>1 DEF IsInjective
  <2> QED BY <1>1, <2>2
<1>3. ASSUME NEW x \in Range(Tail(s)) PROVE x \in Range(s) \ {Head(s)}
  <2>1. PICK i \in 1..(Len(s) - 1) : x = s[i + 1]
    BY <1>1 DEF Range
  <2>2. i + 1 \in 1..Len(s) /\ 1 \in 1..Len(s) /\ i + 1 # 1
    BY <1>1
  <2> QED BY <1>1, <2>1, <2>2 DEF Range, IsInjective
<1>4. ASSUME NEW x \in Range(s) \ {Head(s)} PROVE x \in Range(Tail(s))
  <2>1. PICK j \in 1..Len(s) : x = s[j] /\ j # 1
    BY <1>1 DEF Range
  <2>2. j - 1 \in 1..(Len(s) - 1) /\ (j - 1) + 1 = j
    BY <1>1, <2>1
  <2>3. Tail(s)[j - 1] = x
    BY <1>1, <2>1, <2>2
  <2> QED BY <1>1, <2>2, <2>3 DEF Range
<1>5. Head(s) \in Range(s)
  BY <1>1 DEF Range
<1> QED BY <1>1, <1>2, <1>3, <1>4, <1>5

(* Nothing happens to the files, and to no process being created.          *)
LEMMA BoundStays ==
  ASSUME BoundInv, DOMAIN store' = DOMAIN store, UNCHANGED <<doomed, unpruned>>,
         \A q \in Procs : \A s \in {"created", "pruning"} : step'[q] = s <=> step[q] = s
  PROVE  BoundInv'
<1> USE DEF BoundInv
<1>1. ASSUME NEW Q \in SUBSET Procs, CanEnd(Q)' PROVE Bound(Q)'
  <2>1. CanEnd(Q) /\ Pending' = Pending /\ Doomed(Q)' = Doomed(Q)
    BY <1>1 DEF CanEnd, Pending, Doomed
  <2> QED BY <2>1 DEF Bound
<1> QED BY <1>1

(* CreateUnique: one file more, one session more being created.            *)
LEMMA CreateKeepsBound ==
  ASSUME DataDirAssumption, BoundInv, step \in [Procs -> Steps],
         IsFiniteSet(DOMAIN store),
         NEW p \in Procs, step[p] = "ready", Goto(p, "created"),
         NEW x, x \notin DOMAIN store, DOMAIN store' = DOMAIN store \cup {x},
         UNCHANGED <<doomed, unpruned>>
  PROVE  BoundInv'
<1> USE DEF BoundInv
<1>1. \A q \in Procs : step'[q] = IF q = p THEN "created" ELSE step[q]
  BY DEF Goto
<1>2. /\ Cardinality(DOMAIN store) \in Nat
      /\ Cardinality(DOMAIN store') = Cardinality(DOMAIN store) + 1
      /\ Retain \in Nat
  BY FS_AddElement, FS_CardinalityType DEF DataDirAssumption
<1>3. ASSUME NEW Q \in SUBSET Procs, CanEnd(Q)' PROVE Bound(Q)'
  <2>1. p \notin Q /\ Doomed(Q)' = Doomed(Q)
    BY <1>1, <1>3 DEF CanEnd, Doomed
  <2>2. Pending' \ Q = (Pending \ Q) \cup {p} /\ p \notin Pending \ Q
    BY <1>1, <2>1 DEF Pending
  <2>3. /\ Cardinality(Pending \ Q) \in Nat
        /\ Cardinality(Pending' \ Q) = Cardinality(Pending \ Q) + 1
    <3>1. IsFiniteSet(Pending \ Q) /\ Cardinality(Pending \ Q) \in Nat
      BY FiniteProcs DEF Pending
    <3> QED BY <2>2, <3>1, FS_AddElement
  <2>4. CASE \A r \in Q : x \notin Range(doomed[r])
    <3>1. CanEnd(Q)
      BY <1>1, <1>3, <2>1, <2>4 DEF CanEnd
    <3>2. Bound(Q) /\ Cardinality(Doomed(Q)) \in Nat
      BY <3>1, FiniteDoomed
    <3> QED BY <1>2, <2>1, <2>3, <3>2 DEF Bound
  <2>5. ASSUME NEW r \in Q, x \in Range(doomed[r]) PROVE Bound(Q)'
    <3> DEFINE R == Q \ {r}
    <3>1. \A q \in R : step[q] = "pruning" /\ Range(doomed[q]) \subseteq DOMAIN store \cup {x}
      BY <1>1, <1>3, <2>1 DEF CanEnd
    <3>2. \A q \in R : x \notin Range(doomed[q])
      BY <1>3, <2>5 DEF CanEnd
    <3>3. CanEnd(R) /\ step[r] = "pruning"
      <4>1. \A q \in R : Range(doomed[q]) \subseteq DOMAIN store
        BY <3>1, <3>2
      <4>2. \A q \in R : \A q2 \in R \ {q} : Range(doomed[q]) \cap Range(doomed[q2]) = {}
        BY <1>3 DEF CanEnd
      <4>3. step[r] = "pruning"
        BY <1>1, <1>3, <2>1 DEF CanEnd
      <4> HIDE DEF R
      <4> QED BY <3>1, <4>1, <4>2, <4>3 DEF CanEnd
    <3>4. Bound(R) /\ IsFiniteSet(Doomed(R)) /\ Cardinality(Doomed(R)) \in Nat /\ x \notin Doomed(R)
      BY <3>3, FiniteDoomed
    <3>5. Pending \ R = (Pending \ Q) \cup {r} /\ r \notin Pending \ Q
      BY <3>3 DEF Pending
    <3>6. Cardinality(Pending \ R) = Cardinality(Pending \ Q) + 1
      <4>1. IsFiniteSet(Pending \ Q)
        BY FiniteProcs DEF Pending
      <4> QED BY <3>5, <4>1, FS_AddElement
    <3>7. Cardinality(Doomed(R) \cup {x}) = Cardinality(Doomed(R)) + 1
      BY <3>4, FS_AddElement
    <3>8. Doomed(R) \cup {x} \subseteq Doomed(Q) /\ Doomed(Q) \subseteq DOMAIN store'
      BY <1>3, <2>1, <2>5 DEF Doomed, CanEnd
    <3>9. IsFiniteSet(Doomed(Q)) /\ Cardinality(Doomed(Q)) \in Nat
      <4>1. IsFiniteSet(DOMAIN store')
        BY FS_AddElement
      <4> QED BY <3>8, <4>1, FS_Subset, FS_CardinalityType
    <3>10. Cardinality(Doomed(R)) + 1 <= Cardinality(Doomed(Q))
      <4>1. Cardinality(Doomed(R) \cup {x}) <= Cardinality(Doomed(Q))
        BY <3>8, <3>9, FS_Subset
      <4> QED BY <3>7, <4>1
    <3> HIDE DEF R
    <3> QED BY <1>2, <2>1, <2>3, <3>4, <3>6, <3>9, <3>10 DEF Bound
  <2> QED BY <2>4, <2>5
<1> QED BY <1>3

(* Prune's list is as long as the surplus.                                 *)
LEMMA ListKeepsBound ==
  ASSUME DataDirAssumption, BoundInv, step \in [Procs -> Steps],
         IsFiniteSet(DOMAIN store), DOMAIN store \subseteq Name,
         NEW p \in Procs, PruneLists(p)
  PROVE  BoundInv'
<1> USE DEF BoundInv
<1> DEFINE list == Surplus(SortedNames(DOMAIN store))
<1>1. /\ list \in Seq(Name) /\ IsInjective(list) /\ Range(list) \subseteq DOMAIN store
      /\ IsFiniteSet(Range(list))
      /\ Cardinality(DOMAIN store) <= Retain + Cardinality(Range(list))
  BY SurplusOfSorted
<1>2. /\ step[p] = "created" /\ Goto(p, "pruning") /\ UNCHANGED <<store, unpruned>>
      /\ doomed' = [doomed EXCEPT ![p] = list]
  BY DEF PruneLists, SessionFiles
<1> HIDE DEF list
<1>3. \A q \in Procs : /\ step'[q] = IF q = p THEN "pruning" ELSE step[q]
                       /\ doomed'[q] = IF q = p THEN list ELSE doomed[q]
  BY <1>2 DEF Goto
<1>4. doomed' \in [Procs -> Seq(Name)] /\ \A q \in Procs : IsInjective(doomed'[q])
  BY <1>1, <1>2, <1>3
<1>5. Pending' = Pending
  BY <1>2, <1>3 DEF Pending
<1>6. ASSUME NEW Q \in SUBSET Procs, CanEnd(Q)' PROVE Bound(Q)'
  <2>1. CASE p \notin Q
    <3>1. \A q \in Q : step'[q] = step[q] /\ doomed'[q] = doomed[q]
      BY <1>3, <2>1
    <3>2. CanEnd(Q)
      BY <1>2, <1>6, <3>1 DEF CanEnd
    <3>3. Doomed(Q)' = Doomed(Q)
      BY <3>1 DEF Doomed
    <3> QED BY <1>2, <1>5, <3>2, <3>3 DEF Bound
  <2>2. CASE p \in Q
    <3>1. Range(list) \subseteq Doomed(Q)' /\ Doomed(Q)' \subseteq DOMAIN store
      BY <1>2, <1>3, <1>6, <2>2 DEF Doomed, CanEnd
    <3>2. /\ Cardinality(Range(list)) <= Cardinality(Doomed(Q)')
          /\ Cardinality(Doomed(Q)') \in Nat /\ Cardinality(Range(list)) \in Nat
      BY <1>1, <3>1, FS_Subset, FS_CardinalityType
    <3>3. Cardinality(Pending' \ Q) \in Nat
      BY FiniteProcs DEF Pending
    <3>4. Cardinality(DOMAIN store) \in Nat /\ Retain \in Nat
      BY FS_CardinalityType DEF DataDirAssumption
    <3> QED BY <1>1, <1>2, <3>2, <3>3, <3>4 DEF Bound
  <2> QED BY <2>1, <2>2
<1> QED BY <1>2, <1>4, <1>6

(* Prune removes a file: one less on disk, one less on its list.           *)
LEMMA RemoveKeepsBound ==
  ASSUME DataDirAssumption, BoundInv, IsFiniteSet(DOMAIN store),
         NEW p \in Procs, PruneRemoves(p)
  PROVE  BoundInv'
<1> USE DEF BoundInv
<1> DEFINE name == Head(doomed[p])
<1>1. /\ doomed[p] # <<>> /\ name \in DOMAIN store
      /\ doomed' = [doomed EXCEPT ![p] = Tail(doomed[p])]
      /\ UNCHANGED <<step, unpruned>>
  BY DEF PruneRemoves
<1>2. DOMAIN store' = DOMAIN store \ {name}
  BY DEF PruneRemoves
<1>3. /\ Tail(doomed[p]) \in Seq(Name) /\ IsInjective(Tail(doomed[p]))
      /\ Range(Tail(doomed[p])) = Range(doomed[p]) \ {name}
  BY <1>1, TailOfInjective
<1> HIDE DEF name
<1>4. \A q \in Procs : doomed'[q] = IF q = p THEN Tail(doomed[p]) ELSE doomed[q]
  BY <1>1
<1>5. doomed' \in [Procs -> Seq(Name)] /\ \A q \in Procs : IsInjective(doomed'[q])
  BY <1>1, <1>3, <1>4
<1>6. ASSUME NEW Q \in SUBSET Procs, CanEnd(Q)' PROVE Bound(Q)'
  <2>1. \A q \in Q : /\ step[q] = "pruning"
                     /\ Range(doomed'[q]) \subseteq DOMAIN store \ {name}
                     /\ Range(doomed'[q]) \subseteq Range(doomed[q])
                     /\ Range(doomed[q]) \subseteq Range(doomed'[q]) \cup {name}
                     /\ q # p => doomed'[q] = doomed[q]
    BY <1>1, <1>2, <1>3, <1>4, <1>6 DEF CanEnd
  <2>2. ASSUME NEW a \in Q, NEW b \in Q \ {a}
        PROVE  Range(doomed[a]) \cap Range(doomed[b]) = {}
    <3>1. Range(doomed'[a]) \cap Range(doomed'[b]) = {}
      BY <1>6 DEF CanEnd
    <3>2. CASE a # p /\ b # p
      BY <2>1, <3>1, <3>2
    <3>3. CASE a = p /\ b # p
      BY <2>1, <3>1, <3>3
    <3>4. CASE b = p /\ a # p
      BY <2>1, <3>1, <3>4
    <3> QED BY <3>2, <3>3, <3>4
  <2>3. CanEnd(Q)
    BY <1>1, <2>1, <2>2 DEF CanEnd
  <2>4. Doomed(Q) \subseteq Doomed(Q)' \cup {name} /\ Doomed(Q)' \subseteq Doomed(Q)
    BY <2>1 DEF Doomed
  <2>5. /\ IsFiniteSet(Doomed(Q)) /\ Cardinality(Doomed(Q)) \in Nat
        /\ Bound(Q)
    BY <2>3, FiniteDoomed
  <2>6. IsFiniteSet(Doomed(Q)') /\ Cardinality(Doomed(Q)') \in Nat
    BY <2>4, <2>5, FS_Subset, FS_CardinalityType
  <2>7. Cardinality(Doomed(Q)) <= Cardinality(Doomed(Q)') + 1
    <3>1. /\ IsFiniteSet(Doomed(Q)' \cup {name})
          /\ Cardinality(Doomed(Q)' \cup {name}) <= Cardinality(Doomed(Q)') + 1
      <4>1. IsFiniteSet(Doomed(Q)' \cup {name})
        BY <2>6, FS_AddElement
      <4>2. \/ Cardinality(Doomed(Q)' \cup {name}) = Cardinality(Doomed(Q)')
            \/ Cardinality(Doomed(Q)' \cup {name}) = Cardinality(Doomed(Q)') + 1
        BY <2>6, FS_AddElement
      <4> QED BY <2>6, <4>1, <4>2
    <3>2. /\ Cardinality(Doomed(Q)) <= Cardinality(Doomed(Q)' \cup {name})
          /\ Cardinality(Doomed(Q)' \cup {name}) \in Nat
      BY <2>4, <3>1, FS_Subset, FS_CardinalityType
    <3> QED BY <2>5, <2>6, <3>1, <3>2
  <2>8. Cardinality(DOMAIN store') = Cardinality(DOMAIN store) - 1
        /\ Cardinality(DOMAIN store) \in Nat
    BY <1>1, <1>2, FS_RemoveElement, FS_CardinalityType
  <2>9. Pending' = Pending /\ Cardinality(Pending \ Q) \in Nat /\ Retain \in Nat
    BY <1>1, FiniteProcs DEF Pending, DataDirAssumption
  <2> QED BY <1>1, <2>5, <2>6, <2>7, <2>8, <2>9 DEF Bound
<1> QED BY <1>1, <1>5, <1>6

(* A session given up while it was created is counted in unpruned.         *)
LEMMA FailKeepsBound ==
  ASSUME DataDirAssumption, BoundInv, step \in [Procs -> Steps],
         NEW p \in Procs, NEW s \in {"off", "ready"}, Goto(p, s),
         doomed' = [doomed EXCEPT ![p] = <<>>],
         DOMAIN store' = DOMAIN store, IsFiniteSet(DOMAIN store),
         unpruned' = unpruned + (IF step[p] \in {"created", "pruning"} THEN 1 ELSE 0)
  PROVE  BoundInv'
<1> USE DEF BoundInv
<1>1. \A q \in Procs : /\ step'[q] = IF q = p THEN s ELSE step[q]
                       /\ doomed'[q] = IF q = p THEN <<>> ELSE doomed[q]
  BY DEF Goto
<1>2. doomed' \in [Procs -> Seq(Name)] /\ \A q \in Procs : IsInjective(doomed'[q])
  <2>1. <<>> \in Seq(Name) /\ IsInjective(<<>>)
    BY DEF IsInjective
  <2> QED BY <1>1, <2>1
<1>3. ASSUME NEW Q \in SUBSET Procs, CanEnd(Q)' PROVE Bound(Q)'
  <2>1. p \notin Q
    BY <1>1, <1>3 DEF CanEnd
  <2>2. \A q \in Q : step'[q] = step[q] /\ doomed'[q] = doomed[q]
    BY <1>1, <2>1
  <2>3. CanEnd(Q)
    BY <1>3, <2>2 DEF CanEnd
  <2>9. Doomed(Q)' = Doomed(Q)
    BY <2>2 DEF Doomed
  <2>4. Bound(Q) /\ Cardinality(Doomed(Q)) \in Nat
    BY <2>3, FiniteDoomed
  <2>5. /\ Pending' = Pending \ {p}
        /\ Pending' \ Q = (Pending \ Q) \ {p}
        /\ p \in Pending <=> step[p] \in {"created", "pruning"}
    BY <1>1 DEF Pending
  <2>6. IsFiniteSet(Pending \ Q) /\ Cardinality(Pending \ Q) \in Nat
    BY FiniteProcs DEF Pending
  <2>7. Cardinality(Pending' \ Q) =
          IF p \in Pending THEN Cardinality(Pending \ Q) - 1 ELSE Cardinality(Pending \ Q)
    <3>1. p \in Pending \ Q <=> p \in Pending
      BY <2>1
    <3>2. Cardinality((Pending \ Q) \ {p}) =
            IF p \in Pending \ Q THEN Cardinality(Pending \ Q) - 1 ELSE Cardinality(Pending \ Q)
      BY <2>6, FS_RemoveElement
    <3> QED BY <2>5, <3>1, <3>2
  <2>8. Cardinality(DOMAIN store) \in Nat /\ Retain \in Nat
    BY FS_CardinalityType DEF DataDirAssumption
  <2> QED BY <2>4, <2>5, <2>6, <2>7, <2>8, <2>9 DEF Bound
<1>4. unpruned' \in Nat
  OBVIOUS
<1> QED BY <1>2, <1>3, <1>4

(* A pruning at its end has nothing listed, and has paid for its session.  *)
LEMMA EndKeepsBound ==
  ASSUME BoundInv, step \in [Procs -> Steps], NEW p \in Procs, PruneEnds(p)
  PROVE  BoundInv'
<1> USE DEF BoundInv
<1>1. /\ step[p] = "pruning" /\ doomed[p] = <<>> /\ Goto(p, "recording")
      /\ UNCHANGED <<store, doomed, unpruned>>
  BY DEF PruneEnds, stored
<1>2. \A q \in Procs : step'[q] = IF q = p THEN "recording" ELSE step[q]
  BY <1>1 DEF Goto
<1>3. Range(doomed[p]) = {}
  BY <1>1 DEF Range
<1>4. ASSUME NEW Q \in SUBSET Procs, CanEnd(Q)' PROVE Bound(Q)'
  <2>1. p \notin Q
    BY <1>2, <1>4 DEF CanEnd
  <2>2. CanEnd(Q \cup {p})
    BY <1>1, <1>2, <1>3, <1>4, <2>1 DEF CanEnd
  <2>3. Doomed(Q)' = Doomed(Q \cup {p})
    BY <1>1, <1>3 DEF Doomed
  <2>4. Pending' \ Q = Pending \ (Q \cup {p})
    BY <1>2, <2>1 DEF Pending
  <2>5. Bound(Q \cup {p})
    BY <2>2
  <2> QED BY <1>1, <2>3, <2>4, <2>5 DEF Bound
<1> QED BY <1>1, <1>4

LEMMA BoundInit == Init => BoundInv
<1> SUFFICES ASSUME Init PROVE BoundInv
  OBVIOUS
<1>1. doomed \in [Procs -> Seq(Name)] /\ \A p \in Procs : IsInjective(doomed[p])
  <2>1. <<>> \in Seq(Name) /\ IsInjective(<<>>)
    BY DEF IsInjective
  <2> QED BY <2>1 DEF Init
<1>2. ASSUME NEW Q \in SUBSET Procs, CanEnd(Q) PROVE Bound(Q)
  <2>1. IsFiniteSet(DOMAIN store) /\ Cardinality(DOMAIN store) = 0
    <3>1. DOMAIN store = {}
      BY DEF Init
    <3> QED BY <3>1, FS_EmptySet
  <2>2. Cardinality(Doomed(Q)) \in Nat
    BY <1>2, <2>1, FiniteDoomed
  <2>3. Cardinality(Pending \ Q) \in Nat
    BY FiniteProcs, DataDirAssumption DEF Pending
  <2>4. Retain \in Nat /\ unpruned = 0
    BY DataDirAssumption DEF Init, DataDirAssumption
  <2> QED BY <2>1, <2>2, <2>3, <2>4 DEF Bound
<1>3. unpruned \in Nat
  BY DEF Init
<1> QED BY <1>1, <1>2, <1>3 DEF BoundInv

LEMMA BoundStep == IInv /\ BoundInv /\ [Next]_vars => BoundInv'
<1> SUFFICES ASSUME IInv, BoundInv, [Next]_vars PROVE BoundInv'
  OBVIOUS
<1> USE DataDirAssumption
<1>0. /\ step \in [Procs -> Steps] /\ IsFiniteSet(DOMAIN store) /\ DOMAIN store \subseteq Name
      /\ sessions \in Nat /\ Cardinality(DOMAIN store) <= sessions
  BY DEF IInv, Types, StoreTypes, Counted
<1>1. ASSUME DOMAIN store' = DOMAIN store, UNCHANGED <<doomed, unpruned>>,
             NEW p \in Procs, NEW s \in Steps \ {"created", "pruning"}, Goto(p, s),
             step[p] \notin {"created", "pruning"}
      PROVE  BoundInv'
  <2>1. \A q \in Procs : \A x \in {"created", "pruning"} : step'[q] = x <=> step[q] = x
    BY <1>0, <1>1 DEF Goto
  <2> QED BY <1>1, <2>1, BoundStays
<1>2. ASSUME DOMAIN store' = DOMAIN store, UNCHANGED <<doomed, unpruned, step>>
      PROVE  BoundInv'
  BY <1>2, BoundStays
<1>3. ASSUME NEW p \in Procs,
             \/ LoadCredentials(p) \/ CreateCredentials(p)
             \/ HaveCredentials(p) \/ NoCredentials(p) \/ Quit(p)
      PROVE  BoundInv'
  BY <1>1, <1>3 DEF LoadCredentials, CreateCredentials, HaveCredentials, NoCredentials, Quit,
                    stored, Steps
<1>4. ASSUME NEW p \in Procs, SaveCredentials(p) PROVE BoundInv'
  <2>1. UNCHANGED stored
    BY <1>4 DEF SaveCredentials
  <2>2. PICK s \in Steps \ Owning : Goto(p, s) /\ step[p] \in Steps \ Owning
    BY <1>0, <1>4, SaveKeepsIdentity, ValuesAssumption
       DEF IInv, Types, IdentityInv
  <2> QED BY <1>1, <2>1, <2>2 DEF stored, Owning
<1>5. ASSUME NEW p \in Procs, NEW t \in Ticks, CreateUnique(p, t) PROVE BoundInv'
  <2>1. /\ step[p] = "ready" /\ Goto(p, "created") /\ UNCHANGED <<doomed, unpruned>>
        /\ sessions < MaxSessions
        /\ DOMAIN store' = DOMAIN store \cup {UniqueName(t)}
    BY <1>5 DEF CreateUnique
  <2>2. Cardinality(DOMAIN store) < MaxSessions
    BY <1>0, <2>1, FS_CardinalityType DEF DataDirAssumption
  <2>3. UniqueName(t) \notin DOMAIN store
    BY <1>0, <2>2, UniqueNameIsFree
  <2> QED BY <1>0, <2>1, <2>3, CreateKeepsBound
<1>6. ASSUME NEW p \in Procs, PruneLists(p) PROVE BoundInv'
  BY <1>0, <1>6, ListKeepsBound
<1>7. ASSUME NEW p \in Procs, PruneRemoves(p) PROVE BoundInv'
  BY <1>0, <1>7, RemoveKeepsBound
<1>8. ASSUME NEW p \in Procs, PruneFails(p) PROVE BoundInv'
  <2>1. /\ step[p] = "pruning" /\ Goto(p, "ready") /\ UNCHANGED store
        /\ doomed' = [doomed EXCEPT ![p] = <<>>] /\ unpruned' = unpruned + 1
    BY <1>8 DEF PruneFails
  <2>2. unpruned' = unpruned + (IF step[p] \in {"created", "pruning"} THEN 1 ELSE 0)
    BY <2>1
  <2>3. DOMAIN store' = DOMAIN store /\ "ready" \in {"off", "ready"}
    BY <2>1
  <2> QED BY <1>0, <2>1, <2>2, <2>3, FailKeepsBound
<1>9. ASSUME NEW p \in Procs, PruneEnds(p) PROVE BoundInv'
  BY <1>0, <1>9, EndKeepsBound
<1>10. ASSUME NEW p \in Procs, AppendRecord(p) PROVE BoundInv'
  <2>1. DOMAIN store' = DOMAIN store
    BY <1>10 DEF AppendRecord, Writes
  <2> QED BY <1>2, <1>10, <2>1 DEF AppendRecord
<1>11. ASSUME NEW p \in Procs, CloseWriter(p) PROVE BoundInv'
  BY <1>1, <1>11 DEF CloseWriter, Steps
<1>12. ASSUME NEW p \in Procs, Crash(p) PROVE BoundInv'
  <2>1. DOMAIN store' = DOMAIN store
    BY <1>12 DEF Crash, Writes
  <2>2. /\ Goto(p, "off") /\ doomed' = [doomed EXCEPT ![p] = <<>>]
        /\ unpruned' = unpruned + (IF step[p] \in {"created", "pruning"} THEN 1 ELSE 0)
        /\ "off" \in {"off", "ready"}
    BY <1>12 DEF Crash
  <2> QED BY <1>0, <2>1, <2>2, FailKeepsBound
<1>13. ASSUME (\E x \in DOMAIN store \cup {File} : ReaderOpens(x)) \/ ReaderCloses
              \/ UNCHANGED vars
       PROVE  BoundInv'
  BY <1>2, <1>13 DEF ReaderOpens, ReaderCloses, vars, stored
<1> QED BY <1>3, <1>4, <1>5, <1>6, <1>7, <1>8, <1>9, <1>10, <1>11, <1>12, <1>13 DEF Next

(* store.go: "prunes old sessions so the store never exceeds retain        *)
(* files", up to the sessions just being created and one file for each     *)
(* pruning that failed or was cut short - however many recorders create,   *)
(* list and remove in between each other.                                  *)
THEOREM StoreStaysBounded == Spec => []StoreIsBounded
<1>1. BoundInv => StoreIsBounded
  <2> SUFFICES ASSUME BoundInv PROVE StoreIsBounded
    OBVIOUS
  <2>1. CanEnd({}) /\ Doomed({}) = {} /\ Pending \ {} = Pending
    BY DEF CanEnd, Doomed
  <2>2. Bound({})
    BY <2>1 DEF BoundInv
  <2>3. Cardinality(Doomed({})) = 0
    BY <2>1, FS_EmptySet
  <2>4. Cardinality(Pending) \in Nat /\ Retain \in Nat /\ unpruned \in Nat
    BY FiniteProcs, DataDirAssumption DEF Pending, DataDirAssumption, BoundInv
  <2>5. Cardinality(DOMAIN store) <= Retain + unpruned + Cardinality(Pending) + 0
    BY <2>1, <2>2, <2>3 DEF Bound
  <2>6. Cardinality(DOMAIN store) <= Retain + unpruned + Cardinality(Pending)
    BY <2>4, <2>5
  <2> QED BY <2>6 DEF StoreIsBounded, Pending
<1>2. Init => BoundInv
  BY BoundInit
<1>3. IInv /\ BoundInv /\ [Next]_vars => BoundInv'
  BY BoundStep
<1> QED BY <1>1, <1>2, <1>3, InvariantHolds, PTL DEF Spec

-----------------------------------------------------------------------------
(* Lines.  What can be torn is a file's last line.                         *)
Lines == Seq({"whole", "torn", "joined"})

OnlyLastTorn(lines) == \A i \in DOMAIN lines : lines[i] = "torn" => i = Len(lines)

LinesInv == \A x \in DOMAIN store : store[x] \in Lines /\ OnlyLastTorn(store[x])

LEMMA WrittenLine ==
  ASSUME NEW lines \in Lines, OnlyLastTorn(lines), NEW line \in {"whole", "torn"}
  PROVE  Written(lines, line) \in Lines /\ OnlyLastTorn(Written(lines, line))
<1>1. Len(lines) \in Nat /\ DOMAIN lines = 1..Len(lines)
  BY DEF Lines
<1>2. CASE EndsTorn(lines)
  <2> DEFINE last == IF line = "whole" THEN "joined" ELSE "torn"
             more == [lines EXCEPT ![Len(lines)] = last]
  <2>1. Written(lines, line) = more
    BY <1>2 DEF Written
  <2>a. last \in {"whole", "torn", "joined"}
    OBVIOUS
  <2>b. lines \in [1..Len(lines) -> {"whole", "torn", "joined"}]
    BY DEF Lines
  <2> HIDE DEF last
  <2>c. /\ more \in [1..Len(lines) -> {"whole", "torn", "joined"}]
        /\ \A i \in DOMAIN lines : i # Len(lines) => more[i] = lines[i]
    BY <1>1, <2>a, <2>b
  <2>2. more \in Lines /\ Len(more) = Len(lines)
        /\ DOMAIN more = DOMAIN lines
        /\ \A i \in DOMAIN lines : i # Len(lines) => more[i] = lines[i]
    BY <1>1, <2>c DEF Lines
  <2> HIDE DEF more
  <2>3. OnlyLastTorn(more)
    BY <2>2 DEF OnlyLastTorn
  <2> QED BY <2>1, <2>2, <2>3
<1>3. CASE ~ EndsTorn(lines)
  <2> DEFINE more == Append(lines, line)
  <2>1. Written(lines, line) = more
    BY <1>3 DEF Written
  <2>2. /\ more \in Lines /\ Len(more) = Len(lines) + 1
        /\ DOMAIN more = 1..(Len(lines) + 1)
        /\ \A i \in 1..Len(lines) : more[i] = lines[i]
    BY <1>1 DEF Lines
  <2> HIDE DEF more
  <2>3. ASSUME NEW i \in DOMAIN lines, lines[i] = "torn" PROVE FALSE
    <3>1. i = Len(lines) /\ lines # <<>>
      BY <1>1, <2>3 DEF OnlyLastTorn
    <3> QED BY <1>3, <2>3, <3>1 DEF EndsTorn
  <2>4. ASSUME NEW i \in DOMAIN more, more[i] = "torn" PROVE i = Len(more)
    <3>1. i \notin 1..Len(lines)
      BY <1>1, <2>2, <2>3, <2>4
    <3> QED BY <1>1, <2>2, <2>4, <3>1
  <2> QED BY <2>1, <2>2, <2>4 DEF OnlyLastTorn
<1> QED BY <1>2, <1>3

LEMMA LinesStep == IInv /\ LinesInv /\ [Next]_vars => LinesInv'
<1> SUFFICES ASSUME IInv, LinesInv, [Next]_vars PROVE LinesInv'
  OBVIOUS
<1>0. /\ step \in [Procs -> Steps] /\ StoreTypes
      /\ path \in [Procs -> {None} \cup Name]
  BY DEF IInv, Types, StoreTypes
<1>1. ASSUME UNCHANGED store PROVE LinesInv'
  BY <1>1 DEF LinesInv
<1>3. ASSUME NEW p \in Procs,
             \/ LoadCredentials(p) \/ CreateCredentials(p) \/ SaveCredentials(p)
             \/ HaveCredentials(p) \/ NoCredentials(p) \/ Quit(p)
             \/ PruneLists(p) \/ PruneEnds(p) \/ PruneFails(p) \/ CloseWriter(p)
      PROVE  LinesInv'
  BY <1>1, <1>3 DEF LoadCredentials, CreateCredentials, SaveCredentials, HaveCredentials,
                    NoCredentials, Quit, PruneLists, PruneEnds, PruneFails, CloseWriter, stored
<1>5. ASSUME NEW p \in Procs, NEW t \in Ticks, CreateUnique(p, t) PROVE LinesInv'
  <2> DEFINE name == UniqueName(t)
  <2>1. store' = [x \in DOMAIN store \cup {name} |->
                    IF x \in DOMAIN store THEN store[x] ELSE <<>>]
    BY <1>5 DEF CreateUnique
  <2> HIDE DEF name
  <2>2. <<>> \in Lines /\ OnlyLastTorn(<<>>)
    BY DEF Lines, OnlyLastTorn
  <2>3. ASSUME NEW x \in DOMAIN store' PROVE store'[x] = <<>> \/ (x \in DOMAIN store /\ store'[x] = store[x])
    BY <2>1
  <2> QED BY <2>2, <2>3 DEF LinesInv
<1>6. ASSUME NEW p \in Procs, PruneRemoves(p) PROVE LinesInv'
  <2>1. PICK name \in DOMAIN store : store' = [x \in DOMAIN store \ {name} |-> store[x]]
    BY <1>6 DEF PruneRemoves
  <2>2. DOMAIN store' = DOMAIN store \ {name} /\ \A x \in DOMAIN store' : store'[x] = store[x]
    BY <2>1
  <2> QED BY <2>2 DEF LinesInv
<1>7. ASSUME NEW p \in Procs, NEW line \in {"whole", "torn"}, Writes(p, line)
      PROVE  LinesInv'
  <2> DEFINE mine == path[p]
             more == Written(store[mine], line)
  <2>1. store' = [store EXCEPT ![mine] = more]
    BY <1>7 DEF Writes
  <2>2. mine \in DOMAIN store => more \in Lines /\ OnlyLastTorn(more)
    BY WrittenLine DEF LinesInv
  <2> HIDE DEF mine, more
  <2>3. ASSUME NEW x \in DOMAIN store' PROVE store'[x] \in Lines /\ OnlyLastTorn(store'[x])
    <3>1. x \in DOMAIN store
      BY <2>1
    <3>2. CASE x = mine
      <4>1. store'[x] = more
        BY <2>1, <3>1, <3>2
      <4> QED BY <2>2, <3>1, <3>2, <4>1
    <3>3. CASE x # mine
      <4>1. store'[x] = store[x]
        BY <2>1, <3>1, <3>3
      <4> QED BY <3>1, <4>1 DEF LinesInv
    <3> QED BY <3>2, <3>3
  <2> QED BY <2>3 DEF LinesInv
<1>8. ASSUME NEW p \in Procs, AppendRecord(p) PROVE LinesInv'
  BY <1>7, <1>8 DEF AppendRecord
<1>9. ASSUME NEW p \in Procs, Crash(p) PROVE LinesInv'
  BY <1>1, <1>7, <1>9 DEF Crash
<1>10. ASSUME (\E x \in DOMAIN store \cup {File} : ReaderOpens(x)) \/ ReaderCloses
              \/ UNCHANGED vars
       PROVE  LinesInv'
  BY <1>1, <1>10 DEF ReaderOpens, ReaderCloses, vars, stored
<1> QED BY <1>3, <1>5, <1>6, <1>8, <1>9, <1>10 DEF Next

(* store.go: "a crash loses at most the record being written": whatever    *)
(* was appended in full is read back, from every file and at every moment, *)
(* after a crash and after a failed write; only a record written after a   *)
(* failed one, into its line, can make the file unreadable.                *)
THEOREM RecordsAreReadBack == Spec => []CrashLosesOneRecord
<1>1. LinesInv => CrashLosesOneRecord
  <2> SUFFICES ASSUME LinesInv, NEW name \in DOMAIN store,
                      ~ \E i \in DOMAIN store[name] : store[name][i] = "joined"
               PROVE  ReadRecords(store[name]) = WholeLines(store[name])
    BY DEF CrashLosesOneRecord
  <2>1. store[name] \in Lines /\ OnlyLastTorn(store[name])
    BY DEF LinesInv
  <2>2. Len(store[name]) \in Nat
        /\ \A i \in DOMAIN store[name] : store[name][i] \in {"whole", "torn", "joined"}
    BY <2>1 DEF Lines
  <2>3. ~ \E i \in DOMAIN store[name] :
            store[name][i] # "whole" /\ i < Len(store[name])
    BY <2>1, <2>2 DEF OnlyLastTorn
  <2> QED BY <2>3 DEF ReadRecords
<1>2. Init => LinesInv
  <2>1. Init => DOMAIN store = {}
    BY DEF Init
  <2> QED BY <2>1 DEF LinesInv
<1>3. IInv /\ LinesInv /\ [Next]_vars => LinesInv'
  BY LinesStep
<1> QED BY <1>1, <1>2, <1>3, InvariantHolds, PTL DEF Spec
=============================================================================
