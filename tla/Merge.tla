------------------------------- MODULE Merge -------------------------------
(***************************************************************************)
(* The three-way merge of atr/merge.py.                                    *)
(*                                                                         *)
(* A writer clones the latest revision (the base), edits the clone (the    *)
(* new tree) and, when another revision (the prior) was committed in the   *)
(* meantime, merge() brings the changes of the prior into the clone, one   *)
(* path at a time and in place.  Trees are hard-linked clones of each      *)
(* other, so that a file is identified by its inode: an inode decides the  *)
(* content, and equal contents may still have different inodes.            *)
(***************************************************************************)
EXTENDS Naturals

CONSTANTS
    Path,    \* the file paths that any of the three trees may hold
    Above,   \* Above[x]: the paths that are directories when x is a file
    Inode,   \* the inodes of the files
    Hash,    \* Hash[i]: the content hash of inode i
    Absent   \* "this path holds no file"

ASSUME AboveAssumption == Above \in [Path -> SUBSET Path]
ASSUME HashAssumption ==
    /\ Absent \notin Inode
    /\ DOMAIN Hash = Inode /\ \A i \in Inode : Hash[i] # Absent

VARIABLES
    base,    \* base_inodes: the revision that the writer cloned
    prior,   \* prior_inodes: the revision committed in the meantime
    new,     \* n_inodes: the writer's tree, as listed before the merge
    dirs,    \* the empty directories of the writer's tree
    temp,    \* temp_dir, changed in place
    record,  \* n_hashes, updated in place
    todo     \* the paths of all_paths that the loop has yet to visit

vars == <<base, prior, new, dirs, temp, record, todo>>

----------------------------------------------------------------------------

MaybeInode == Inode \union {Absent}

\* A directory tree never has a file below a file.
Tree == {t \in [Path -> MaybeInode] :
            \A x \in Path : t[x] # Absent => \A y \in Above[x] : t[y] = Absent}

\* The content of a possibly absent file.
Content(i) == IF i = Absent THEN Absent ELSE Hash[i]
Contents(t) == [x \in Path |-> Content(t[x])]

\* n_dirs: the directories implied by the files of the new tree.
ImpliedDirs(n) == UNION {Above[x] : x \in {y \in Path : n[y] # Absent}}

\* Slip: the test for a file of the new tree above the path is forgotten.
TypeConflictBelowOnly(n, d, x) == x \in ImpliedDirs(n) \union d

\* _has_type_conflict, and the isdir test that follows it in merge().
TypeConflict(n, d, x) ==
    \/ x \in ImpliedDirs(n) \union d
    \/ \E y \in Above[x] : n[y] # Absent

\* _content_matches: same inode, or same hash under different inodes.
ContentMatches(i, j) == i = j \/ Content(i) = Content(j)

\* Case 9: only the prior revision has this path.
OnlyPrior(x) == base[x] = Absent /\ prior[x] # Absent /\ new[x] = Absent
\* Cases 10 and 13: the prior revision deleted a path that both others have.
PriorDeleted(x) == base[x] # Absent /\ prior[x] = Absent /\ new[x] # Absent
\* Cases 4, 5, 6, 8, 11 and 15: every revision has this path.
AllPresent(x) == base[x] # Absent /\ prior[x] # Absent /\ new[x] # Absent

\* Slip: Case 11 is only recognised by inode.
PriorReplacesByInode(b, p, n) == p # n /\ b # p /\ b = n

\* Slip: what the writer edited is replaced instead of what the prior revision did.
PriorReplacesEdited(b, p, n) ==
    /\ p # n
    /\ b # n
    /\ \/ b = p
       \/ Content(b) = Content(p) /\ Content(n) # Content(b)

\* _merge_all_present: the two early returns, then Case 11 by inode or by hash.
PriorReplaces(b, p, n) ==
    /\ p # n
    /\ b # p
    /\ \/ b = n
       \/ Content(b) = Content(n) /\ Content(p) # Content(b)

----------------------------------------------------------------------------
Init ==
    /\ base \in Tree /\ prior \in Tree /\ new \in Tree
    /\ dirs \in SUBSET {x \in Path : \A y \in Above[x] \union {x} : new[y] = Absent}
    /\ temp = new
    /\ record = Contents(new)
    /\ todo = Path

Visit(x) == todo' = todo \ {x} /\ UNCHANGED <<base, prior, new, dirs>>

\* _add_from_prior and _replace_with_prior: link the prior file, take its hash.
TakePrior(x) ==
    /\ temp' = [temp EXCEPT ![x] = prior[x]]
    /\ record' = [record EXCEPT ![x] = Content(prior[x])]

LeaveNew == UNCHANGED <<temp, record>>

AddFromPrior(x) ==
    /\ OnlyPrior(x) /\ ~TypeConflict(new, dirs, x)
    /\ TakePrior(x) /\ Visit(x)

SkipTypeConflict(x) ==
    /\ OnlyPrior(x) /\ TypeConflict(new, dirs, x)
    /\ LeaveNew /\ Visit(x)

\* Slip: the removed path is not popped from n_hashes.
ApplyDeletionKeepingHash(x) ==
    /\ PriorDeleted(x) /\ ContentMatches(base[x], new[x])
    /\ temp' = [temp EXCEPT ![x] = Absent]
    /\ record' = record
    /\ Visit(x)

ApplyDeletion(x) ==
    /\ PriorDeleted(x) /\ ContentMatches(base[x], new[x])
    /\ temp' = [temp EXCEPT ![x] = Absent]
    /\ record' = [record EXCEPT ![x] = Absent]
    /\ Visit(x)

KeepEdited(x) ==
    /\ PriorDeleted(x) /\ ~ContentMatches(base[x], new[x])
    /\ LeaveNew /\ Visit(x)

ReplaceWithPrior(x) ==
    /\ AllPresent(x) /\ PriorReplaces(base[x], prior[x], new[x])
    /\ TakePrior(x) /\ Visit(x)

KeepNew(x) ==
    /\ \/ AllPresent(x) /\ ~PriorReplaces(base[x], prior[x], new[x])
       \/ ~OnlyPrior(x) /\ ~PriorDeleted(x) /\ ~AllPresent(x)
    /\ LeaveNew /\ Visit(x)

\* The code visits the paths in sorted order; any order is allowed here, so
\* that what holds of every behaviour does not rest on that order.
Next == \E x \in todo :
    \/ AddFromPrior(x) \/ SkipTypeConflict(x)
    \/ ApplyDeletion(x) \/ KeepEdited(x)
    \/ ReplaceWithPrior(x) \/ KeepNew(x)

Spec == Init /\ [][Next]_vars

----------------------------------------------------------------------------
(* Properties *)

Hashes == {Hash[i] : i \in Inode}

\* The merge changes only the writer's directory, its hash map and the loop.
TypeOK ==
    /\ base \in Tree /\ prior \in Tree /\ new \in Tree
    /\ dirs \subseteq Path /\ todo \subseteq Path
    /\ temp \in [Path -> MaybeInode]
    /\ record \in [Path -> Hashes \union {Absent}]

\* At every moment of the merge the directory is one a file system can hold:
\* no file that merge() links from the prior revision lies below a file that
\* the writer's tree holds, or above one.
TempIsATree == temp \in Tree

\* n_hashes, which becomes the attestable record of the revision, describes
\* the files that are in the directory.
RecordDescribesTemp == record = Contents(temp)

\* What a three-way merge of a path should give: the prior revision's content
\* where the writer changed nothing, the writer's content elsewhere.
ThreeWay(x) ==
    IF Content(base[x]) = Content(new[x]) THEN Content(prior[x]) ELSE Content(new[x])

\* merge() decides with inodes first and with hashes only when it must; away
\* from type conflicts the outcome is that of the three-way merge of contents.
MergedIsThreeWay ==
    todo = {} => \A x \in Path :
        \/ OnlyPrior(x) /\ TypeConflict(new, dirs, x)
        \/ Content(temp[x]) = ThreeWay(x)

\* "Merge with the prior revision if there was an intervening change"
\* (_lock_and_merge): a writer that changed nothing ends with the tree of the
\* intervening revision.  It does not when that revision turned a file into a
\* directory or a directory into a file: the deletion is applied, the addition
\* is skipped as a type conflict with the entry just deleted.
InterveningChangeKept ==
    (todo = {} /\ dirs = {} /\ new = base) => Contents(temp) = Contents(prior)

\* How far that goes: all that such a writer loses of the intervening revision are files
\* that merge() skips for a type conflict with entries which it deletes as well, so that
\* in the end nothing stands where they could have been (the conflict is looked for in
\* the lists made before the merge, _has_type_conflict).
LostForNothing ==
    todo = {} /\ dirs = {} /\ new = base =>
        \A x \in Path :
            Content(temp[x]) # Content(prior[x]) =>
                OnlyPrior(x) /\ TypeConflict(new, dirs, x) /\ ~TypeConflict(temp, {}, x)
=============================================================================
