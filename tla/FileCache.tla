------------------------------ MODULE FileCache ------------------------------
(***************************************************************************)
(* The file cache of aQute.libsync (SimpleFileCacheImpl): client threads   *)
(* that get files, creating them through a callback, and the reaper.  What *)
(* they share is a directory and a set of locked names.                    *)
(***************************************************************************)
EXTENDS Integers, Sequences, FiniteSets, SequencesExt

CONSTANTS
    Thread,      \* client threads
    Name,        \* (digests of) names
    None,        \* no thread, no name (a null)
    MaxTries,    \* rounds of the loop of get(): the code has 2
    FileSize,    \* the length of a whole file, in blocks
    Limit,       \* config.size(), in blocks
    CallFails,   \* TRUE: callbacks, streams and createNewFile may throw
    MayStall,    \* TRUE: a thread may need a minute to enter a monitor
    MayStop,     \* TRUE: the component may be deactivated
    MayCrash     \* TRUE: the process may die; it is started again

ASSUME FileCacheAssumption ==
    /\ None \notin Thread \cup Name
    /\ MaxTries \in Nat \ {0}
    /\ FileSize \in Nat \ {0}
    /\ IsFiniteSet(Name)
    /\ Limit \in Nat
    /\ {CallFails, MayStall, MayStop, MayCrash} \subseteq BOOLEAN

VARIABLES
    disk,      \* the file of each name; it is torn if its creator died
    bytes,     \* the blocks that are written, of each file
    readOnly,  \* the names whose file is read-only
    writer,    \* the thread that opened (and truncated) the file last
    open,      \* the threads whose stream writes to the file that is there
    recency,   \* the names with a file, least recently modified first
    locks,     \* the names in `locks'
    pc,        \* where each thread is in get()
    name,      \* its argument
    max,       \* its local `max'
    reaper,    \* the timer task, or the reap() it started
    victims,   \* what is left of the sorted set of reap()
    size,      \* its local `size'
    lost       \* history: the blocks that creators took back since its scan

files   == <<disk, bytes, readOnly, writer, open, recency, lost>>
callers == <<name, max>>
reaping == <<reaper, victims, size>>
vars    == <<files, locks, pc, callers, reaping>>

Kinds  == {"none", "partial", "torn", "complete"}
Blocks == Name \X (1 .. FileSize)
Places == {"out", "test", "lock", "create", "call", "write", "protect",
           "clean", "unlock", "rethrow", "touch"}

Phases == {"scheduled", "submitted", "stopped", "reaping", "done"}

TypeOK ==
    /\ disk \in [Name -> Kinds]
    /\ bytes \subseteq Blocks
    /\ \A b \in bytes : disk[b[1]] # "none"
    /\ readOnly \subseteq Name
    /\ open \subseteq Thread
    /\ writer \in [Name -> Thread \cup {None}]
    /\ recency \in Seq(Name) /\ ToSet(recency) = {nm \in Name : disk[nm] # "none"}
    /\ IsInjective(recency)
    /\ locks \subseteq Name
    /\ pc \in [Thread -> Places]
    /\ name \in [Thread -> Name \cup {None}]
    /\ max \in [Thread -> 0..MaxTries]
    /\ reaper \in Phases
    /\ victims \in Seq(Name)
    /\ size \in Int
    /\ lost \subseteq Blocks

Init ==
    /\ disk = [nm \in Name |-> "none"]
    /\ bytes = {}
    /\ lost = {}
    /\ readOnly = {}
    /\ open = {}
    /\ writer = [nm \in Name |-> None]
    /\ recency = <<>>
    /\ locks = {}
    /\ pc = [th \in Thread |-> "out"]
    /\ name = [th \in Thread |-> None]
    /\ max = [th \in Thread |-> 0]
    /\ reaper = "scheduled"
    /\ victims = <<>>
    /\ size = 0

At(th, place) == pc[th] = place
Goto(th, place) == pc' = [pc EXCEPT ![th] = place]

\* get() returns or throws.
Leave(th) ==
    /\ Goto(th, "out")
    /\ name' = [name EXCEPT ![th] = None]
    /\ max' = [max EXCEPT ![th] = 0]

-----------------------------------------------------------------------------
(* The file system.                                                        *)

Exists(nm) == disk[nm] # "none"

BlocksOf(nm) == {b \in bytes : b[1] = nm}

\* length() is what has been written so far.
Length(nm) == Cardinality(BlocksOf(nm))

\* The file of nm is created, opened or written: it is the last modified.
Modify(nm, kind, by) ==
    /\ disk' = [disk EXCEPT ![nm] = kind]
    /\ writer' = [writer EXCEPT ![nm] = by]
    /\ recency' = Append(RemoveFirst(recency, nm), nm)
    /\ UNCHANGED readOnly

\* delete(): a thread that is still writing goes on with an unlinked file.
Delete(nm) ==
    /\ disk' = [disk EXCEPT ![nm] = "none"]
    /\ bytes' = bytes \ BlocksOf(nm)
    /\ writer' = [writer EXCEPT ![nm] = None]
    /\ open' = {u \in open : name[u] # nm}
    /\ recency' = RemoveFirst(recency, nm)
    /\ readOnly' = readOnly \ {nm}

\* A creator truncates or deletes its file.
TakeBack(nm) ==
    /\ bytes' = bytes \ BlocksOf(nm)
    /\ lost' = IF reaper = "reaping" THEN lost \cup BlocksOf(nm) ELSE lost

-----------------------------------------------------------------------------
(* get(name, cb).                                                          *)

Get(th, nm) ==
    /\ At(th, "out")
    /\ name' = [name EXCEPT ![th] = nm]
    /\ max' = [max EXCEPT ![th] = MaxTries]
    /\ Goto(th, "test")
    /\ UNCHANGED <<files, locks, reaping>>

Round(th, left) ==
    /\ At(th, "test")
    /\ IF Exists(name[th]) \/ max[th] = 0
       THEN Goto(th, "touch") /\ UNCHANGED max
       ELSE Goto(th, "lock") /\ max' = [max EXCEPT ![th] = left]
    /\ UNCHANGED <<files, locks, name, reaping>>

\* Variants: the rounds are not counted, or counted upwards.
TestForever(th) == Round(th, max[th])
TestUpwards(th) == Round(th, max[th] + 1)

\* while (!f.isFile() && max-- > 0)
Test(th) == Round(th, max[th] - 1)

\* lock(): the name is added; if it is there already, the test of the deadline,
\* a minute or more from now, returns too, without the lock.
Lock(th) ==
    /\ At(th, "lock")
    /\ locks' = locks \cup {name[th]}
    /\ Goto(th, "create")
    /\ UNCHANGED <<files, callers, reaping>>

\* Past the deadline it would wait on a monitor it does not own: that throws,
\* outside of the try, so nothing is unlocked.
LockThrows(th) ==
    /\ MayStall
    /\ At(th, "lock") /\ name[th] \in locks
    /\ Leave(th)
    /\ UNCHANGED <<files, locks, reaping>>

CreateNewFile(th) ==
    /\ Modify(name[th], "partial", None)
    /\ Goto(th, "call")
    /\ UNCHANGED <<bytes, open, lost>>

\* Variant: the result of createNewFile() is not looked at.
CreateAnyway(th) ==
    /\ At(th, "create")
    /\ IF Exists(name[th]) THEN Goto(th, "call") /\ UNCHANGED files ELSE CreateNewFile(th)
    /\ UNCHANGED <<locks, callers, reaping>>

\* createNewFile() is atomic: whoever gets true is the creator.
Create(th) ==
    /\ At(th, "create")
    /\ IF Exists(name[th]) THEN Goto(th, "unlock") /\ UNCHANGED files ELSE CreateNewFile(th)
    /\ UNCHANGED <<locks, callers, reaping>>

CreateThrows(th) ==
    /\ CallFails
    /\ At(th, "create")
    /\ Goto(th, "rethrow")
    /\ UNCHANGED <<files, locks, callers, reaping>>

\* cb.call() returns a stream; IO.copy opens the file, which creates or
\* truncates it.
Open(th) ==
    /\ At(th, "call") /\ name[th] \notin readOnly
    /\ Modify(name[th], "partial", th)
    /\ TakeBack(name[th])
    /\ open' = open \cup {th}
    /\ Goto(th, "write")
    /\ UNCHANGED <<locks, callers, reaping>>

\* ... writes it piece by piece, ...
Write(th) ==
    /\ At(th, "write") /\ th \in open
    /\ \E k \in Length(name[th]) + 1 .. FileSize :
          bytes' = bytes \cup ({name[th]} \X (1 .. k))
    /\ Modify(name[th], disk[name[th]], writer[name[th]])
    /\ UNCHANGED <<open, lost, locks, pc, callers, reaping>>

\* ... and closes it.  All content is there if it was the last to truncate the
\* file at this path.
Written(th) ==
    /\ At(th, "write")
    /\ IF th \notin open
       THEN UNCHANGED files
       ELSE /\ IF writer[name[th]] = th
               THEN Modify(name[th], "complete", None)
               ELSE Modify(name[th], disk[name[th]], writer[name[th]])
            /\ bytes' = bytes \cup ({name[th]} \X (1 .. FileSize))
            /\ open' = open \ {th}
            /\ UNCHANGED lost
    /\ Goto(th, "protect")
    /\ UNCHANGED <<locks, callers, reaping>>

SetReadOnly(th) ==
    /\ At(th, "protect")
    /\ readOnly' = IF Exists(name[th]) THEN readOnly \cup {name[th]} ELSE readOnly
    /\ Goto(th, "unlock")
    /\ UNCHANGED <<disk, bytes, writer, open, recency, lost, locks, callers, reaping>>

\* The callback or the copy throws, or the file that is there is read-only.
CopyThrows(th) ==
    /\ \/ CallFails /\ pc[th] \in {"call", "write"}
       \/ At(th, "call") /\ name[th] \in readOnly
    /\ Goto(th, "clean")
    /\ open' = open \ {th}
    /\ UNCHANGED <<disk, bytes, readOnly, writer, recency, lost, locks, callers, reaping>>

\* Variant: the failed file is left where it is.
KeepFailed(th) ==
    /\ At(th, "clean")
    /\ Goto(th, "unlock")
    /\ UNCHANGED <<files, locks, callers, reaping>>

DeleteFailed(th) ==
    /\ At(th, "clean")
    /\ Delete(name[th])
    /\ TakeBack(name[th])
    /\ Goto(th, "unlock")
    /\ UNCHANGED <<locks, callers, reaping>>

\* finally: unlock(), whoever added the name.
Unlock(th) ==
    /\ pc[th] \in {"unlock", "rethrow"}
    /\ locks' = locks \ {name[th]}
    /\ IF At(th, "unlock") THEN Goto(th, "test") /\ UNCHANGED callers ELSE Leave(th)
    /\ UNCHANGED <<files, reaping>>

\* setLastModified(now), and the file is returned, whatever is there.
Return(th) ==
    /\ At(th, "touch")
    /\ recency' = IF Exists(name[th])
                  THEN Append(RemoveFirst(recency, name[th]), name[th])
                  ELSE recency
    /\ Leave(th)
    /\ UNCHANGED <<disk, bytes, readOnly, writer, open, lost, locks, reaping>>

-----------------------------------------------------------------------------
(* The reaper.                                                             *)

\* The timer gives reap() to the executor, once per activation.
Fire ==
    /\ reaper = "scheduled"
    /\ reaper' = "submitted"
    /\ UNCHANGED <<files, locks, pc, callers, victims, size>>

\* The loop over the sorted set ends with the set or below the limit.
Loop(left, total) ==
    IF left = <<>> \/ total < Limit
    THEN reaper' = "done" /\ victims' = <<>> /\ size' = 0 /\ lost' = {}
    ELSE reaper' = "reaping" /\ victims' = left /\ size' = total /\ lost' = lost

\* The scan of the directory.  Files with the same modification time are equal
\* for the sorted set, which keeps one of them; their sizes, so far, are all
\* added.
Scan ==
    /\ reaper = "submitted"
    /\ \E n \in 0 .. Len(recency) : \E kept \in [1 .. n -> DOMAIN recency] :
        /\ n = 0 => recency = <<>>
        /\ \A i, j \in 1 .. n : i < j => kept[i] < kept[j]
        /\ Loop([i \in 1 .. n |-> recency[kept[i]]], Cardinality(bytes))
    /\ UNCHANGED <<disk, bytes, readOnly, writer, open, recency, locks, pc, callers>>

\* A stopped scan returns -1, which is below any limit.
ScanStopped ==
    /\ reaper = "stopped"
    /\ reaper' = "done"
    /\ UNCHANGED <<files, locks, pc, callers, victims, size>>

Evict(freed) ==
    /\ reaper = "reaping" /\ victims # <<>>
    /\ Delete(Head(victims))
    /\ Loop(Tail(victims), size - freed)
    /\ UNCHANGED <<locks, pc, callers>>

\* Variant: the size of a deleted file is not subtracted.
ReapUncounted == Evict(0)

Reap == Evict(Length(Head(victims)))

-----------------------------------------------------------------------------
\* deactivate() cancels the timer task and sets `stopped', which only a scan
\* that has not come to an end looks at.
Deactivate ==
    /\ MayStop
    /\ \/ reaper = "scheduled" /\ reaper' = "done"
       \/ reaper = "submitted" /\ reaper' = "stopped"
    /\ UNCHANGED <<files, locks, pc, callers, victims, size>>

Creating(th) == pc[th] \in {"call", "write", "protect", "clean"}

\* The process dies and comes back on the same directory: activate().
Crash ==
    /\ MayCrash
    /\ disk' = [nm \in Name |-> IF disk[nm] = "partial" THEN "torn" ELSE disk[nm]]
    /\ writer' = [nm \in Name |-> None]
    /\ locks' = {}
    /\ pc' = [th \in Thread |-> "out"]
    /\ name' = [th \in Thread |-> None]
    /\ max' = [th \in Thread |-> 0]
    /\ reaper' = "scheduled" /\ victims' = <<>> /\ size' = 0
    /\ open' = {} /\ lost' = {}
    /\ UNCHANGED <<bytes, readOnly, recency>>

Step(th) ==
    \/ Test(th) \/ Lock(th) \/ LockThrows(th) \/ Create(th) \/ CreateThrows(th)
    \/ Open(th) \/ Write(th) \/ Written(th) \/ SetReadOnly(th) \/ CopyThrows(th)
    \/ DeleteFailed(th) \/ Unlock(th) \/ Return(th)

Reaper == Fire \/ Scan \/ ScanStopped \/ Reap

Next ==
    \/ \E th \in Thread : Step(th) \/ \E nm \in Name : Get(th, nm)
    \/ Reaper \/ Deactivate \/ Crash

Spec == Init /\ [][Next]_vars

\* Threads are scheduled, callbacks and calls to the file system return.
FairSpec == Spec /\ \A th \in Thread : WF_vars(Step(th))

-----------------------------------------------------------------------------
(* Properties.                                                             *)

\* The reaper has not begun to delete.
Undisturbed == reaper \in {"scheduled", "submitted", "stopped"}

\* "we have a race here, so make sure we're the creator": although the lock
\* keeps nobody out and one thread's unlock removes another's lock, a name has
\* one creator at a time, until the reaper deletes a file under its creator.
SoleCreator ==
    Undisturbed =>
        \A th, u \in Thread :
            th # u /\ Creating(th) /\ Creating(u) => name[th] # name[u]

\* A file that is complete stays so until it is reaped: no thread that
\* tries to create it, fails, or retries truncates or deletes it.
CompleteStays ==
    [][\A nm \in Name :
        disk[nm] = "complete" /\ Undisturbed' => disk'[nm] = "complete"]_vars

\* Failures leave no debris: when no thread is at work on a name, its file is
\* complete, gone, or torn by the death of the process.
NoDebris ==
    \A nm \in Name :
        disk[nm] = "partial" => \E th \in Thread : Creating(th) /\ name[th] = nm

\* The reaper works with the sizes of its scan, those of half-written files
\* among them, while creators go on.  It deletes nothing unless what is there,
\* with what creators truncated or deleted since the scan, reaches the limit.
NeverBelowLimit ==
    [][reaper = "reaping" /\ reaper' # "scheduled" /\ victims' # victims
        => Cardinality(bytes \cup lost) >= Limit]_vars

\* A call of get returns, however often the callback throws and whoever locks.
GetReturns == \A th \in Thread : pc[th] # "out" ~> pc[th] = "out"

\* assertEquals("Hello World", IO.collect(f1)): a file that get is about to
\* return has all of its content.
GetsComplete ==
    \A th \in Thread : At(th, "touch") => disk[name[th]] \in {"none", "complete"}
=============================================================================
