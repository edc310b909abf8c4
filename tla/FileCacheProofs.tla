---------------------------- MODULE FileCacheProofs ----------------------------
(***************************************************************************)
(* Theorems about FileCache for any number of threads, names and rounds.   *)
(***************************************************************************)
EXTENDS FileCache, SequenceTheorems, FiniteSetTheorems, TLAPS

\* The types of what a step of get() looks at.
Typed ==
    /\ disk \in [Name -> Kinds]
    /\ readOnly \subseteq Name
    /\ open \subseteq Thread
    /\ writer \in [Name -> Thread \cup {None}]
    /\ pc \in [Thread -> Places]
    /\ name \in [Thread -> Name \cup {None}]
    /\ \A th \in Thread : pc[th] # "out" => name[th] \in Name
    /\ \A nm \in readOnly : Exists(nm)

\* A partial file is in the hands of the thread that truncated it last or, when
\* nobody has opened it yet, of the one that created it.
Attended ==
    \A nm \in Name : disk[nm] = "partial" =>
        \E th \in Thread :
            /\ name[th] = nm
            /\ IF writer[nm] = None THEN pc[th] \in {"call", "clean"}
               ELSE th = writer[nm] /\ (pc[th] = "clean" \/ (pc[th] = "write" /\ th \in open))

\* As long as nothing is reaped, a creator finds the file as it left it.
CreatorsFile ==
    Undisturbed =>
        /\ \A th \in Thread : Creating(th) =>
            /\ disk[name[th]] = IF pc[th] = "protect" THEN "complete" ELSE "partial"
            /\ pc[th] = "write" => writer[name[th]] = th /\ th \in open
        /\ \A nm \in readOnly : disk[nm] # "partial"

CacheInv == Typed /\ Attended /\ CreatorsFile /\ SoleCreator

LEMMA CacheInvInit == Init => CacheInv
<1> SUFFICES ASSUME Init PROVE CacheInv
  OBVIOUS
<1>q. QED
  BY FileCacheAssumption DEF Init, CacheInv, Typed, Attended, CreatorsFile, SoleCreator,
     Undisturbed, Creating, Kinds, Places, Exists

LEMMA CacheInvNext == CacheInv /\ [Next]_vars => CacheInv'
<1> SUFFICES ASSUME CacheInv, [Next]_vars PROVE CacheInv'
  OBVIOUS
<1> USE FileCacheAssumption DEF CacheInv, Typed, Attended, CreatorsFile, SoleCreator, Undisturbed,
    Creating, Kinds, Places, Exists, files, callers, reaping, At
\* A thread changes its place, keeps its name and is a creator neither before nor after.
<1>1. ASSUME NEW th \in Thread, NEW p \in Places, ~Creating(th), p \notin {"out", "call", "write", "protect", "clean"},
             pc[th] # "out", pc' = [pc EXCEPT ![th] = p],
             UNCHANGED <<disk, readOnly, writer, open, name, reaper>>
      PROVE  CacheInv'
  BY <1>1
<1>2. ASSUME NEW th \in Thread, ~Creating(th), Leave(th),
             UNCHANGED <<disk, readOnly, writer, open, reaper>>
      PROVE  CacheInv'
  BY <1>2 DEF Leave, Goto
<1>3. ASSUME NEW th \in Thread, NEW nm \in Name, Get(th, nm) PROVE CacheInv'
  BY <1>3 DEF Get, Goto
<1>4. ASSUME NEW th \in Thread, Step(th) PROVE CacheInv'
  <2>1. CASE Test(th) BY <1>1, <2>1 DEF Test, Round, Goto
  <2>2. CASE Lock(th) BY <1>1, <2>2 DEF Lock, Goto
  <2>3. CASE LockThrows(th) BY <1>2, <2>3 DEF LockThrows
  <2>4. CASE Create(th)
    <3>1. CASE Exists(name[th]) BY <1>1, <2>4, <3>1 DEF Create, Goto
    <3>2. CASE ~Exists(name[th])
      <4>1. /\ pc[th] = "create" /\ disk[name[th]] = "none"
            /\ disk' = [disk EXCEPT ![name[th]] = "partial"]
            /\ writer' = [writer EXCEPT ![name[th]] = None]
            /\ pc' = [pc EXCEPT ![th] = "call"]
            /\ UNCHANGED <<readOnly, open, name, reaper>>
        BY ONLY <2>4, <3>2 DEF Create, CreateNewFile, Modify, Goto, At, Exists, callers, reaping
      <4>2. name[th] \in Name /\ name[th] \notin readOnly
        BY <4>1
      <4>3. Typed'
        BY <4>1, <4>2
      <4>4. Attended'
        BY <4>1, <4>2
      <4>5. Undisturbed => \A u \in Thread : Creating(u) => name[u] # name[th]
        BY <4>1
      <4>6. CreatorsFile' /\ SoleCreator'
        BY <4>1, <4>2, <4>5
      <4>q. QED BY ONLY <4>3, <4>4, <4>6 DEF CacheInv
    <3>q. QED BY <3>1, <3>2
  <2>5. CASE CreateThrows(th) BY <1>1, <2>5 DEF CreateThrows, Goto
  <2>6. CASE Open(th)
    BY <2>6 DEF Open, Modify, Goto
  <2>13. CASE Write(th)
    <3>1. UNCHANGED <<disk, readOnly, writer, open, pc, name, reaper>>
      BY <2>13 DEF Write, Modify
    <3>q. QED BY <3>1
  <2>7. CASE Written(th)
    BY <2>7 DEF Written, Modify, Goto
  <2>8. CASE SetReadOnly(th)
    BY <2>8 DEF SetReadOnly, Goto
  <2>9. CASE CopyThrows(th)
    BY <2>9 DEF CopyThrows, Goto
  <2>10. CASE DeleteFailed(th)
    BY <2>10 DEF DeleteFailed, Delete, Goto
  <2>11. CASE Unlock(th)
    BY <1>1, <1>2, <2>11 DEF Unlock, Goto
  <2>12. CASE Return(th)
    BY <1>2, <2>12 DEF Return
  <2>q. QED
    BY ONLY <1>4, <2>1, <2>2, <2>3, <2>4, <2>5, <2>6, <2>7, <2>8, <2>9, <2>10, <2>11, <2>12, <2>13 DEF Step
<1>5. CASE Reaper
  <2>1. CASE Fire BY <2>1 DEF Fire
  <2>2. CASE Scan
    <3>1. UNCHANGED <<disk, readOnly, writer, open, pc, name>> /\ Undisturbed
      BY ONLY <2>2 DEF Scan, callers, Undisturbed
    <3>q. QED BY <3>1
  <2>3. CASE ScanStopped BY <2>3 DEF ScanStopped
  <2>4. CASE Reap
    <3>1. ~Undisturbed'
      BY ONLY <2>4 DEF Reap, Evict, Loop, Undisturbed
    <3>2. \E x : /\ disk' = [disk EXCEPT ![x] = "none"]
                  /\ writer' = [writer EXCEPT ![x] = None]
                  /\ readOnly' = readOnly \ {x}
                  /\ open' = {u \in open : name[u] # x}
      BY ONLY <2>4 DEF Reap, Evict, Delete
    <3>3. UNCHANGED <<pc, name>>
      BY ONLY <2>4 DEF Reap, Evict, callers
    <3>4. PICK x : /\ disk' = [disk EXCEPT ![x] = "none"]
                   /\ writer' = [writer EXCEPT ![x] = None]
                   /\ readOnly' = readOnly \ {x}
                   /\ open' = {u \in open : name[u] # x}
      BY ONLY <3>2
    <3>5. disk' \in [Name -> Kinds] /\ writer' \in [Name -> Thread \cup {None}]
      BY <3>4
    <3>6. \A nm \in Name : IF nm = x THEN disk'[nm] = "none"
                            ELSE disk'[nm] = disk[nm] /\ writer'[nm] = writer[nm]
      BY <3>4
    <3>7. Typed' /\ Attended'
      BY <3>3, <3>4, <3>5, <3>6
    <3>q. QED BY ONLY <3>1, <3>7 DEF CacheInv, CreatorsFile, SoleCreator
  <2>q. QED BY ONLY <1>5, <2>1, <2>2, <2>3, <2>4 DEF Reaper
<1>6. CASE Deactivate
  BY <1>6 DEF Deactivate
<1>7. CASE Crash
  <2>1. \A th \in Thread : pc'[th] = "out"
    BY ONLY <1>7 DEF Crash
  <2>2. \A nm \in Name : disk'[nm] # "partial" /\ (Exists(nm) => disk'[nm] # "none")
    BY ONLY <1>7 DEF Crash, Exists
  <2>3. Typed'
    BY <1>7, <2>1, <2>2 DEF Crash
  <2>q. QED BY <2>1, <2>2, <2>3
<1>8. CASE UNCHANGED vars
  BY <1>8 DEF vars
<1>q. QED BY ONLY <1>3, <1>4, <1>5, <1>6, <1>7, <1>8, [Next]_vars DEF Next

\* Until the reaper deletes, a name has one creator at a time.
THEOREM OneCreator == Spec => []SoleCreator
<1>1. CacheInv => SoleCreator
  BY DEF CacheInv
<1>q. QED BY <1>1, CacheInvInit, CacheInvNext, PTL DEF Spec

\* Whatever fails, is reaped or is deleted under its creator, a partial file has
\* a thread that will complete or delete it.
THEOREM NoDebrisIsLeft == Spec => []NoDebris
<1>1. CacheInv => NoDebris
  BY DEF CacheInv, Attended, NoDebris, Creating
<1>q. QED BY <1>1, CacheInvInit, CacheInvNext, PTL DEF Spec

\* Until the reaper deletes, no complete file is truncated or deleted.
THEOREM CompleteFilesStay == Spec => CompleteStays
<1>1. ASSUME CacheInv, [Next]_vars
      PROVE  [\A nm \in Name :
                disk[nm] = "complete" /\ Undisturbed' => disk'[nm] = "complete"]_vars
  <2> SUFFICES ASSUME NEW nm \in Name, disk[nm] = "complete", Undisturbed'
               PROVE  disk'[nm] = "complete"
    OBVIOUS
  <2>1. ASSUME NEW th \in Thread, Step(th) PROVE disk'[nm] = "complete"
    <3>1. Undisturbed
      BY ONLY Undisturbed', <2>1 DEF Undisturbed, Step, Test, Round, Lock, LockThrows, Create, CreateThrows,
         Open, Write, Written, SetReadOnly, CopyThrows, DeleteFailed, Unlock, Return, reaping
    <3>2. \/ disk' = disk \/ disk' = [disk EXCEPT ![name[th]] = disk[name[th]]]
          \/ /\ ~Exists(name[th]) \/ pc[th] \in {"call", "clean"}
             /\ \E k \in Kinds : disk' = [disk EXCEPT ![name[th]] = k]
          \/ disk' = [disk EXCEPT ![name[th]] = "complete"]
      BY ONLY <2>1 DEF Step, Test, Round, Lock, LockThrows, Create, CreateNewFile, CreateThrows,
         Open, Write, Written, SetReadOnly, CopyThrows, DeleteFailed, Unlock, Return, Modify, Delete, files,
         At, Kinds
    <3>3. ~Exists(name[th]) \/ pc[th] \in {"call", "clean"} => disk[name[th]] # "complete"
      BY ONLY CacheInv, <3>1 DEF CacheInv, CreatorsFile, Creating, Exists
    <3>4. disk \in [Name -> Kinds]
      BY ONLY CacheInv DEF CacheInv, Typed
    <3>q. QED BY ONLY <3>2, <3>3, <3>4, nm \in Name, disk[nm] = "complete"
  <2>2. ASSUME NEW th \in Thread, NEW x \in Name, Get(th, x) PROVE disk' = disk
    BY ONLY <2>2 DEF Get, files
  <2>3. CASE Reaper \/ Deactivate
    <3>1. disk' = disk
      BY ONLY <2>3, Undisturbed' DEF Reaper, Fire, Scan, ScanStopped, Reap, Evict, Loop, Deactivate,
         Undisturbed, files
    <3>q. QED BY <3>1
  <2>4. CASE Crash
    BY ONLY <2>4, nm \in Name, disk[nm] = "complete" DEF Crash
  <2>5. CASE UNCHANGED vars
    BY ONLY <2>5, disk[nm] = "complete" DEF vars, files
  <2>q. QED BY ONLY <1>1, <2>1, <2>2, <2>3, <2>4, <2>5, disk[nm] = "complete" DEF Next
<1>q. QED BY <1>1, CacheInvInit, CacheInvNext, PTL DEF Spec, CompleteStays

-----------------------------------------------------------------------------
(* Facts about sequences without repetition.                               *)

\* A sequence without its kth element.
LEMMA RemovedAt ==
  ASSUME NEW S, NEW s \in Seq(S), NEW k \in 1 .. Len(s)
  PROVE  /\ SubSeq(s, 1, k - 1) \o SubSeq(s, k + 1, Len(s)) \in Seq(S)
         /\ Len(SubSeq(s, 1, k - 1) \o SubSeq(s, k + 1, Len(s))) = Len(s) - 1
         /\ \A i \in 1 .. Len(s) - 1 :
               (SubSeq(s, 1, k - 1) \o SubSeq(s, k + 1, Len(s)))[i] = IF i < k THEN s[i] ELSE s[i + 1]
<1>1. Len(s) \in Nat /\ k \in Nat /\ k - 1 \in Int /\ k + 1 \in Int /\ Len(s) \in Int
  BY LenProperties
<1>2. \A i \in 1 .. Len(s) : s[i] \in S
  BY LenProperties
<1> DEFINE u == SubSeq(s, 1, k - 1)
           v == SubSeq(s, k + 1, Len(s))
           n == Len(s)
<1>3. u \in Seq(S) /\ Len(u) = k - 1 /\ \A i \in 1 .. k - 1 : u[i] = s[i]
  <2>1. \A i \in 1 .. k - 1 : s[i] \in S
    BY <1>1, <1>2
  <2>2. u \in Seq(S) /\ Len(u) = (IF 1 <= k - 1 THEN k - 1 - 1 + 1 ELSE 0)
        /\ \A i \in 1 .. k - 1 - 1 + 1 : u[i] = s[1 + i - 1]
    BY ONLY <1>1, <2>1, SubSeqProperties
  <2> HIDE DEF u
  <2>q. QED BY ONLY <1>1, <2>2, k \in 1 .. Len(s)
<1>4. v \in Seq(S) /\ Len(v) = n - k /\ \A i \in 1 .. n - k : v[i] = s[k + i]
  <2>1. \A i \in k + 1 .. Len(s) : s[i] \in S
    BY <1>1, <1>2
  <2>2. v \in Seq(S) /\ Len(v) = (IF k + 1 <= Len(s) THEN Len(s) - (k + 1) + 1 ELSE 0)
        /\ \A i \in 1 .. Len(s) - (k + 1) + 1 : v[i] = s[k + 1 + i - 1]
    BY ONLY <1>1, <2>1, SubSeqProperties
  <2> HIDE DEF v
  <2>q. QED BY ONLY <1>1, <2>2, k \in 1 .. Len(s)
<1>5. u \o v \in Seq(S) /\ Len(u \o v) = Len(u) + Len(v)
      /\ \A i \in 1 .. Len(u) + Len(v) : (u \o v)[i] = IF i <= Len(u) THEN u[i] ELSE v[i - Len(u)]
  <2> HIDE DEF u, v
  <2>q. QED BY ONLY <1>3, <1>4, ConcatProperties
<1> DEFINE r == u \o v
<1>6. n \in Nat /\ k \in 1 .. n
  BY <1>1
<1> HIDE DEF n
<1>7. \A i : u[i] = u[i]
  OBVIOUS
<1> SUFFICES /\ r \in Seq(S) /\ Len(r) = n - 1
             /\ \A i \in 1 .. n - 1 : r[i] = IF i < k THEN s[i] ELSE s[i + 1]
  BY DEF n
<1>8. r \in Seq(S) /\ Len(r) = Len(u) + Len(v)
      /\ \A i \in 1 .. Len(u) + Len(v) : r[i] = IF i <= Len(u) THEN u[i] ELSE v[i - Len(u)]
  BY ONLY <1>5
<1> HIDE DEF u, v, r
<1>9. Len(r) = n - 1
  BY ONLY <1>3, <1>4, <1>6, <1>8
<1>10. ASSUME NEW i \in 1 .. n - 1 PROVE r[i] = IF i < k THEN s[i] ELSE s[i + 1]
  <2>1. i \in 1 .. Len(u) + Len(v)
    BY ONLY <1>3, <1>4, <1>6, i \in 1 .. n - 1
  <2>2. r[i] = IF i <= k - 1 THEN u[i] ELSE v[i - (k - 1)]
    BY ONLY <2>1, <1>8, <1>3
  <2>3. CASE i < k
    BY ONLY <2>2, <2>3, <1>3, <1>6, i \in 1 .. n - 1
  <2>4. CASE ~ (i < k)
    <3>1. i - (k - 1) \in 1 .. n - k /\ k + (i - (k - 1)) = i + 1 /\ ~ (i <= k - 1)
      BY ONLY <2>4, <1>6, i \in 1 .. n - 1
    <3>2. v[i - (k - 1)] = s[k + (i - (k - 1))]
      BY ONLY <3>1, <1>4
    <3>q. QED BY ONLY <2>2, <2>4, <3>1, <3>2
  <2>q. QED BY ONLY <2>3, <2>4
<1>q. QED BY ONLY <1>8, <1>9, <1>10

\* Without an element of its own, a sequence of distinct ones has the others.
LEMMA Removed ==
  ASSUME NEW S, NEW s \in Seq(S), IsInjective(s), NEW e
  PROVE  /\ RemoveFirst(s, e) \in Seq(S)
         /\ IsInjective(RemoveFirst(s, e))
         /\ ToSet(RemoveFirst(s, e)) = ToSet(s) \ {e}
<1> DEFINE I == {i \in 1 .. Len(s) : s[i] = e}
<1>1. CASE I = {}
  <2>1. RemoveFirst(s, e) = s
    BY ONLY <1>1 DEF RemoveFirst
  <2>q. QED BY <1>1, <2>1 DEF ToSet
<1>2. CASE I # {}
  <2>1. PICK k \in 1 .. Len(s) : s[k] = e
    BY <1>2
  <2>2. I = {k}
    BY <2>1 DEF IsInjective
  <2>3. Min(I) = k
    BY <2>1, <2>2 DEF Min
  <2> HIDE DEF I
  <2>4. SelectInSeq(s, LAMBDA v : v = e) = k
    BY <2>3, <1>2 DEF SelectInSeq, I
  <2>5. RemoveFirst(s, e) = SubSeq(s, 1, k - 1) \o SubSeq(s, k + 1, Len(s))
    BY ONLY <2>1, <2>4 DEF RemoveFirst, RemoveAt
  <2> DEFINE r == SubSeq(s, 1, k - 1) \o SubSeq(s, k + 1, Len(s))
  <2>6. /\ r \in Seq(S) /\ Len(r) = Len(s) - 1
        /\ \A i \in 1 .. Len(s) - 1 : r[i] = IF i < k THEN s[i] ELSE s[i + 1]
    BY RemovedAt
  <2> HIDE DEF r
  <2>0. /\ Len(s) \in Nat /\ k \in 1 .. Len(s) /\ DOMAIN s = 1 .. Len(s) /\ DOMAIN r = 1 .. Len(s) - 1
        /\ \A i, j \in 1 .. Len(s) : s[i] = s[j] => i = j
    BY <2>6, IsInjective(s), LenProperties DEF IsInjective
  <2>7. IsInjective(r)
    <3> SUFFICES ASSUME NEW i \in 1 .. Len(s) - 1, NEW j \in 1 .. Len(s) - 1, r[i] = r[j]
                 PROVE  i = j
      BY <2>0 DEF IsInjective
    <3>1. i \in 1 .. Len(s) /\ j \in 1 .. Len(s) /\ i + 1 \in 1 .. Len(s) /\ j + 1 \in 1 .. Len(s)
      BY <2>0
    <3>q. QED BY ONLY <2>0, <2>6, <3>1, i \in 1 .. Len(s) - 1, j \in 1 .. Len(s) - 1, r[i] = r[j]
  <2>8. ToSet(r) \subseteq ToSet(s) \ {e}
    BY <2>1, <2>6, SMTT(30) DEF IsInjective, ToSet
  <2>9. ASSUME NEW i \in 1 .. Len(s), s[i] # e PROVE s[i] \in ToSet(r)
    <3>1. CASE i < k
      BY <2>6, <3>1 DEF ToSet
    <3>2. CASE i > k
      <4>1. i - 1 \in DOMAIN r /\ r[i - 1] = s[i]
        BY <2>6, <3>2
      <4>q. QED BY ONLY <4>1 DEF ToSet
    <3>q. QED BY <2>1, <2>9, <3>1, <3>2
  <2>10. ToSet(s) \ {e} \subseteq ToSet(r)
    BY <2>9 DEF ToSet
  <2>11. r = RemoveFirst(s, e)
    BY <2>5 DEF r
  <2>q. QED BY <2>6, <2>7, <2>8, <2>10, <2>11
<1>q. QED BY <1>1, <1>2

LEMMA Appended ==
  ASSUME NEW S, NEW s \in Seq(S), IsInjective(s), NEW e \in S, e \notin ToSet(s)
  PROVE  /\ Append(s, e) \in Seq(S)
         /\ IsInjective(Append(s, e))
         /\ ToSet(Append(s, e)) = ToSet(s) \cup {e}
<1> DEFINE r == Append(s, e)
<1>1. /\ r \in Seq(S) /\ Len(r) = Len(s) + 1 /\ r[Len(s) + 1] = e
      /\ \A i \in 1 .. Len(s) : r[i] = s[i]
  OBVIOUS
<1>2. DOMAIN r = 1 .. Len(s) + 1 /\ DOMAIN s = 1 .. Len(s)
  BY <1>1
<1> HIDE DEF r
<1>3. \A i \in DOMAIN s : s[i] # e
  BY DEF ToSet
<1>4. IsInjective(r)
  BY <1>1, <1>2, <1>3 DEF IsInjective
<1>5. ToSet(r) = ToSet(s) \cup {e}
  BY <1>1, <1>2 DEF ToSet
<1>q. QED BY <1>1, <1>4, <1>5 DEF r

-----------------------------------------------------------------------------
(* The type invariant: the order of modification has the files there are.  *)

Ordered ==
    /\ recency \in Seq(Name)
    /\ IsInjective(recency)
    /\ ToSet(recency) = {nm \in Name : disk[nm] # "none"}

FilesTyped ==
    /\ disk \in [Name -> Kinds] /\ Ordered
    /\ bytes \subseteq Blocks /\ lost \subseteq Blocks
    /\ \A b \in bytes : disk[b[1]] # "none"
    /\ readOnly \subseteq Name /\ open \subseteq Thread
    /\ writer \in [Name -> Thread \cup {None}]

\* A stream that is not unlinked has its file.
Linked == \A th \in open : pc[th] = "write" /\ disk[name[th]] # "none"

TypeInv ==
    /\ TypeOK
    /\ Linked
    /\ \A th \in Thread : pc[th] # "out" => name[th] \in Name

LEMMA ModifyOrdered ==
  ASSUME Ordered, disk \in [Name -> Kinds], NEW nm \in Name, NEW kind \in Kinds \ {"none"}, NEW by,
         Modify(nm, kind, by)
  PROVE  Ordered' /\ disk' \in [Name -> Kinds]
<1>1. /\ disk' = [disk EXCEPT ![nm] = kind] /\ disk' \in [Name -> Kinds]
      /\ recency' = Append(RemoveFirst(recency, nm), nm)
  BY DEF Modify
<1>2. /\ RemoveFirst(recency, nm) \in Seq(Name) /\ IsInjective(RemoveFirst(recency, nm))
      /\ ToSet(RemoveFirst(recency, nm)) = ToSet(recency) \ {nm}
  BY ONLY Ordered, Removed DEF Ordered
<1>3. /\ recency' \in Seq(Name) /\ IsInjective(recency')
      /\ ToSet(recency') = (ToSet(recency) \ {nm}) \cup {nm}
  BY ONLY <1>1, <1>2, nm \in Name, Appended
<1>4. ToSet(recency') = {x \in Name : disk'[x] # "none"}
  BY <1>1, <1>3 DEF Ordered
<1>q. QED BY <1>1, <1>3, <1>4 DEF Ordered

LEMMA DeleteOrdered ==
  ASSUME Ordered, disk \in [Name -> Kinds], NEW nm \in Name, Delete(nm)
  PROVE  Ordered' /\ disk' \in [Name -> Kinds]
<1>1. /\ disk' = [disk EXCEPT ![nm] = "none"] /\ disk' \in [Name -> Kinds]
      /\ recency' = RemoveFirst(recency, nm)
  BY DEF Delete, Kinds
<1>2. /\ recency' \in Seq(Name) /\ IsInjective(recency')
      /\ ToSet(recency') = ToSet(recency) \ {nm}
  BY ONLY <1>1, Ordered, Removed DEF Ordered
<1>3. ToSet(recency') = {x \in Name : disk'[x] # "none"}
  BY <1>1, <1>2 DEF Ordered
<1>q. QED BY <1>1, <1>2, <1>3 DEF Ordered

\* A file that is used becomes the last modified.
LEMMA TouchOrdered ==
  ASSUME Ordered, NEW nm \in Name, Exists(nm), disk' = disk,
         recency' = Append(RemoveFirst(recency, nm), nm)
  PROVE  Ordered'
<1>1. /\ RemoveFirst(recency, nm) \in Seq(Name) /\ IsInjective(RemoveFirst(recency, nm))
      /\ ToSet(RemoveFirst(recency, nm)) = ToSet(recency) \ {nm}
  BY ONLY Ordered, Removed DEF Ordered
<1>2. /\ recency' \in Seq(Name) /\ IsInjective(recency')
      /\ ToSet(recency') = (ToSet(recency) \ {nm}) \cup {nm}
  BY ONLY recency' = Append(RemoveFirst(recency, nm), nm), <1>1, nm \in Name, Appended
<1>3. nm \in ToSet(recency)
  BY DEF Ordered, Exists
<1>q. QED BY <1>2, <1>3, disk' = disk DEF Ordered

LEMMA BlocksFinite == IsFiniteSet(Blocks)
<1>1. IsFiniteSet(Name) /\ 1 \in Int /\ FileSize \in Int
  BY FileCacheAssumption
<1>2. IsFiniteSet(1 .. FileSize)
  BY ONLY <1>1, FS_Interval
<1>q. QED BY ONLY <1>1, <1>2, FS_Product DEF Blocks

LEMMA BlocksKept ==
  ASSUME FilesTyped, NEW nm \in Name, Exists(nm), NEW k \in 1 .. FileSize
  PROVE  /\ {nm} \X (1 .. k) \subseteq Blocks
         /\ \A b \in {nm} \X (1 .. k) : b[1] = nm
<1>1. k \in Nat /\ FileSize \in Nat /\ 1 .. k \subseteq 1 .. FileSize
  BY FileCacheAssumption
<1>q. QED BY ONLY <1>1, nm \in Name DEF Blocks

LEMMA DeleteTyped ==
  ASSUME FilesTyped, NEW nm \in Name, Delete(nm), lost' \subseteq Blocks
  PROVE  FilesTyped'
<1>1. disk' = [disk EXCEPT ![nm] = "none"] /\ disk' \in [Name -> Kinds] /\ Ordered'
  BY DeleteOrdered DEF FilesTyped, Delete
<1>2. bytes' \subseteq Blocks /\ \A b \in bytes' : b \in bytes /\ b[1] # nm
  BY DEF FilesTyped, Delete, BlocksOf
<1>3. \A b \in bytes' : disk'[b[1]] # "none"
  <2>1. \A b \in Blocks : b[1] \in Name
    BY DEF Blocks
  <2>q. QED BY <1>1, <1>2, <2>1 DEF FilesTyped
<1>4. readOnly' \subseteq Name /\ open' \subseteq Thread /\ writer' \in [Name -> Thread \cup {None}]
  BY ONLY FilesTyped, Delete(nm), nm \in Name DEF FilesTyped, Delete
<1>q. QED BY ONLY <1>1, <1>2, <1>3, <1>4, lost' \subseteq Blocks DEF FilesTyped

LEMMA ModifyTyped ==
  ASSUME FilesTyped, NEW nm \in Name, NEW kind \in Kinds \ {"none"}, NEW by \in Thread \cup {None},
         Modify(nm, kind, by), bytes' \subseteq Blocks, \A b \in bytes' : b \in bytes \/ b[1] = nm,
         open' \subseteq Thread, lost' \subseteq Blocks
  PROVE  FilesTyped'
<1>1. disk' = [disk EXCEPT ![nm] = kind] /\ disk' \in [Name -> Kinds] /\ Ordered'
  BY ModifyOrdered DEF FilesTyped, Modify
<1>2. \A b \in bytes' : disk'[b[1]] # "none"
  <2>1. \A b \in Blocks : b[1] \in Name
    BY DEF Blocks
  <2>q. QED BY <1>1, <2>1 DEF FilesTyped
<1>3. readOnly' \subseteq Name /\ writer' \in [Name -> Thread \cup {None}]
  BY DEF FilesTyped, Modify
<1>q. QED BY ONLY <1>1, <1>2, <1>3, bytes' \subseteq Blocks, open' \subseteq Thread, lost' \subseteq Blocks
          DEF FilesTyped

LEMMA TakenBack ==
  ASSUME FilesTyped, NEW nm, TakeBack(nm)
  PROVE  bytes' \subseteq bytes /\ lost' \subseteq Blocks
BY DEF FilesTyped, TakeBack, BlocksOf

LEMMA TypeInvInit == Init => TypeInv
<1> SUFFICES ASSUME Init PROVE TypeInv
  OBVIOUS
<1>1. recency = <<>> /\ ToSet(recency) = {} /\ IsInjective(recency)
  BY DEF Init, ToSet, IsInjective
<1>q. QED
  BY <1>1, FileCacheAssumption DEF Init, TypeInv, TypeOK, Linked, Kinds, Places, Phases

LEMMA LinkedNext == TypeInv /\ [Next]_vars => Linked'
<1> SUFFICES ASSUME TypeInv, [Next]_vars PROVE Linked'
  OBVIOUS
<1>0. /\ Linked /\ open \subseteq Thread /\ disk \in [Name -> Kinds] /\ pc \in [Thread -> Places]
      /\ name \in [Thread -> Name \cup {None}]
      /\ \A th \in Thread : pc[th] # "out" => name[th] \in Name
  BY DEF TypeInv, TypeOK
\* A thread goes on with no stream, and files are none only if they were before.
<1>1. ASSUME NEW th \in Thread, open' \subseteq open \ {th} \/ (open' \subseteq open \cup {th} /\ pc'[th] = "write" /\ name'[th] \in Name /\ disk'[name'[th]] # "none"),
             \A u \in Thread \ {th} : pc'[u] = pc[u] /\ name'[u] = name[u],
             \A nm \in Name : disk[nm] # "none" => disk'[nm] # "none"
      PROVE  Linked'
  BY ONLY <1>0, <1>1 DEF Linked
<1>2. ASSUME NEW th \in Thread, pc[th] # "write", UNCHANGED <<open, disk>>,
             \A u \in Thread \ {th} : pc'[u] = pc[u] /\ name'[u] = name[u]
      PROVE  Linked'
  BY ONLY <1>0, <1>1, <1>2 DEF Linked
<1>3. ASSUME NEW th \in Thread, NEW nm \in Name, Get(th, nm) PROVE Linked'
  <2>1. /\ pc[th] # "write" /\ UNCHANGED <<open, disk>>
        /\ \A u \in Thread \ {th} : pc'[u] = pc[u] /\ name'[u] = name[u]
    BY ONLY <1>3, <1>0 DEF Get, At, Goto, files
  <2>q. QED BY ONLY <1>2, <2>1
<1>4. ASSUME NEW th \in Thread, Step(th) PROVE Linked'
  <2>0. \A u \in Thread \ {th} : pc'[u] = pc[u] /\ name'[u] = name[u]
    BY ONLY <1>4, <1>0 DEF Step, Test, Round, Lock, LockThrows, Create, CreateNewFile, CreateThrows, Open, Write,
       Written, SetReadOnly, CopyThrows, DeleteFailed, Unlock, Return, Goto, Leave, callers
  <2>1. CASE Test(th) \/ Lock(th) \/ LockThrows(th) \/ CreateThrows(th) \/ SetReadOnly(th) \/ Unlock(th) \/ Return(th)
    <3>1. pc[th] # "write" /\ UNCHANGED <<open, disk>>
      BY ONLY <2>1 DEF Test, Round, Lock, LockThrows, CreateThrows, SetReadOnly, Unlock, Return, At, files
    <3>q. QED BY ONLY <1>2, <2>0, <3>1
  <2>2. CASE Create(th)
    <3>1. /\ pc[th] # "write" /\ open' = open
          /\ disk' = disk \/ disk' = [disk EXCEPT ![name[th]] = "partial"]
      BY ONLY <2>2 DEF Create, CreateNewFile, Modify, At, files
    <3>2. \A nm \in Name : disk[nm] # "none" => disk'[nm] # "none"
      BY ONLY <3>1, <1>0
    <3>3. open' \subseteq open \ {th}
      BY ONLY <3>1, <1>0 DEF Linked
    <3>q. QED BY ONLY <1>1, <2>0, <3>2, <3>3
  <2>3. CASE Open(th)
    <3>1. /\ open' = open \cup {th} /\ pc' = [pc EXCEPT ![th] = "write"] /\ name' = name
          /\ disk' = [disk EXCEPT ![name[th]] = "partial"] /\ pc[th] = "call"
      BY ONLY <2>3 DEF Open, Modify, Goto, At, callers
    <3>2. \A nm \in Name : disk[nm] # "none" => disk'[nm] # "none"
      BY ONLY <3>1, <1>0
    <3>3. pc'[th] = "write" /\ name'[th] \in Name /\ disk'[name'[th]] # "none"
      BY ONLY <3>1, <1>0
    <3>q. QED BY ONLY <1>1, <2>0, <3>1, <3>2, <3>3
  <2>4. CASE Write(th)
    <3>1. UNCHANGED <<open, pc, name>> /\ disk' = [disk EXCEPT ![name[th]] = disk[name[th]]]
      BY ONLY <2>4 DEF Write, Modify, callers
    <3>q. QED BY ONLY <1>0, <3>1 DEF Linked
  <2>5. CASE Written(th)
    <3>1. /\ open' \subseteq open \ {th}
          /\ disk' = disk \/ \E k \in {"complete", disk[name[th]]} : disk' = [disk EXCEPT ![name[th]] = k]
      BY ONLY <2>5 DEF Written, Modify, files
    <3>2. \A nm \in Name : disk[nm] # "none" => disk'[nm] # "none"
      BY ONLY <3>1, <1>0
    <3>q. QED BY ONLY <1>1, <2>0, <3>1, <3>2
  <2>6. CASE CopyThrows(th)
    <3>1. open' = open \ {th} /\ disk' = disk
      BY ONLY <2>6 DEF CopyThrows
    <3>q. QED BY ONLY <1>1, <2>0, <3>1
  <2>7. CASE DeleteFailed(th)
    <3>1. /\ open' = {u \in open : name[u] # name[th]} /\ disk' = [disk EXCEPT ![name[th]] = "none"]
          /\ pc[th] = "clean"
      BY ONLY <2>7 DEF DeleteFailed, Delete, At
    <3>q. QED BY ONLY <1>0, <2>0, <3>1 DEF Linked
  <2>q. QED BY ONLY <1>4, <2>1, <2>2, <2>3, <2>4, <2>5, <2>6, <2>7 DEF Step
<1>5. CASE Reap
  <2>1. PICK x : open' = {u \in open : name[u] # x} /\ disk' = [disk EXCEPT ![x] = "none"]
    BY ONLY <1>5 DEF Reap, Evict, Delete
  <2>2. UNCHANGED <<pc, name>>
    BY ONLY <1>5 DEF Reap, Evict, callers
  <2>q. QED BY ONLY <1>0, <2>1, <2>2 DEF Linked
<1>6. CASE Crash
  BY ONLY <1>6 DEF Crash, Linked
<1>7. CASE Fire \/ Scan \/ ScanStopped \/ Deactivate \/ UNCHANGED vars
  <2>1. UNCHANGED <<open, disk, pc, name>>
    BY ONLY <1>7 DEF Fire, Scan, ScanStopped, Deactivate, vars, files, callers
  <2>q. QED BY ONLY <1>0, <2>1 DEF Linked
<1>q. QED BY ONLY <1>3, <1>4, <1>5, <1>6, <1>7, [Next]_vars DEF Next, Reaper

LEMMA TypeInvNext == TypeInv /\ [Next]_vars => TypeInv'
<1> SUFFICES ASSUME TypeInv, [Next]_vars PROVE TypeInv'
  OBVIOUS
<1>0. FilesTyped /\ Linked
  BY DEF TypeInv, TypeOK, FilesTyped, Ordered
<1>00. /\ locks \subseteq Name
       /\ pc \in [Thread -> Places] /\ name \in [Thread -> Name \cup {None}]
       /\ max \in [Thread -> 0..MaxTries] /\ reaper \in Phases /\ victims \in Seq(Name) /\ size \in Int
       /\ \A th \in Thread : pc[th] # "out" => name[th] \in Name
  BY DEF TypeInv, TypeOK
<1>01. Linked'
  BY LinkedNext
\* What is left to show of a step that leaves the reaper alone.
<1>1. ASSUME FilesTyped', locks' \subseteq Name,
             NEW th \in Thread, NEW p \in Places, NEW nm \in Name \cup {None}, NEW m \in 0..MaxTries,
             p # "out" => nm \in Name,
             pc' = [pc EXCEPT ![th] = p], name' = [name EXCEPT ![th] = nm], max' = [max EXCEPT ![th] = m],
             UNCHANGED reaping
      PROVE  TypeInv'
  <2>1. /\ pc' \in [Thread -> Places] /\ name' \in [Thread -> Name \cup {None}]
        /\ max' \in [Thread -> 0..MaxTries]
        /\ \A u \in Thread : pc'[u] # "out" => name'[u] \in Name
    BY ONLY <1>1, <1>00
  <2>q. QED BY ONLY <1>1, <1>00, <1>01, <2>1 DEF TypeInv, TypeOK, FilesTyped, Ordered, reaping
<1>2. ASSUME UNCHANGED files PROVE FilesTyped'
  BY ONLY <1>0, <1>2 DEF files, FilesTyped, Ordered
<1>3. ASSUME NEW th \in Thread, NEW nm \in Name, Get(th, nm) PROVE TypeInv'
  <2>1. MaxTries \in 0..MaxTries
    BY FileCacheAssumption
  <2>q. QED BY ONLY <1>1, <1>2, <1>3, <1>00, <2>1 DEF Get, Goto, Places
<1>4. ASSUME NEW th \in Thread, Step(th) PROVE TypeInv'
  <2> DEFINE Stay == name' = [name EXCEPT ![th] = name[th]] /\ max' = [max EXCEPT ![th] = max[th]]
  <2>0. /\ name[th] \in Name \cup {None} /\ max[th] \in 0..MaxTries /\ None \in Name \cup {None}
        /\ 0 \in 0..MaxTries /\ (UNCHANGED callers => Stay) /\ (UNCHANGED name => name' = [name EXCEPT ![th] = name[th]])
    BY ONLY <1>00, FileCacheAssumption DEF callers
  \* ... and of one that keeps its name and its rounds.
  <2>00. ASSUME NEW p \in Places \ {"out"}, pc[th] # "out", pc' = [pc EXCEPT ![th] = p],
                FilesTyped', locks' \subseteq Name, UNCHANGED <<callers, reaping>>
         PROVE  TypeInv'
    BY ONLY <1>1, <2>0, <2>00, <1>00
  <2>1. CASE Test(th)
    <3>1. CASE Exists(name[th]) \/ max[th] = 0
      BY ONLY <2>00, <2>1, <3>1, <1>2, <1>00 DEF Test, Round, At, Goto, Places, callers
    <3>2. CASE ~(Exists(name[th]) \/ max[th] = 0)
      <4>1. max[th] - 1 \in 0..MaxTries
        BY ONLY <3>2, <2>0, FileCacheAssumption
      <4>q. QED BY ONLY <1>1, <2>0, <2>1, <3>2, <4>1, <1>2, <1>00 DEF Test, Round, At, Goto, Places
    <3>q. QED BY ONLY <3>1, <3>2
  <2>2. CASE Lock(th)
    <3>1. locks' \subseteq Name
      BY ONLY <2>2, <1>00 DEF Lock, At
    <3>q. QED BY ONLY <2>00, <2>2, <3>1, <1>2 DEF Lock, At, Goto, Places
  <2>3. CASE LockThrows(th)
    BY ONLY <1>1, <2>0, <2>3, <1>2, <1>00 DEF LockThrows, Leave, Goto, Places
  <2>4. CASE Create(th)
    <3>1. CASE Exists(name[th])
      BY ONLY <2>00, <2>4, <3>1, <1>2, <1>00 DEF Create, At, Goto, Places
    <3>2. CASE ~Exists(name[th])
      <4>1. /\ name[th] \in Name /\ Modify(name[th], "partial", None) /\ "partial" \in Kinds \ {"none"}
            /\ UNCHANGED <<bytes, open, lost>>
        BY ONLY <2>4, <3>2, <1>00 DEF Create, CreateNewFile, At, Kinds
      <4>2. bytes' \subseteq Blocks /\ open' \subseteq Thread /\ lost' \subseteq Blocks
        BY ONLY <4>1, <1>0 DEF FilesTyped
      <4>3. FilesTyped'
        BY ONLY <4>1, <4>2, <1>0, ModifyTyped
      <4>q. QED BY ONLY <2>00, <2>4, <3>2, <4>3, <1>00 DEF Create, CreateNewFile, At, Goto, Places
    <3>q. QED BY ONLY <3>1, <3>2
  <2>5. CASE CreateThrows(th)
    BY ONLY <2>00, <2>5, <1>2, <1>00 DEF CreateThrows, At, Goto, Places
  <2>6. CASE Open(th)
    <3>1. /\ name[th] \in Name /\ Modify(name[th], "partial", th) /\ "partial" \in Kinds \ {"none"}
          /\ TakeBack(name[th]) /\ open' = open \cup {th} /\ th \in Thread \cup {None}
      BY ONLY <2>6, <1>00 DEF Open, At, Kinds
    <3>2. bytes' \subseteq bytes /\ bytes' \subseteq Blocks /\ lost' \subseteq Blocks /\ open' \subseteq Thread
      BY ONLY <3>1, <1>0, TakenBack DEF FilesTyped
    <3>3. FilesTyped'
      BY ONLY <3>1, <3>2, <1>0, ModifyTyped
    <3>q. QED BY ONLY <2>00, <2>6, <3>3, <1>00 DEF Open, At, Goto, Places
  <2>7. CASE Write(th)
    <3>0. th \in open /\ name[th] \in Name /\ Exists(name[th]) /\ pc[th] = "write"
      BY ONLY <2>7, <1>0, <1>00 DEF Write, At, Linked, Exists
    <3>1. PICK k \in Length(name[th]) + 1 .. FileSize : bytes' = bytes \cup ({name[th]} \X (1 .. k))
      BY ONLY <2>7 DEF Write
    <3>2. /\ Modify(name[th], disk[name[th]], writer[name[th]]) /\ UNCHANGED <<open, lost>>
          /\ disk[name[th]] \in Kinds \ {"none"} /\ writer[name[th]] \in Thread \cup {None}
      BY ONLY <2>7, <1>0, <3>0 DEF Write, FilesTyped, Exists
    <3>3. k \in 1 .. FileSize
      <4>1. IsFiniteSet(BlocksOf(name[th]))
        <5>1. IsFiniteSet(Blocks)
          BY BlocksFinite
        <5>2. BlocksOf(name[th]) \subseteq Blocks
          BY ONLY <1>0 DEF BlocksOf, FilesTyped
        <5>q. QED BY ONLY <5>1, <5>2, FS_Subset
      <4>2. Length(name[th]) \in Nat
        BY ONLY <4>1, FS_CardinalityType DEF Length
      <4>q. QED BY ONLY <3>1, <4>2, FileCacheAssumption
    <3>4. /\ bytes' \subseteq Blocks /\ \A b \in bytes' : b \in bytes \/ b[1] = name[th]
          /\ open' \subseteq Thread /\ lost' \subseteq Blocks
      BY ONLY <1>0, <3>0, <3>1, <3>2, <3>3, BlocksKept DEF FilesTyped
    <3>5. FilesTyped'
      BY ONLY <1>0, <3>0, <3>2, <3>4, ModifyTyped
    <3>6. pc' = [pc EXCEPT ![th] = "write"] /\ locks' \subseteq Name /\ UNCHANGED <<callers, reaping>>
      BY ONLY <2>7, <3>0, <1>00 DEF Write
    <3>q. QED BY ONLY <2>00, <3>0, <3>5, <3>6 DEF Places
  <2>8. CASE Written(th)
    <3>1. CASE th \notin open
      BY ONLY <2>00, <2>8, <3>1, <1>2, <1>00 DEF Written, At, Goto, Places
    <3>2. CASE th \in open
      <4>0. name[th] \in Name /\ Exists(name[th])
        BY ONLY <3>2, <2>8, <1>0, <1>00 DEF Written, At, Linked, Exists
      <4>1. PICK k \in {"complete", disk[name[th]]}, by \in {None, writer[name[th]]} : Modify(name[th], k, by)
        BY ONLY <2>8, <3>2 DEF Written
      <4>2. k \in Kinds \ {"none"} /\ by \in Thread \cup {None}
        BY ONLY <4>0, <4>1, <1>0 DEF Kinds, FilesTyped, Exists
      <4>3. /\ bytes' = bytes \cup ({name[th]} \X (1 .. FileSize)) /\ open' = open \ {th} /\ lost' = lost
        BY ONLY <2>8, <3>2 DEF Written
      <4>4. FileSize \in 1 .. FileSize
        BY FileCacheAssumption
      <4>5. /\ bytes' \subseteq Blocks /\ \A b \in bytes' : b \in bytes \/ b[1] = name[th]
            /\ open' \subseteq Thread /\ lost' \subseteq Blocks
        BY ONLY <1>0, <4>0, <4>3, <4>4, BlocksKept DEF FilesTyped
      <4>6. FilesTyped'
        BY ONLY <1>0, <4>0, <4>1, <4>2, <4>5, ModifyTyped
      <4>q. QED BY ONLY <2>00, <2>8, <4>6, <1>00 DEF Written, At, Goto, Places
    <3>q. QED BY ONLY <3>1, <3>2
  <2>9. CASE SetReadOnly(th)
    <3>1. /\ UNCHANGED <<disk, bytes, writer, open, recency, lost>>
          /\ readOnly' = readOnly \cup {name[th]} \/ readOnly' = readOnly
          /\ name[th] \in Name
      BY ONLY <2>9, <1>00 DEF SetReadOnly, At
    <3>2. FilesTyped'
      BY ONLY <1>0, <3>1 DEF FilesTyped, Ordered
    <3>q. QED BY ONLY <2>00, <2>9, <3>2, <1>00 DEF SetReadOnly, At, Goto, Places
  <2>10. CASE CopyThrows(th)
    <3>1. UNCHANGED <<disk, bytes, readOnly, writer, recency, lost>> /\ open' \subseteq open
      BY ONLY <2>10 DEF CopyThrows
    <3>2. FilesTyped'
      BY ONLY <1>0, <3>1 DEF FilesTyped, Ordered
    <3>q. QED BY ONLY <2>00, <2>10, <3>2, <1>00 DEF CopyThrows, At, Goto, Places
  <2>11. CASE DeleteFailed(th)
    <3>1. name[th] \in Name /\ Delete(name[th]) /\ TakeBack(name[th])
      BY ONLY <2>11, <1>00 DEF DeleteFailed, At
    <3>2. FilesTyped'
      BY ONLY <3>1, <1>0, TakenBack, DeleteTyped
    <3>q. QED BY ONLY <2>00, <2>11, <3>2, <1>00 DEF DeleteFailed, At, Goto, Places
  <2>12. CASE Unlock(th)
    <3>1. locks' \subseteq Name
      BY ONLY <2>12, <1>00 DEF Unlock
    <3>2. CASE At(th, "unlock")
      BY ONLY <2>00, <2>12, <3>1, <3>2, <1>2 DEF Unlock, At, Goto, Places
    <3>3. CASE ~At(th, "unlock")
      BY ONLY <1>1, <2>0, <2>12, <3>1, <3>3, <1>2 DEF Unlock, Leave, Goto, Places
    <3>q. QED BY ONLY <3>2, <3>3
  <2>13. CASE Return(th)
    <3>0. UNCHANGED <<disk, bytes, readOnly, writer, open, lost>>
      BY ONLY <2>13 DEF Return
    <3>1. Ordered'
      <4>1. CASE Exists(name[th])
        BY ONLY <2>13, <4>1, <1>0, <1>00, TouchOrdered DEF Return, At, FilesTyped
      <4>2. CASE ~Exists(name[th])
        BY ONLY <2>13, <4>2, <1>0 DEF Return, Ordered, FilesTyped
      <4>q. QED BY ONLY <4>1, <4>2
    <3>2. FilesTyped'
      BY ONLY <1>0, <3>0, <3>1 DEF FilesTyped
    <3>q. QED BY ONLY <1>1, <2>0, <2>13, <3>2, <1>00 DEF Return, Leave, Goto, Places
  <2>q. QED
    BY ONLY <1>4, <2>1, <2>2, <2>3, <2>4, <2>5, <2>6, <2>7, <2>8, <2>9, <2>10, <2>11, <2>12, <2>13 DEF Step
<1>5. ASSUME FilesTyped', reaper' \in Phases, victims' \in Seq(Name), size' \in Int, UNCHANGED <<locks, pc, callers>>
      PROVE  TypeInv'
  BY ONLY <1>5, <1>00, <1>01 DEF TypeInv, TypeOK, FilesTyped, Ordered, callers
<1>50. ASSUME NEW left \in Seq(Name), NEW total \in Int, Loop(left, total)
       PROVE  reaper' \in Phases /\ victims' \in Seq(Name) /\ size' \in Int /\ lost' \subseteq Blocks
  <2>1. <<>> \in Seq(Name) /\ 0 \in Int /\ {} \subseteq Blocks /\ lost \subseteq Blocks
    BY ONLY <1>0 DEF FilesTyped
  <2>q. QED BY ONLY <1>50, <2>1 DEF Loop, Phases
<1>6. CASE Reaper
  <2>1. CASE Fire
    BY ONLY <2>1, <1>2, <1>5, <1>00 DEF Fire, Phases
  <2>2. CASE Scan
    <3>0. PICK n \in 0 .. Len(recency) : \E kept \in [1 .. n -> DOMAIN recency] :
             Loop([i \in 1 .. n |-> recency[kept[i]]], Cardinality(bytes))
      BY ONLY <2>2 DEF Scan
    <3>1. PICK kept \in [1 .. n -> DOMAIN recency] : Loop([i \in 1 .. n |-> recency[kept[i]]], Cardinality(bytes))
      BY ONLY <3>0
    <3>2. n \in Nat /\ \A i \in 1 .. n : recency[kept[i]] \in Name
      BY ONLY <1>0, <3>1, LenProperties DEF Ordered, FilesTyped
    <3>3. [i \in 1 .. n |-> recency[kept[i]]] \in Seq(Name)
      BY ONLY <3>2, IsASeq
    <3>4. IsFiniteSet(bytes)
      <4>1. IsFiniteSet(Blocks)
        BY BlocksFinite
      <4>q. QED BY ONLY <1>0, <4>1, FS_Subset DEF FilesTyped
    <3>5. Cardinality(bytes) \in Int
      BY ONLY <3>4, FS_CardinalityType
    <3>6. reaper' \in Phases /\ victims' \in Seq(Name) /\ size' \in Int /\ lost' \subseteq Blocks
      BY ONLY <1>50, <3>1, <3>3, <3>5
    <3>7. UNCHANGED <<disk, bytes, readOnly, writer, open, recency, locks, pc, callers>>
      BY ONLY <2>2 DEF Scan
    <3>8. FilesTyped'
      BY ONLY <1>0, <3>6, <3>7 DEF FilesTyped, Ordered
    <3>q. QED BY ONLY <3>6, <3>7, <3>8, <1>5
  <2>3. CASE ScanStopped
    BY ONLY <2>3, <1>2, <1>5, <1>00 DEF ScanStopped, Phases
  <2>4. CASE Reap
    <3>0. victims # <<>>
      BY ONLY <2>4 DEF Reap, Evict
    <3>1. Head(victims) \in Name /\ Tail(victims) \in Seq(Name)
      BY ONLY <3>0, <1>00, HeadTailProperties
    <3>2. size - Length(Head(victims)) \in Int
      <4>1. IsFiniteSet(Blocks)
        BY BlocksFinite
      <4>2. IsFiniteSet(BlocksOf(Head(victims)))
        BY ONLY <1>0, <4>1, FS_Subset DEF BlocksOf, FilesTyped
      <4>q. QED BY ONLY <4>2, <1>00, FS_CardinalityType DEF Length
    <3>3. reaper' \in Phases /\ victims' \in Seq(Name) /\ size' \in Int /\ lost' \subseteq Blocks
      BY ONLY <2>4, <3>1, <3>2, <1>50 DEF Reap, Evict
    <3>4. Delete(Head(victims)) /\ UNCHANGED <<locks, pc, callers>>
      BY ONLY <2>4 DEF Reap, Evict
    <3>5. FilesTyped'
      BY ONLY <1>0, <3>1, <3>3, <3>4, DeleteTyped
    <3>q. QED BY ONLY <3>3, <3>4, <3>5, <1>5
  <2>q. QED BY ONLY <1>6, <2>1, <2>2, <2>3, <2>4 DEF Reaper
<1>7. CASE Deactivate
  BY ONLY <1>7, <1>2, <1>5, <1>00 DEF Deactivate, Phases
<1>8. CASE Crash
  <2>1. /\ disk' \in [Name -> Kinds]
        /\ \A nm \in Name : disk'[nm] # "none" <=> disk[nm] # "none"
        /\ recency' = recency
    BY ONLY <1>8, <1>0 DEF Crash, Kinds, FilesTyped
  <2>2. Ordered'
    BY ONLY <1>0, <2>1 DEF Ordered, FilesTyped
  <2>3. <<>> \in Seq(Name) /\ "scheduled" \in Phases /\ "out" \in Places /\ 0 \in 0..MaxTries /\ 0 \in Int
    BY FileCacheAssumption DEF Phases, Places
  <2>4. /\ readOnly' \subseteq Name /\ writer' \in [Name -> Thread \cup {None}] /\ locks' \subseteq Name
        /\ pc' \in [Thread -> Places] /\ name' \in [Thread -> Name \cup {None}]
        /\ max' \in [Thread -> 0..MaxTries] /\ reaper' \in Phases /\ victims' \in Seq(Name) /\ size' \in Int
        /\ \A th \in Thread : pc'[th] = "out"
    BY ONLY <1>8, <1>0, <1>00, <2>3 DEF Crash, FilesTyped
  <2>5. /\ bytes' \subseteq Blocks /\ lost' \subseteq Blocks /\ open' \subseteq Thread
        /\ \A b \in bytes' : disk'[b[1]] # "none"
    <3>1. \A b \in Blocks : b[1] \in Name
      BY DEF Blocks
    <3>q. QED BY ONLY <1>8, <1>0, <2>1, <3>1 DEF Crash, FilesTyped
  <2>q. QED BY ONLY <1>01, <2>1, <2>2, <2>4, <2>5 DEF TypeInv, TypeOK, Ordered
<1>9. CASE UNCHANGED vars
  BY ONLY <1>9, <1>2, <1>5, <1>00 DEF vars, reaping
<1>q. QED BY ONLY <1>3, <1>4, <1>6, <1>7, <1>8, <1>9, [Next]_vars DEF Next

\* The variables have their types: a thread in get has a name and rounds left, and the
\* order of modification has every file once.
THEOREM CacheTyped == Spec => []TypeOK
<1>1. TypeInv => TypeOK
  BY DEF TypeInv
<1>q. QED BY <1>1, TypeInvInit, TypeInvNext, PTL DEF Spec

-----------------------------------------------------------------------------
(* What the reaper believes of the sizes is never more than there is, with    *)
(* what creators took back.                                                   *)

Accounted ==
    reaper = "reaping" =>
        victims # <<>> /\ size >= Limit /\ size <= Cardinality(bytes \cup lost)

ReapInv == TypeInv /\ Accounted

LEMMA BytesFinite ==
  ASSUME bytes \subseteq Blocks, lost \subseteq Blocks
  PROVE  /\ IsFiniteSet(bytes) /\ IsFiniteSet(bytes \cup lost)
         /\ Cardinality(bytes) \in Nat /\ Cardinality(bytes \cup lost) \in Nat
         /\ \A S \in SUBSET (bytes \cup lost) : IsFiniteSet(S) /\ Cardinality(S) \in Nat
<1>1. IsFiniteSet(Blocks)
  BY BlocksFinite
<1>q. QED BY ONLY <1>1, bytes \subseteq Blocks, lost \subseteq Blocks, FS_Subset, FS_CardinalityType

\* Threads take nothing from what there is and what they took back.
LEMMA ThreadsAccount ==
  ASSUME NEW th \in Thread, Step(th) \/ \E x \in Name : Get(th, x), reaper = "reaping"
  PROVE  /\ bytes \cup lost \subseteq bytes' \cup lost'
         /\ UNCHANGED <<reaper, victims, size>>
<1>1. CASE ~ (Open(th) \/ DeleteFailed(th))
  <2>1. bytes \subseteq bytes' /\ lost' = lost
    BY ONLY <1>1, Step(th) \/ \E x \in Name : Get(th, x) DEF Step, Test, Round, Lock, LockThrows, Create,
       CreateNewFile, CreateThrows, Write, Written, SetReadOnly, CopyThrows, Unlock, Return, Get, files
  <2>2. UNCHANGED <<reaper, victims, size>>
    BY ONLY <1>1, Step(th) \/ \E x \in Name : Get(th, x) DEF Step, Test, Round, Lock, LockThrows, Create,
       CreateNewFile, CreateThrows, Write, Written, SetReadOnly, CopyThrows, Unlock, Return, Get, reaping
  <2>q. QED BY ONLY <2>1, <2>2
<1>2. CASE Open(th) \/ DeleteFailed(th)
  <2>1. TakeBack(name[th]) /\ UNCHANGED <<reaper, victims, size>>
    BY ONLY <1>2 DEF Open, DeleteFailed, reaping
  <2>2. bytes' = bytes \ BlocksOf(name[th]) /\ lost' = lost \cup BlocksOf(name[th])
    BY ONLY <2>1, reaper = "reaping" DEF TakeBack
  <2>q. QED BY ONLY <2>1, <2>2
<1>q. QED BY ONLY <1>1, <1>2

LEMMA ReapInvInit == Init => ReapInv
<1>1. Init => Accounted
  BY DEF Init, Accounted
<1>q. QED BY ONLY <1>1, TypeInvInit DEF ReapInv

LEMMA ReapInvNext == ReapInv /\ [Next]_vars => ReapInv'
<1> SUFFICES ASSUME TypeInv, Accounted, [Next]_vars PROVE Accounted'
  BY TypeInvNext DEF ReapInv
<1>0. TypeInv'
  BY TypeInvNext
<1>1. size \in Int /\ size' \in Int /\ Limit \in Nat
  BY <1>0, FileCacheAssumption DEF TypeInv, TypeOK
<1>2. /\ bytes \subseteq Blocks /\ lost \subseteq Blocks
      /\ bytes' \subseteq Blocks /\ lost' \subseteq Blocks
  BY <1>0 DEF TypeInv, TypeOK
<1>3. /\ IsFiniteSet(bytes \cup lost) /\ Cardinality(bytes \cup lost) \in Nat
      /\ Cardinality(bytes) \in Nat
      /\ \A S \in SUBSET (bytes \cup lost) : IsFiniteSet(S) /\ Cardinality(S) \in Nat
  BY ONLY <1>2, BytesFinite
<1>4. IsFiniteSet(bytes' \cup lost') /\ Cardinality(bytes' \cup lost') \in Nat
  <2>1. IsFiniteSet(Blocks)
    BY BlocksFinite
  <2>q. QED BY ONLY <1>2, <2>1, FS_Subset, FS_CardinalityType
<1>5. ASSUME NEW th \in Thread, Step(th) \/ \E x \in Name : Get(th, x) PROVE Accounted'
  <2>1. CASE reaper = "reaping"
    <3>1. bytes \cup lost \subseteq bytes' \cup lost' /\ UNCHANGED <<reaper, victims, size>>
      BY ONLY <1>5, <2>1, ThreadsAccount
    <3>2. Cardinality(bytes \cup lost) <= Cardinality(bytes' \cup lost')
      BY ONLY <1>4, <3>1, FS_Subset
    <3>q. QED BY ONLY <1>1, <1>3, <1>4, <2>1, <3>1, <3>2, Accounted DEF Accounted
  <2>2. CASE reaper # "reaping"
    <3>1. reaper' = reaper
      BY ONLY <1>5 DEF Step, Test, Round, Lock, LockThrows, Create, CreateThrows, Open, Write, Written,
         SetReadOnly, CopyThrows, DeleteFailed, Unlock, Return, Get, reaping
    <3>q. QED BY ONLY <2>2, <3>1 DEF Accounted
  <2>q. QED BY ONLY <2>1, <2>2
<1>6. CASE Scan
  <2>1. PICK left : Loop(left, Cardinality(bytes))
    BY ONLY <1>6 DEF Scan
  <2>2. bytes' = bytes
    BY ONLY <1>6 DEF Scan
  <2>3. Cardinality(bytes) <= Cardinality(bytes' \cup lost')
    BY ONLY <2>2, <1>4, FS_Subset
  <2>4. reaper' = "reaping" => victims' = left /\ left # <<>> /\ size' = Cardinality(bytes) /\ ~(size' < Limit)
    BY ONLY <2>1 DEF Loop
  <2>q. QED BY ONLY <1>1, <2>3, <2>4 DEF Accounted
<1>7. CASE Reap
  <2> DEFINE hd == Head(victims)
             T == bytes \cup lost
             B == BlocksOf(hd)
  <2>1. /\ reaper = "reaping" /\ bytes' = bytes \ B /\ Loop(Tail(victims), size - Cardinality(B))
    BY ONLY <1>7 DEF Reap, Evict, Delete, Length
  <2>2. reaper' = "reaping" => /\ victims' # <<>> /\ size' = size - Cardinality(B) /\ ~(size' < Limit)
                               /\ lost' = lost
    BY ONLY <2>1 DEF Loop
  <2>3. size <= Cardinality(T)
    BY ONLY <2>1, Accounted DEF Accounted
  <2>4. B \subseteq T /\ IsFiniteSet(B) /\ Cardinality(B) \in Nat
    BY ONLY <1>3 DEF BlocksOf
  <2>5. Cardinality(T \ B) = Cardinality(T) - Cardinality(B)
    <3>1. IsFiniteSet(T \ B) /\ Cardinality(T \ B) = Cardinality(T) - Cardinality(T \cap B)
      <4> HIDE DEF T, B
      <4>1. IsFiniteSet(T)
        BY ONLY <1>3 DEF T
      <4>q. QED BY ONLY <4>1, FS_Difference
    <3>2. T \cap B = B
      BY ONLY <2>4
    <3>q. QED BY ONLY <3>1, <3>2
  <2>6. ASSUME reaper' = "reaping" PROVE Cardinality(T \ B) <= Cardinality(bytes' \cup lost')
    <3>1. T \ B \subseteq bytes' \cup lost'
      BY ONLY <2>1, <2>2, <2>6
    <3>q. QED BY ONLY <3>1, <1>4, FS_Subset
  <2> HIDE DEF T, B
  <2>7. Cardinality(T) \in Nat
    BY ONLY <1>3 DEF T
  <2>8. reaper' = "reaping" => size' <= Cardinality(bytes' \cup lost')
    BY ONLY <1>1, <1>4, <2>2, <2>3, <2>4, <2>5, <2>6, <2>7
  <2>q. QED BY ONLY <1>1, <2>2, <2>8 DEF Accounted
<1>8. CASE Fire \/ ScanStopped \/ Deactivate \/ Crash
  BY ONLY <1>8 DEF Fire, ScanStopped, Deactivate, Crash, Accounted
<1>9. CASE UNCHANGED vars
  BY ONLY <1>9, Accounted DEF vars, files, reaping, Accounted
<1>q. QED BY ONLY <1>5, <1>6, <1>7, <1>8, <1>9, [Next]_vars DEF Next, Reaper

\* The reaper deletes nothing unless what is there, half-written files included, reaches the
\* limit together with what creators took back since its scan.
THEOREM ReaperKeepsLimit == Spec => NeverBelowLimit
<1>1. ASSUME ReapInv, [Next]_vars
      PROVE  [reaper = "reaping" /\ reaper' # "scheduled" /\ victims' # victims
                => Cardinality(bytes \cup lost) >= Limit]_vars
  <2> SUFFICES ASSUME Next, reaper = "reaping"
               PROVE  Cardinality(bytes \cup lost) >= Limit
    BY <1>1
  <2>1. size >= Limit /\ size <= Cardinality(bytes \cup lost)
    BY <1>1 DEF ReapInv, Accounted
  <2>2. size \in Int /\ Limit \in Nat
    BY <1>1, FileCacheAssumption DEF ReapInv, TypeInv, TypeOK
  <2>3. Cardinality(bytes \cup lost) \in Nat
    BY <1>1, BytesFinite DEF ReapInv, TypeInv, TypeOK
  <2>q. QED BY ONLY <2>1, <2>2, <2>3
<1>q. QED BY <1>1, ReapInvInit, ReapInvNext, PTL DEF Spec, NeverBelowLimit
=============================================================================
