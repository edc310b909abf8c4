------------------------------ MODULE CafsProofs ------------------------------
(* Proofs about the content addressable file store: whatever the builders, the *)
(* names and the contents, a catalog that was handed out leads to every file.  *)
EXTENDS Cafs, SequenceTheorems, WellFoundedInduction, TLAPS

(* The induction over the natural numbers, as that of the library without its  *)
(* operator parameter.                                                         *)
LEMMA Least ==
    ASSUME NEW T, T \subseteq Nat, T # {}
    PROVE  \E n \in T : \A m \in T : n <= m
<1>1. IsWellFoundedOn(OpToRel(<, Nat), Nat)
  BY NatLessThanWellFounded
<1>2. \E n \in T : \A m \in T : ~ (<<m, n>> \in OpToRel(<, Nat))
  BY <1>1, WFMin
<1>3. PICK n \in T : \A m \in T : ~ (<<m, n>> \in OpToRel(<, Nat))
  BY <1>2
<1>4. \A m \in T : ~ (m < n)
  BY <1>3 DEF OpToRel
<1>q. QED BY <1>4

LEMMA Induct ==
    ASSUME NEW T, 0 \in T, \A n \in Nat : n \in T => n + 1 \in T
    PROVE  Nat \subseteq T
<1> SUFFICES ASSUME NEW k \in Nat, k \notin T PROVE FALSE
  OBVIOUS
<1> DEFINE U == {n \in Nat : n \notin T}
<1>1. PICK n \in U : \A m \in U : n <= m
  <2> HIDE DEF U
  <2>1. U \subseteq Nat /\ U # {} BY DEF U
  <2>q. QED BY <2>1, Least
<1>2. n # 0 /\ n - 1 \in Nat /\ n - 1 \notin U
  BY <1>1
<1>q. QED BY <1>2

-------------------------------------------------------------------------------

\* The first i names of a path.
Prefix(p, i) == SubSeq(p, 1, i)

LEMMA PrefixFacts ==
    ASSUME NEW p \in Seq(Name), NEW i \in 0 .. Len(p)
    PROVE  /\ Prefix(p, i) \in Seq(Name)
           /\ Len(Prefix(p, i)) = i
           /\ \A j \in 1 .. i : Prefix(p, i)[j] = p[j]
           /\ \A j \in 0 .. i : Prefix(Prefix(p, i), j) = Prefix(p, j)
           /\ i = Len(p) => Prefix(p, i) = p
           /\ i = 0 => Prefix(p, i) = <<>>
           /\ i > 0 => /\ Prefix(p, i) # <<>>
                       /\ Front(Prefix(p, i)) = Prefix(p, i - 1)
                       /\ Last(Prefix(p, i)) = p[i]
<1>1. \A j \in 0 .. Len(p) : /\ Prefix(p, j) \in Seq(Name)
                             /\ Len(Prefix(p, j)) = j
                             /\ \A k \in 1 .. j : Prefix(p, j)[k] = p[k]
  <2> SUFFICES ASSUME NEW j \in 0 .. Len(p)
               PROVE  /\ Prefix(p, j) \in Seq(Name)
                      /\ Len(Prefix(p, j)) = j
                      /\ \A k \in 1 .. j : Prefix(p, j)[k] = p[k]
    OBVIOUS
  <2>1. \A k \in 1 .. j : p[k] \in Name
    BY ElementOfSeq
  <2>q. QED BY <2>1, SubSeqProperties DEF Prefix
<1>2. \A j \in 0 .. i : Prefix(Prefix(p, i), j) = Prefix(p, j)
  <2> SUFFICES ASSUME NEW j \in 0 .. i PROVE Prefix(Prefix(p, i), j) = Prefix(p, j)
    OBVIOUS
  <2>1. \A k \in 1 .. j : Prefix(p, i)[k] \in Name
    BY <1>1, ElementOfSeq
  <2>2. /\ Prefix(Prefix(p, i), j) \in Seq(Name)
        /\ Len(Prefix(Prefix(p, i), j)) = j
        /\ \A k \in 1 .. j : Prefix(Prefix(p, i), j)[k] = Prefix(p, i)[k]
    BY <2>1, SubSeqProperties DEF Prefix
  <2>3. \A k \in 1 .. j : Prefix(Prefix(p, i), j)[k] = Prefix(p, j)[k]
    BY <2>2, <1>1
  <2>4. Prefix(p, j) \in Seq(Name) /\ Len(Prefix(p, j)) = j
    BY <1>1
  <2>q. QED BY <2>2, <2>3, <2>4, SeqEqual
<1>3. i = Len(p) => Prefix(p, i) = p
  BY SubSeqFull DEF Prefix
<1>4. i = 0 => Prefix(p, i) = <<>>
  BY SubSeqEmpty DEF Prefix
<1>5. ASSUME i > 0
      PROVE  Prefix(p, i) # <<>> /\ Front(Prefix(p, i)) = Prefix(p, i - 1) /\ Last(Prefix(p, i)) = p[i]
  <2>1. Prefix(p, i) # <<>>
    BY <1>1, <1>5
  <2>2. Front(Prefix(p, i)) = Prefix(Prefix(p, i), i - 1)
    <3>1. Len(Prefix(p, i)) = i
      BY <1>1
    <3>q. QED BY <3>1 DEF Front, Prefix
  <2>3. Front(Prefix(p, i)) = Prefix(p, i - 1)
    BY <2>2, <1>2, <1>5
  <2>4. Last(Prefix(p, i)) = p[i]
    BY <1>1, <1>5 DEF Last
  <2>q. QED BY <2>1, <2>3, <2>4
<1>q. QED BY <1>1, <1>2, <1>3, <1>4, <1>5

\* A path is its names but the last, and the last.
LEMMA FrontAndLast ==
    ASSUME NEW r \in Seq(Name), r # <<>>, NEW p \in Seq(Name), NEW i \in 1 .. Len(p),
           Front(r) = Prefix(p, i - 1), Last(r) = p[i]
    PROVE  r = Prefix(p, i)
<1>1. Len(r) \in Nat \ {0}
  BY EmptySeq
<1>2. Front(r) = Prefix(r, Len(r) - 1)
  BY DEF Front, Prefix
<1>3. /\ Len(Front(r)) = Len(r) - 1
      /\ \A j \in 1 .. Len(r) - 1 : Front(r)[j] = r[j]
  <2>1. Len(r) - 1 \in 0 .. Len(r)
    BY <1>1
  <2>2. /\ Len(Prefix(r, Len(r) - 1)) = Len(r) - 1
        /\ \A j \in 1 .. Len(r) - 1 : Prefix(r, Len(r) - 1)[j] = r[j]
    BY <2>1, PrefixFacts
  <2>q. QED BY <1>2, <2>2
<1>4. /\ Len(Front(r)) = i - 1
      /\ \A j \in 1 .. i - 1 : Front(r)[j] = p[j]
  BY PrefixFacts
<1>5. Len(r) = i /\ \A j \in 1 .. i - 1 : r[j] = p[j]
  BY <1>1, <1>3, <1>4
<1>6. r[i] = p[i]
  BY <1>5 DEF Last
<1>7. Prefix(p, i) \in Seq(Name) /\ Len(Prefix(p, i)) = i /\ \A j \in 1 .. i : Prefix(p, i)[j] = p[j]
  BY PrefixFacts
<1>8. \A j \in 1 .. i : r[j] = Prefix(p, i)[j]
  BY <1>5, <1>6, <1>7
<1>q. QED BY <1>5, <1>7, <1>8, SeqEqual

-------------------------------------------------------------------------------

\* The trees that builders make: the nodes of all the folders on a path are there, and data is
\* never that of the root.
Tree(t) ==
    /\ t \in [DOMAIN t -> [content : Blob \cup {None}, time : {0, 1}]]
    /\ DOMAIN t \subseteq Seq(Name)
    /\ <<>> \in DOMAIN t /\ t[<<>>].content = None
    /\ \A p \in DOMAIN t : \A i \in 0 .. Len(p) : Prefix(p, i) \in DOMAIN t
    /\ \E n \in Nat : \A p \in DOMAIN t : Len(p) <= n

\* The entries of a catalog, and a digest, by the digests of what is below.
Entries(t, D, path) == {[name |-> Last(p), time |-> t[p].time, digest |-> D[p]] : p \in Below(t, path)}
DigestBy(t, D, path) ==
    IF t[path].content # None THEN <<"data", t[path].content>>
    ELSE IF ~ IsDirectory(path) THEN NoDigest
    ELSE <<"catalog", Entries(t, D, path)>>

LEMMA BelowIsLonger ==
    ASSUME NEW t, Tree(t), NEW path \in DOMAIN t, NEW p \in Below(t, path)
    PROVE  p \in DOMAIN t /\ Len(p) \in Nat /\ Len(path) \in Nat /\ Len(p) = Len(path) + 1
<1>1. p \in Seq(Name) /\ path \in Seq(Name) /\ p # <<>> /\ Front(p) = path
  BY DEF Tree, Below
<1>2. Len(p) \in Nat \ {0} /\ Len(path) \in Nat
  BY <1>1, EmptySeq
<1>3. Len(p) - 1 \in 0 .. Len(p)
  BY <1>2
<1>4. Len(Prefix(p, Len(p) - 1)) = Len(p) - 1
  BY <1>1, <1>3, PrefixFacts
<1>5. Len(path) = Len(p) - 1
  BY <1>1, <1>4 DEF Front, Prefix
<1>q. QED BY <1>1, <1>2, <1>5 DEF Below

\* Digests depend on the digests of what is below only.
LEMMA SameBelow ==
    ASSUME NEW t, NEW D, NEW E, NEW path, \A p \in Below(t, path) : D[p] = E[p]
    PROVE  DigestBy(t, D, path) = DigestBy(t, E, path)
<1>1. Entries(t, D, path) = Entries(t, E, path)
  BY DEF Entries
<1>q. QED BY <1>1 DEF DigestBy

\* The recursion that defines the digests has a solution: level after level, from the deepest.
LEMMA DigestsEquation ==
    ASSUME NEW t, Tree(t)
    PROVE  Digests(t) = [path \in DOMAIN t |-> DigestBy(t, Digests(t), path)]
<1>1. PICK n \in Nat : \A p \in DOMAIN t : Len(p) <= n
  BY DEF Tree
<1>0. \A p \in DOMAIN t : Len(p) \in Nat
  BY EmptySeq DEF Tree
<1> DEFINE Solves(D, k) == \A p \in DOMAIN t : Len(p) + k > n => D[p] = DigestBy(t, D, p)
           T == {k \in Nat : \E D : Solves(D, k)}
<1>2. 0 \in T
  BY <1>0, <1>1
<1>3. ASSUME NEW k \in Nat, k \in T PROVE k + 1 \in T
  <2>1. PICK D : Solves(D, k)
    BY <1>3
  <2> DEFINE E == [p \in DOMAIN t |-> IF Len(p) + k > n THEN D[p] ELSE DigestBy(t, D, p)]
  <2>2. ASSUME NEW p \in DOMAIN t, Len(p) + (k + 1) > n PROVE E[p] = DigestBy(t, E, p)
    <3>1. \A r \in Below(t, p) : r \in DOMAIN t /\ Len(r) + k > n
      BY <1>0, <2>2, BelowIsLonger
    <3>2. \A r \in Below(t, p) : D[r] = E[r]
      BY <3>1
    <3>3. E[p] = DigestBy(t, D, p)
      BY <2>1
    <3> HIDE DEF E
    <3>4. DigestBy(t, D, p) = DigestBy(t, E, p)
      BY <3>2, SameBelow
    <3>q. QED BY <3>3, <3>4
  <2>3. Solves(E, k + 1)
    BY <2>2
  <2>4. \E G : Solves(G, k + 1)
    <3> HIDE DEF E, Solves
    <3>q. QED BY <2>3
  <2>q. QED BY <2>4
<1>4. n + 1 \in T
  <2> HIDE DEF T
  <2>1. Nat \subseteq T
    BY <1>2, <1>3, Induct
  <2>q. QED BY <2>1
<1>5. PICK D : Solves(D, n + 1)
  BY <1>4
<1>6. \A p \in DOMAIN t : D[p] = DigestBy(t, D, p)
  BY <1>0, <1>5
<1> DEFINE F == [p \in DOMAIN t |-> D[p]]
<1>7. ASSUME NEW p \in DOMAIN t PROVE DigestBy(t, D, p) = DigestBy(t, F, p)
  <2>1. \A r \in Below(t, p) : D[r] = F[r]
    BY DEF Below
  <2>q. QED BY <2>1, SameBelow
<1>8. F = [p \in DOMAIN t |-> DigestBy(t, F, p)]
  BY <1>6, <1>7
<1>9. \E G : G = [p \in DOMAIN t |-> DigestBy(t, G, p)]
  BY <1>8
<1>q. QED BY <1>9 DEF Digests, DigestBy, Entries

-------------------------------------------------------------------------------

\* A path of which the first i names can be followed.
Open(t, p, i) ==
    /\ \A j \in 1 .. i : p[j] # Slash
    /\ \A j \in 0 .. i : Prefix(p, j) \in DOMAIN t /\ t[Prefix(p, j)].content = None

\* What getEntry reaches after the first i names of a path: the entries of the catalog there.
There(t, p, i) == IF Open(t, p, i) THEN Entries(t, Digests(t), Prefix(p, i)) ELSE {}

\* One step of getEntry.
LEMMA Follow ==
    ASSUME NEW t, Tree(t), Shas(t) \subseteq stored, NEW p \in Seq(Name), NEW i \in 1 .. Len(p), p[i] \in Folder
    PROVE  There(t, p, i) = UNION {entry.digest[2] : entry \in {e \in There(t, p, i - 1) :
                e.name = p[i] /\ p[i] # Slash /\ e.digest[1] = "catalog" /\ e.digest \in stored}}
<1> DEFINE D == Digests(t)
           q == Prefix(p, i)
           At0 == [name |-> Last(q), time |-> t[q].time, digest |-> D[q]]
           Taken == {e \in There(t, p, i - 1) :
                        e.name = p[i] /\ p[i] # Slash /\ e.digest[1] = "catalog" /\ e.digest \in stored}
<1>1. /\ q \in Seq(Name) /\ q # <<>> /\ Front(q) = Prefix(p, i - 1) /\ Last(q) = p[i] /\ Len(q) = i
      /\ \A j \in 0 .. i : Prefix(q, j) = Prefix(p, j)
  BY PrefixFacts
<1>2. \A r \in DOMAIN t : D[r] = DigestBy(t, D, r)
  BY DigestsEquation
<1>3. Open(t, p, i) <=> Open(t, p, i - 1) /\ p[i] # Slash /\ q \in DOMAIN t /\ t[q].content = None
  BY DEF Open
<1>4. ASSUME NEW e \in Taken
      PROVE  Open(t, p, i) /\ e.digest = D[q]
  <2>1. Open(t, p, i - 1) /\ e \in Entries(t, D, Prefix(p, i - 1))
    BY DEF There
  <2>2. PICK r \in Below(t, Prefix(p, i - 1)) : e = [name |-> Last(r), time |-> t[r].time, digest |-> D[r]]
    BY <2>1 DEF Entries
  <2>3. r \in DOMAIN t /\ r \in Seq(Name) /\ r # <<>> /\ Front(r) = Prefix(p, i - 1) /\ Last(r) = p[i]
    BY <2>2 DEF Below, Tree
  <2>4. r = q
    BY <2>3, FrontAndLast
  <2>5. D[q][1] = "catalog" /\ q \in DOMAIN t
    BY <2>2, <2>3, <2>4
  <2>6. t[q].content = None
    <3>1. D[q] = DigestBy(t, D, q)
      BY <2>5, <1>2
    <3> HIDE DEF D, q
    <3>q. QED BY <3>1, <2>5 DEF DigestBy, NoDigest
  <2>q. QED BY <2>1, <2>2, <2>4, <2>5, <2>6, <1>3
<1>5. ASSUME Open(t, p, i)
      PROVE  At0 \in Taken /\ D[q] = <<"catalog", Entries(t, D, q)>>
  <2>1. q \in DOMAIN t /\ t[q].content = None /\ p[i] # Slash /\ Open(t, p, i - 1)
    BY <1>3, <1>5
  <2>2. D[q] = <<"catalog", Entries(t, D, q)>>
    BY <2>1, <1>1, <1>2 DEF DigestBy, IsDirectory
  <2>3. At0 \in There(t, p, i - 1)
    BY <2>1, <1>1 DEF There, Entries, Below
  <2>4. q \in Visited(t)
    <3>1. \A j \in 0 .. i - 1 : t[Prefix(q, j)].content = None
      BY <1>1, <1>5 DEF Open
    <3>q. QED BY <2>1, <3>1, <1>1 DEF Visited, Prefix
  <2>5. D[q] \in stored
    BY <2>4 DEF Shas, Digest
  <2>6. At0.name = p[i] /\ At0.digest = D[q]
    BY <1>1
  <2> HIDE DEF At0, D, q
  <2>q. QED BY <2>1, <2>2, <2>3, <2>5, <2>6
<1>6. CASE Open(t, p, i)
  <2>1. There(t, p, i) = Entries(t, D, q)
    BY <1>6 DEF There
  <2>2. \A e \in Taken : e.digest[2] = Entries(t, D, q)
    BY <1>4, <1>5, <1>6
  <2>3. At0 \in Taken
    BY <1>5, <1>6
  <2> HIDE DEF Taken, At0, D, q
  <2>4. UNION {e.digest[2] : e \in Taken} = Entries(t, D, q)
    BY <2>2, <2>3
  <2>q. QED BY <2>1, <2>4 DEF Taken, D, q
<1>7. CASE ~ Open(t, p, i)
  <2>1. There(t, p, i) = {}
    BY <1>7 DEF There
  <2>2. Taken = {}
    BY <1>4, <1>7
  <2>q. QED BY <2>1, <2>2
<1>q. QED BY <1>6, <1>7

LEMMA ReachedThere ==
    ASSUME NEW t, Tree(t), Shas(t) \subseteq stored, NEW p \in Path, NEW k \in 0 .. Len(p) - 1
    PROVE  Reached(Digest(t, <<>>)[2], p)[k] = There(t, p, k)
<1> DEFINE n == Len(p) - 1
           e0 == Digest(t, <<>>)[2]
           Step(R, i) == IF i = 0 THEN e0
                         ELSE UNION {entry.digest[2] : entry \in {e \in R[i - 1] :
                              e.name = p[i] /\ p[i] # Slash /\ e.digest[1] = "catalog" /\ e.digest \in stored}}
           G == [i \in 0 .. n |-> There(t, p, i)]
           R0 == Reached(e0, p)
<1>0. p \in Seq(Name) /\ Len(p) \in Nat /\ \A i \in 1 .. n : p[i] \in Folder
  BY CafsAssumption, EmptySeq
<1>1. e0 = There(t, p, 0)
  <2>1. Prefix(p, 0) = <<>>
    BY <1>0, PrefixFacts
  <2>2. Open(t, p, 0)
    BY <2>1 DEF Open, Tree
  <2>3. Digest(t, <<>>) = <<"catalog", Entries(t, Digests(t), <<>>)>>
    BY DigestsEquation DEF Digest, DigestBy, IsDirectory, Tree
  <2>q. QED BY <2>1, <2>2, <2>3 DEF There
<1>2. \A i \in 1 .. n : There(t, p, i) = UNION {entry.digest[2] : entry \in {e \in There(t, p, i - 1) :
                e.name = p[i] /\ p[i] # Slash /\ e.digest[1] = "catalog" /\ e.digest \in stored}}
  BY <1>0, Follow
<1>3. \A i \in 0 .. n : There(t, p, i) = Step(G, i)
  <2> SUFFICES ASSUME NEW i \in 0 .. n PROVE There(t, p, i) = Step(G, i)
    OBVIOUS
  <2>1. i # 0 => i \in 1 .. n /\ G[i - 1] = There(t, p, i - 1)
    BY <1>0
  <2>q. QED BY <2>1, <1>1, <1>2
<1>4. G = [i \in 0 .. n |-> Step(G, i)]
  BY <1>3
<1>5. \E R : R = [i \in 0 .. n |-> Step(R, i)]
  <2> HIDE DEF G, Step, n
  <2>q. QED BY <1>4
<1>6. R0 = [i \in 0 .. n |-> Step(R0, i)]
  BY <1>5 DEF Reached
<1>7. \A i \in 0 .. n : R0[i] = Step(R0, i)
  <2> HIDE DEF R0, Step, n
  <2>q. QED BY <1>6
<1> DEFINE T == {i \in Nat : i <= n => R0[i] = There(t, p, i)}
<1>8. 0 \in T
  <2>1. 0 <= n => R0[0] = Step(R0, 0)
    <3> HIDE DEF R0, Step
    <3>q. QED BY <1>0, <1>7
  <2>2. Step(R0, 0) = e0
    OBVIOUS
  <2> HIDE DEF R0, Step, e0, n
  <2>q. QED BY <1>1, <2>1, <2>2
<1>9. ASSUME NEW i \in Nat, i \in T PROVE i + 1 \in T
  <2> SUFFICES ASSUME i + 1 <= n PROVE R0[i + 1] = There(t, p, i + 1)
    OBVIOUS
  <2>1. i + 1 \in 0 .. n /\ i + 1 \in 1 .. n /\ (i + 1) - 1 = i /\ i + 1 # 0 /\ i <= n
    BY <1>0
  <2>2. R0[i] = There(t, p, i)
    BY <1>9, <2>1
  <2>3. R0[i + 1] = Step(R0, i + 1)
    BY <1>7, <2>1
  <2>4. Step(R0, i + 1) = Step(G, i + 1)
    <3>1. G[i] = There(t, p, i)
      BY <1>0, <2>1
    <3> HIDE DEF R0, G, n
    <3>q. QED BY <2>1, <2>2, <3>1
  <2>5. There(t, p, i + 1) = Step(G, i + 1)
    BY <1>3, <2>1
  <2>q. QED BY <2>3, <2>4, <2>5
<1>q. QED
  <2>1. Nat \subseteq T
    <3> HIDE DEF T
    <3>q. QED BY <1>8, <1>9, Induct
  <2>2. k \in Nat /\ k <= n
    BY <1>0
  <2>q. QED BY <2>1, <2>2

\* A catalog below which everything is stored, and has a digest, leads to the files.
LEMMA TreeLeads ==
    ASSUME NEW t, Tree(t), NoDigest \notin Shas(t), Shas(t) \subseteq stored, NEW p \in Path
    PROVE  LET Reads == p \in Visited(t) /\ Last(p) \notin Folder \ {Slash} /\ Slash \notin ToSet(Front(p))
               Found == GetEntry(Digest(t, <<>>)[2], p)
           IN /\ Reads <=> Found # {}
              /\ \A entry \in Found :
                    /\ entry.digest \in stored /\ entry.digest = Digest(t, p)
                    /\ ~ IsDirectory(p) => entry.digest = <<"data", t[p].content>>
<1> DEFINE Reads == p \in Visited(t) /\ Last(p) \notin Folder \ {Slash} /\ Slash \notin ToSet(Front(p))
           Found == GetEntry(Digest(t, <<>>)[2], p)
           D == Digests(t)
           n == Len(p)
           Leaf == [name |-> Last(p), time |-> t[p].time, digest |-> D[p]]
<1>1. CASE Last(p) \in Folder \ {Slash}
  BY <1>1 DEF GetEntry
<1>2. CASE Last(p) \notin Folder \ {Slash}
  <2>1. p \in Seq(Name) /\ n \in Nat /\ n > 0
    BY CafsAssumption, EmptySeq
  <2>2. n \in 0 .. n /\ n - 1 \in 0 .. n - 1 /\ n \in 1 .. n
    BY <2>1
  <2>3. Prefix(p, n) = p /\ p # <<>> /\ Front(p) = Prefix(p, n - 1) /\ Last(p) = p[n]
    BY <2>1, <2>2, PrefixFacts
  <2>4. Found = {e \in There(t, p, n - 1) : e.name = Last(p)}
    BY <1>2, <2>2, ReachedThere DEF GetEntry
  <2>5. Reads <=> Open(t, p, n - 1) /\ p \in DOMAIN t
    <3>1. Slash \notin ToSet(Front(p)) <=> \A j \in 1 .. n - 1 : p[j] # Slash
      <4>1. PICK f : f = Front(p)
        OBVIOUS
      <4>2. f \in Seq(Name) /\ Len(f) = n - 1 /\ \A j \in 1 .. n - 1 : f[j] = p[j]
        <5>1. n - 1 \in 0 .. Len(p) /\ f = Prefix(p, n - 1)
          BY <2>1, <2>3, <4>1
        <5>q. QED BY ONLY <2>1, <5>1, PrefixFacts
      <4>3. ToSet(f) = {f[j] : j \in 1 .. n - 1}
        BY <4>2 DEF ToSet
      <4>q. QED BY <4>1, <4>2, <4>3
    <3>2. p \in Visited(t) <=> p \in DOMAIN t /\ \A j \in 0 .. n - 1 : t[Prefix(p, j)].content = None
      BY DEF Visited, Prefix
    <3>3. p \in DOMAIN t => \A j \in 0 .. n - 1 : Prefix(p, j) \in DOMAIN t
      BY <2>1 DEF Tree
    <3>q. QED BY <1>2, <3>1, <3>2, <3>3 DEF Open
  <2>6. ASSUME NEW e \in Found PROVE Open(t, p, n - 1) /\ p \in DOMAIN t /\ e = Leaf
    <3>1. Open(t, p, n - 1) /\ e \in Entries(t, D, Prefix(p, n - 1)) /\ e.name = Last(p)
      BY <2>4 DEF There
    <3>2. PICK r \in Below(t, Prefix(p, n - 1)) : e = [name |-> Last(r), time |-> t[r].time, digest |-> D[r]]
      BY <3>1 DEF Entries
    <3>3. r \in DOMAIN t /\ r \in Seq(Name) /\ r # <<>> /\ Front(r) = Prefix(p, n - 1) /\ Last(r) = p[n]
      BY <3>1, <3>2, <2>3 DEF Below, Tree
    <3>4. r = p
      BY <3>3, <2>1, <2>2, <2>3, FrontAndLast
    <3>q. QED BY <3>1, <3>2, <3>3, <3>4
  <2>7. ASSUME Open(t, p, n - 1), p \in DOMAIN t PROVE Leaf \in Found
    <3>1. Leaf \in There(t, p, n - 1)
      BY <2>7, <2>3 DEF There, Entries, Below
    <3>q. QED BY <2>4, <3>1
  <2>8. ASSUME NEW e \in Found
        PROVE  /\ e.digest \in stored /\ e.digest = Digest(t, p)
               /\ ~ IsDirectory(p) => e.digest = <<"data", t[p].content>>
    <3>1. p \in Visited(t)
      BY <2>5, <2>6
    <3>2. D[p] \in stored /\ D[p] # NoDigest
      BY <3>1 DEF Shas, Digest
    <3>3. D[p] = DigestBy(t, D, p)
      BY <2>6, DigestsEquation
    <3>4. e.digest = D[p]
      BY <2>6
    <3>5. D[p] = Digest(t, p)
      BY DEF Digest
    <3> HIDE DEF D, Found
    <3>6. ~ IsDirectory(p) => D[p] = <<"data", t[p].content>>
      BY <3>2, <3>3 DEF DigestBy
    <3>q. QED BY <3>2, <3>4, <3>5, <3>6
  <2>q. QED
    <3> HIDE DEF Found, Reads, Leaf
    <3>q. QED BY <2>5, <2>6, <2>7, <2>8 DEF Found, Reads
<1>q. QED BY <1>1, <1>2

-------------------------------------------------------------------------------

\* A build asks of every node whether it is stored, and keeps what it has not come to.
BuildKnows(b) ==
    /\ DOMAIN builds[b] = {"stage", "left", "at", "found"}
    /\ At(b, "storing") \/ At(b, "built") => NoDigest \notin Shas(nodes[b])
    /\ At(b, "storing") => Shas(nodes[b]) \subseteq stored \cup builds[b].left \cup {builds[b].at}
    /\ At(b, "built") => Shas(nodes[b]) \subseteq stored

CafsInv ==
    /\ DOMAIN nodes = Builder /\ nodes = [b \in Builder |-> nodes[b]]
    /\ DOMAIN builds = Builder /\ builds = [b \in Builder |-> builds[b]]
    /\ \A b \in Builder : Tree(nodes[b]) /\ BuildKnows(b)

LEMMA CafsInvLeads == CafsInv => CatalogLeads
<1> SUFFICES ASSUME CafsInv, NEW b \in Builder, At(b, "built"), NEW p \in Path
             PROVE  LET tree == nodes[b]
                        Reads == p \in Visited(tree) /\ Last(p) \notin Folder \ {Slash} /\ Slash \notin ToSet(Front(p))
                        Found == GetEntry(Digest(tree, <<>>)[2], p)
                    IN /\ Shas(tree) \subseteq stored
                       /\ Reads <=> Found # {}
                       /\ \A entry \in Found :
                             /\ entry.digest \in stored /\ entry.digest = Digest(tree, p)
                             /\ ~ IsDirectory(p) => entry.digest = <<"data", tree[p].content>>
  BY DEF CatalogLeads, CafsInv, BuildKnows
<1>1. Tree(nodes[b]) /\ NoDigest \notin Shas(nodes[b]) /\ Shas(nodes[b]) \subseteq stored
  BY DEF CafsInv, BuildKnows
<1>q. QED BY <1>1, TreeLeads

-------------------------------------------------------------------------------

\* The empty tree of a new builder.
LEMMA RootTree == Tree([p \in {<<>>} |-> Node])
<1>1. /\ <<>> \in Seq(Name) /\ Len(<<>>) = 0 /\ 0 .. 0 = {0}
  BY EmptySeq
<1>2. \A i \in 0 .. Len(<<>>) : Prefix(<<>>, i) = <<>>
  BY <1>1, SubSeqEmpty DEF Prefix
<1>q. QED BY <1>1, <1>2 DEF Tree, Node

\* getNode makes what lacks on the path, and a call sets the time or the data of its node.
LEMMA CallTree ==
    ASSUME NEW t, Tree(t), NEW path \in Path, NEW node \in [content : Blob \cup {None}, time : {0, 1}]
    PROVE  Tree([GetNode(t, path) EXCEPT ![path] = node])
<1> DEFINE prefixes == {Prefix(path, i) : i \in 0 .. Len(path)}
           g == GetNode(t, path)
           u == [g EXCEPT ![path] = node]
           Nodes == [content : Blob \cup {None}, time : {0, 1}]
<1>0. path \in Seq(Name) /\ path # <<>> /\ Len(path) \in Nat
  BY CafsAssumption, EmptySeq
<1>1. g \in [DOMAIN t \cup prefixes -> Nodes] /\ DOMAIN g = DOMAIN t \cup prefixes
  <2>1. \A p \in DOMAIN t : t[p] \in Nodes
    BY DEF Tree
  <2>2. Node \in Nodes
    BY DEF Node
  <2>3. g = [p \in DOMAIN t \cup prefixes |-> IF p \in DOMAIN t THEN t[p] ELSE Node]
    BY DEF GetNode, Prefix
  <2> HIDE DEF g, prefixes, Nodes
  <2>q. QED BY <2>1, <2>2, <2>3
<1>2. DOMAIN u = DOMAIN t \cup prefixes /\ u \in [DOMAIN u -> Nodes]
  <2> HIDE DEF g, prefixes, Nodes
  <2>q. QED BY <1>1 DEF Nodes
<1>3. prefixes \subseteq Seq(Name)
  BY <1>0, PrefixFacts
<1>4. <<>> \in DOMAIN t /\ u[<<>>] = t[<<>>]
  BY <1>0, <1>1 DEF Tree, GetNode
<1>5. ASSUME NEW p \in DOMAIN u, NEW i \in 0 .. Len(p) PROVE Prefix(p, i) \in DOMAIN u
  <2>1. CASE p \in DOMAIN t
    BY <2>1, <1>2 DEF Tree
  <2>2. CASE p \in prefixes
    <3>1. PICK j \in 0 .. Len(path) : p = Prefix(path, j)
      BY <2>2
    <3>2. Len(p) = j /\ Prefix(p, i) = Prefix(path, i) /\ i \in 0 .. Len(path)
      BY <3>1, <1>0, PrefixFacts
    <3>q. QED BY <3>2, <1>2
  <2>q. QED BY <2>1, <2>2, <1>2
<1>6. \E n \in Nat : \A p \in DOMAIN u : Len(p) <= n
  <2>1. PICK m \in Nat : \A p \in DOMAIN t : Len(p) <= m
    BY DEF Tree
  <2>2. \A p \in prefixes : Len(p) <= Len(path)
    BY <1>0, PrefixFacts
  <2>3. \A p \in DOMAIN u : Len(p) \in Nat
    BY <1>2, <1>3, EmptySeq DEF Tree
  <2>4. m + Len(path) \in Nat /\ \A p \in DOMAIN u : Len(p) <= m + Len(path)
    <3> HIDE DEF u, prefixes
    <3>q. QED BY <1>0, <1>2, <2>1, <2>2, <2>3
  <2>q. QED BY <2>4
<1>q. QED
  <2>1. DOMAIN u \subseteq Seq(Name)
    BY <1>2, <1>3 DEF Tree
  <2>2. t[<<>>].content = None
    BY DEF Tree
  <2> HIDE DEF u, prefixes
  <2>q. QED BY <1>2, <1>4, <1>5, <1>6, <2>1, <2>2 DEF Tree, Nodes, u

LEMMA NodeAt ==
    ASSUME NEW t, Tree(t), NEW path \in Path
    PROVE  GetNode(t, path)[path] \in [content : Blob \cup {None}, time : {0, 1}]
<1>1. path \in Seq(Name) /\ Len(path) \in 0 .. Len(path)
  BY CafsAssumption, EmptySeq
<1>2. Prefix(path, Len(path)) = path
  BY <1>1, PrefixFacts
<1>3. path \in DOMAIN t \cup {SubSeq(path, 1, i) : i \in 0 .. Len(path)}
  BY <1>1, <1>2 DEF Prefix
<1>q. QED BY <1>3 DEF GetNode, Tree, Node

\* What a build knows stays true while what is stored grows.
LEMMA KnowsMore ==
    ASSUME NEW b, BuildKnows(b), stored \subseteq stored', nodes'[b] = nodes[b], builds'[b] = builds[b]
    PROVE  BuildKnows(b)'
BY DEF BuildKnows, At

LEMMA CafsInvInit == CafsInit => CafsInv
<1> SUFFICES ASSUME CafsInit, NEW b \in Builder PROVE Tree(nodes[b]) /\ BuildKnows(b)
  BY DEF CafsInv, CafsInit
<1>1. Tree(nodes[b])
  BY RootTree DEF CafsInit
<1>2. BuildKnows(b)
  BY DEF CafsInit, BuildKnows, At, Idle
<1>q. QED BY <1>1, <1>2

LEMMA CafsInvStep == CafsInv /\ [CafsNext]_cafsVars => CafsInv'
<1> SUFFICES ASSUME CafsInv, [CafsNext]_cafsVars PROVE CafsInv'
  OBVIOUS
<1>0. /\ DOMAIN nodes = Builder /\ nodes = [b \in Builder |-> nodes[b]]
      /\ DOMAIN builds = Builder /\ builds = [b \in Builder |-> builds[b]]
      /\ \A b \in Builder : Tree(nodes[b]) /\ BuildKnows(b)
  BY DEF CafsInv
<1>1. ASSUME NEW b \in Builder, stored \subseteq stored',
             nodes' = [nodes EXCEPT ![b] = nodes'[b]], builds' = [builds EXCEPT ![b] = builds'[b]],
             Tree(nodes'[b]), BuildKnows(b)'
      PROVE  CafsInv'
  <2>1. ASSUME NEW c \in Builder, c # b PROVE Tree(nodes'[c]) /\ BuildKnows(c)'
    <3>1. nodes'[c] = nodes[c] /\ builds'[c] = builds[c]
      BY <1>0, <1>1, <2>1
    <3>q. QED BY <3>1, <1>0, <1>1, KnowsMore
  <2>2. DOMAIN nodes' = Builder /\ nodes' = [d \in Builder |-> nodes'[d]]
    BY <1>0, <1>1
  <2>3. DOMAIN builds' = Builder /\ builds' = [d \in Builder |-> builds'[d]]
    BY <1>0, <1>1
  <2>4. \A c \in Builder : Tree(nodes'[c]) /\ BuildKnows(c)'
    BY <1>1, <2>1
  <2>q. QED BY <2>2, <2>3, <2>4 DEF CafsInv
<1>2. ASSUME NEW b \in Builder, NEW path \in Path, NEW node \in [content : Blob \cup {None}, time : {0, 1}],
             At(b, "adding"), stored' = stored, builds' = builds,
             nodes' = [nodes EXCEPT ![b] = [GetNode(nodes[b], path) EXCEPT ![path] = node]]
      PROVE  CafsInv'
  <2>1. nodes'[b] = [GetNode(nodes[b], path) EXCEPT ![path] = node]
    BY <1>0, <1>2
  <2>2. Tree(nodes'[b])
    BY <1>0, <2>1, CallTree
  <2>3. BuildKnows(b)'
    BY <1>0, <1>2 DEF BuildKnows, At
  <2>4. nodes' = [nodes EXCEPT ![b] = nodes'[b]] /\ builds' = [builds EXCEPT ![b] = builds'[b]]
    BY <1>0, <1>2, <2>1
  <2>q. QED BY <1>1, <1>2, <2>2, <2>3, <2>4
<1>3. ASSUME NEW b \in Builder, NEW path \in Path, SetTime(b, path) PROVE CafsInv'
  <2> DEFINE g == GetNode(nodes[b], path)
             node == [g[path] EXCEPT !.time = 1]
  <2>1. node \in [content : Blob \cup {None}, time : {0, 1}]
    <3>1. g[path] \in [content : Blob \cup {None}, time : {0, 1}]
      BY <1>0, NodeAt
    <3> HIDE DEF g
    <3>q. QED BY <3>1
  <2>2. nodes' = [nodes EXCEPT ![b] = [g EXCEPT ![path] = node]]
    BY <1>3 DEF SetTime, Call
  <2>3. At(b, "adding") /\ stored' = stored /\ builds' = builds
    BY <1>3 DEF SetTime, Call, At
  <2>q. QED BY <1>2, <2>1, <2>2, <2>3
<1>4. ASSUME NEW b \in Builder, NEW path \in Path, NEW content \in Blob, Add(b, path, content) PROVE CafsInv'
  <2> DEFINE g == GetNode(nodes[b], path)
             node == [g[path] EXCEPT !.content = content]
  <2>1. node \in [content : Blob \cup {None}, time : {0, 1}]
    <3>1. g[path] \in [content : Blob \cup {None}, time : {0, 1}]
      BY <1>0, NodeAt
    <3> HIDE DEF g
    <3>q. QED BY <3>1
  <2>2. nodes' = [nodes EXCEPT ![b] = [g EXCEPT ![path] = node]]
    BY <1>4 DEF Add, Call
  <2>3. At(b, "adding") /\ stored' = stored /\ builds' = builds
    BY <1>4 DEF Add, Call, At
  <2>q. QED BY <1>2, <2>1, <2>2, <2>3
<1>5. ASSUME NEW b \in Builder, Build(b) PROVE CafsInv'
  <2>1. BuildKnows(b)'
    <3>1. nodes' = nodes /\ stored' = stored /\ BuildKnows(b)
      BY <1>0, <1>5 DEF Build
    <3>2. CASE NoDigest \in Shas(nodes[b])
      <4>1. builds'[b] = Thrown
        BY <1>0, <1>5, <3>2 DEF Build
      <4>q. QED BY <4>1 DEF BuildKnows, At, Thrown, Idle
    <3>3. CASE NoDigest \notin Shas(nodes[b])
      <4>1. builds'[b] = [builds[b] EXCEPT !.stage = "storing", !.left = Shas(nodes[b])]
        BY <1>0, <1>5, <3>3 DEF Build, Missing
      <4>2. DOMAIN builds'[b] = DOMAIN builds[b] /\ builds'[b].stage = "storing" /\ builds'[b].left = Shas(nodes[b])
        BY <3>1, <4>1 DEF BuildKnows
      <4>q. QED BY <3>1, <3>3, <4>2 DEF BuildKnows, At
    <3>q. QED BY <3>2, <3>3
  <2>q. QED BY <1>0, <1>1, <1>5, <2>1 DEF Build
<1>6. ASSUME NEW b \in Builder, Find(b) PROVE CafsInv'
  <2>1. BuildKnows(b)'
    <3>1. At(b, "storing") /\ builds[b].at = NoDigest /\ nodes' = nodes /\ stored' = stored /\ BuildKnows(b)
      BY <1>0, <1>6 DEF Find
    <3>2. PICK d \in builds[b].left :
              builds' = [builds EXCEPT ![b] = [builds[b] EXCEPT !.left = builds[b].left \ {d}, !.at = d,
                                                                !.found = d \in stored]]
      BY <1>6 DEF Find
    <3>3. builds'[b] = [builds[b] EXCEPT !.left = builds[b].left \ {d}, !.at = d, !.found = d \in stored]
      <4> DEFINE next == [builds[b] EXCEPT !.left = builds[b].left \ {d}, !.at = d, !.found = d \in stored]
      <4>1. builds' = [builds EXCEPT ![b] = next]
        BY <3>2
      <4> HIDE DEF next
      <4>2. builds'[b] = next
        BY <1>0, <4>1
      <4>q. QED BY <4>2 DEF next
    <3>4. /\ DOMAIN builds'[b] = DOMAIN builds[b] /\ builds'[b].stage = builds[b].stage
          /\ builds'[b].left = builds[b].left \ {d} /\ builds'[b].at = d
      BY <3>1, <3>3 DEF BuildKnows
    <3>5. builds'[b].left \cup {builds'[b].at} = builds[b].left
      BY <3>4
    <3>q. QED BY <3>1, <3>4, <3>5 DEF BuildKnows, At
  <2>q. QED BY <1>0, <1>1, <1>6, <2>1 DEF Find
<1>7. ASSUME NEW b \in Builder, Insert(b) PROVE CafsInv'
  <2>1. BuildKnows(b)'
    <3>1. At(b, "storing") /\ nodes' = nodes /\ stored' = stored \cup {builds[b].at} /\ BuildKnows(b)
      BY <1>0, <1>7 DEF Insert
    <3>2. CASE ~ builds[b].found /\ builds[b].at \in stored
      <4>1. builds'[b] = Thrown
        BY <1>0, <1>7, <3>2 DEF Insert
      <4>q. QED BY <4>1 DEF BuildKnows, At, Thrown, Idle
    <3>3. CASE ~ (~ builds[b].found /\ builds[b].at \in stored)
      <4>1. builds'[b] = [builds[b] EXCEPT !.at = NoDigest, !.found = FALSE]
        BY <1>0, <1>7, <3>3 DEF Insert
      <4>2. /\ DOMAIN builds'[b] = DOMAIN builds[b] /\ builds'[b].stage = builds[b].stage
            /\ builds'[b].left = builds[b].left
        BY <3>1, <4>1 DEF BuildKnows
      <4>q. QED BY <3>1, <4>2 DEF BuildKnows, At
    <3>q. QED BY <3>2, <3>3
  <2>q. QED BY <1>0, <1>1, <1>7, <2>1 DEF Insert
<1>8. ASSUME NEW b \in Builder, Fail(b) PROVE CafsInv'
  <2>1. BuildKnows(b)'
    BY <1>0, <1>8 DEF Fail, BuildKnows, At, Thrown, Idle
  <2>q. QED BY <1>0, <1>1, <1>8, <2>1 DEF Fail
<1>9. ASSUME NEW b \in Builder, Return(b) PROVE CafsInv'
  <2>1. BuildKnows(b)'
    BY <1>0, <1>9 DEF Return, BuildKnows, At
  <2>q. QED BY <1>0, <1>1, <1>9, <2>1 DEF Return
<1>10. ASSUME NEW b \in Builder, Restart(b) PROVE CafsInv'
  <2>1. BuildKnows(b)'
    BY <1>0, <1>10 DEF Restart, BuildKnows, At, Idle
  <2>2. Tree(nodes'[b])
    BY <1>0, <1>10, RootTree DEF Restart
  <2>q. QED BY <1>0, <1>1, <1>10, <2>1, <2>2 DEF Restart
<1>11. CASE UNCHANGED cafsVars
  <2>1. \A b \in Builder : BuildKnows(b)'
    BY <1>0, <1>11, KnowsMore DEF cafsVars
  <2>q. QED BY <1>0, <1>11, <2>1 DEF cafsVars, CafsInv
<1>q. QED BY <1>3, <1>4, <1>5, <1>6, <1>7, <1>8, <1>9, <1>10, <1>11 DEF CafsNext

\* Whatever the builders, their calls and their failures, a catalog that was handed out leads to
\* every file that was added, with its last content, and to a folder only where its name is no
\* more than a slash (CatalogBuilderImpl.build, CAFSImpl.store, CatalogImpl.getEntry).
THEOREM CatalogsLead == CafsSpec => []CatalogLeads
<1>1. CafsSpec => []CafsInv
  BY CafsInvInit, CafsInvStep, PTL DEF CafsSpec
<1>q. QED BY <1>1, CafsInvLeads, PTL

===============================================================================
