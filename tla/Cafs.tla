--------------------------------- MODULE Cafs ---------------------------------
(* The content addressable file store: builders (CatalogBuilderImpl.java,       *)
(* Node.java) that put trees of files in the shared store, catalog by catalog   *)
(* and file by file (CAFSImpl.java), and the catalogs that are read from it     *)
(* (CatalogImpl.java). A digest is what it is the digest of.                    *)
EXTENDS Integers, SequencesExt

CONSTANTS
    Builder,  \* the builders, each in a thread of its own
    Name,     \* names of files and folders
    Path,     \* the paths they are called with: sequences of names
    Folder,   \* the names that end in a slash
    Slash,    \* ... the one that is nothing else
    Blob,  \* the contents of files
    MaxAdds,  \* bound: the calls of add and setTime
    None

\* A path is cut behind each of its slashes: all names but its last are those of folders.
ASSUME CafsAssumption ==
    /\ \A path \in Path : path \in Seq(Name) /\ path # <<>> /\ \A i \in 1 .. Len(path) - 1 : path[i] \in Folder
    /\ Slash \in Folder /\ None \notin Blob

VARIABLES
    stored, \* external: the documents of the collection, by their _id
    nodes,  \* of each builder the nodes below its root, by their paths
    builds, \* of each builder what build is at
    adds    \* the calls of add and setTime so far

cafsVars == <<stored, nodes, builds, adds>>

\* A sequence of names ends a folder, or is the root (isDirectory).
IsDirectory(path) == path = <<>> \/ Last(path) \in Folder

Below(tree, path) == {p \in DOMAIN tree : p # <<>> /\ Front(p) = path}

\* The digests of the nodes (fixupCatalogs, getCatalogData): that of its data, which hides what is below;
\* or of its catalog, if it is a folder. What is neither has none.
NoDigest == <<"none", {}>>
Digests(tree) ==
    LET D[path \in DOMAIN tree] ==
            IF tree[path].content # None THEN <<"data", tree[path].content>>
            ELSE IF ~ IsDirectory(path) THEN NoDigest
            ELSE <<"catalog", {[name |-> Last(p), time |-> tree[p].time, digest |-> D[p]] : p \in Below(tree, path)}>>
    IN D
Digest(tree, path) == Digests(tree)[path]

\* The nodes that fixupCatalogs comes to.
Visited(tree) == {p \in DOMAIN tree : \A i \in 0 .. Len(p) - 1 : tree[SubSeq(p, 1, i)].content = None}
Shas(tree) == {Digest(tree, p) : p \in Visited(tree)}

Node == [content |-> None, time |-> 0]
Idle == [stage |-> "adding", left |-> {}, at |-> NoDigest, found |-> FALSE]
Thrown == [Idle EXCEPT !.stage = "thrown"]

CafsInit ==
    /\ stored = {} /\ adds = 0
    /\ nodes = [b \in Builder |-> [p \in {<<>>} |-> Node]]
    /\ builds = [b \in Builder |-> Idle]

------------------------------------------------------------------------------
(* CatalogBuilderImpl.                                                        *)

\* getNode makes the nodes of the path that are not there.
GetNode(tree, path) ==
    LET prefixes == {SubSeq(path, 1, i) : i \in 0 .. Len(path)}
    IN [p \in DOMAIN tree \cup prefixes |-> IF p \in DOMAIN tree THEN tree[p] ELSE Node]

Call(b, path, node(_)) ==
    /\ builds[b].stage = "adding" /\ adds < MaxAdds
    /\ adds' = adds + 1
    /\ LET tree == GetNode(nodes[b], path) IN nodes' = [nodes EXCEPT ![b] = [tree EXCEPT ![path] = node(tree[path])]]
    /\ UNCHANGED <<stored, builds>>

Add(b, path, content) == Call(b, path, LAMBDA node : [node EXCEPT !.content = content])
SetTime(b, path) == Call(b, path, LAMBDA node : [node EXCEPT !.time = 1])

At(b, stage) == builds[b].stage = stage

\* Mutant: what is below a catalog that is stored is taken as stored.
MissingBelow(tree) ==
    {Digest(tree, p) : p \in {q \in Visited(tree) : \A i \in 0 .. Len(q) : Digest(tree, SubSeq(q, 1, i)) \notin stored}}

\* The query for what is stored already finds nothing: in leaves its values out of it.
Missing(tree) == Shas(tree)

\* build throws where a node that is no folder has only a time.
Build(b) ==
    /\ At(b, "adding")
    /\ builds' = [builds EXCEPT ![b] =
                     IF NoDigest \in Shas(nodes[b]) THEN Thrown
                     ELSE [@ EXCEPT !.stage = "storing", !.left = Missing(nodes[b])]]
    /\ UNCHANGED <<stored, nodes, adds>>

\* store asks for each of the nodes, in the order of the map, whether it is there ...
Find(b) ==
    /\ At(b, "storing") /\ builds[b].at = NoDigest
    /\ \E d \in builds[b].left :
          builds' = [builds EXCEPT ![b] = [@ EXCEPT !.left = builds[b].left \ {d}, !.at = d, !.found = d \in stored]]
    /\ UNCHANGED <<stored, nodes, adds>>

\* ... and inserts it, which throws if it has been inserted meanwhile.
Insert(b) ==
    LET d == builds[b].at
    IN /\ At(b, "storing") /\ d # NoDigest
       /\ builds' = [builds EXCEPT ![b] =
                        IF ~ builds[b].found /\ d \in stored THEN Thrown
                        ELSE [@ EXCEPT !.at = NoDigest, !.found = FALSE]]
       /\ stored' = stored \cup {d}
       /\ UNCHANGED <<nodes, adds>>

\* The insert fails, or the process dies.
Fail(b) ==
    /\ At(b, "storing")
    /\ builds' = [builds EXCEPT ![b] = Thrown]
    /\ UNCHANGED <<stored, nodes, adds>>

Return(b) ==
    /\ At(b, "storing") /\ builds[b].left = {} /\ builds[b].at = NoDigest
    /\ builds' = [builds EXCEPT ![b].stage = "built"]
    /\ UNCHANGED <<stored, nodes, adds>>

\* Another builder takes the place of one that has thrown.
Restart(b) ==
    /\ At(b, "thrown") /\ adds < MaxAdds
    /\ builds' = [builds EXCEPT ![b] = Idle]
    /\ nodes' = [nodes EXCEPT ![b] = [p \in {<<>>} |-> Node]]
    /\ UNCHANGED <<stored, adds>>

CafsNext == \E b \in Builder :
    \/ \E path \in Path : SetTime(b, path) \/ \E content \in Blob : Add(b, path, content)
    \/ Build(b) \/ Find(b) \/ Insert(b) \/ Fail(b) \/ Return(b) \/ Restart(b)

CafsSpec == CafsInit /\ [][CafsNext]_cafsVars

------------------------------------------------------------------------------
(* CatalogImpl.                                                               *)

\* getEntry, of a catalog by its entries: the catalogs on the way are read from the store. What
\* starts with a slash is not cut (n > 0), so that nothing leads on from a slash, but the slash
\* itself is looked up; of any other folder what is behind its slash is, which has no name. An
\* entry that is not there, is no catalog or is not stored ends in null or an exception, which is
\* no entry.
Reached(entries, path) ==
    LET R[i \in 0 .. Len(path) - 1] ==
            IF i = 0 THEN entries
            ELSE UNION {entry.digest[2] : entry \in {e \in R[i - 1] :
                     e.name = path[i] /\ path[i] # Slash /\ e.digest[1] = "catalog" /\ e.digest \in stored}}
    IN R
GetEntry(entries, path) ==
    IF Last(path) \in Folder \ {Slash} THEN {} ELSE {e \in Reached(entries, path)[Len(path) - 1] : e.name = Last(path)}

------------------------------------------------------------------------------

\* Everything below a catalog that a builder handed out is stored, and every file can be read
\* by its path, with the content that was added last: unless a folder on its path is named by a
\* slash only, or content was added for it. A folder of a name of its own is no entry, one that
\* is named by a slash is, with its catalog; and what was not added is none either.
CatalogLeads ==
    \A b \in Builder : At(b, "built") =>
        LET tree == nodes[b]
            Reads(p) == p \in Visited(tree) /\ Last(p) \notin Folder \ {Slash} /\ Slash \notin ToSet(Front(p))
            Found(p) == GetEntry(Digest(tree, <<>>)[2], p)
        IN /\ Shas(tree) \subseteq stored
           /\ \A p \in Path :
                 /\ Reads(p) <=> Found(p) # {}
                 /\ \A entry \in Found(p) :
                       /\ entry.digest \in stored /\ entry.digest = Digest(tree, p)
                       /\ ~ IsDirectory(p) => entry.digest = <<"data", tree[p].content>>
===============================================================================
