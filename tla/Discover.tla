------------------------------ MODULE Discover ------------------------------
(***************************************************************************)
(* discover() of build-check/check_build.py: the walk over the configured  *)
(* roots that decides which files are inspected at all.  A file it         *)
(* overlooks is a file that passes.  The walk runs against a file system   *)
(* in which a build may still be at work.                                  *)
(*                                                                         *)
(* A path is a place in the tree; what it is (a directory, a file with     *)
(* some content, a link) is chosen.  Directories are listed in any order,  *)
(* where the code sorts.                                                   *)
(***************************************************************************)
EXTENDS Integers, Sequences, FiniteSets, TLC

CONSTANTS
    Paths,       \* places in the tree
    NoPath,
    Parent,      \* the directory of a path, NoPath for the top
    Suffix,      \* what its name says: "object", "archive" or "none"
    Options,     \* what can be at a path
    Trees,       \* what may be there at first
    Excludable,  \* paths that patterns of `exclude` may match
    Roots,       \* object_dirs, then binary_paths, as [path, kind]
    MaxChanges   \* bound on the changes under the walk

Contents == {"archive", "relocatable", "linked", "other"}
Entry ==
    [type : {"absent", "dir", "special"}, readable : BOOLEAN, content : {"none"}, to : {NoPath}]
      \union [type : {"file"}, readable : BOOLEAN, content : Contents, to : {NoPath}]
      \union [type : {"link"}, readable : {TRUE}, content : {"none"}, to : Paths]

ASSUME DiscoverAssumption ==
    /\ NoPath \notin Paths /\ MaxChanges \in Nat
    /\ Parent \in [Paths -> Paths \union {NoPath}]
    /\ Suffix \in [Paths -> {"object", "archive", "none"}]
    /\ Options \in [Paths -> SUBSET Entry] /\ Trees \subseteq [Paths -> Entry]
    /\ Excludable \subseteq Paths
    /\ Roots \in Seq([path : Paths, kind : {"object", "binary"}])
    /\ \A i, j \in DOMAIN Roots : i < j /\ Roots[i].kind = "binary" => Roots[j].kind = "binary"
    \* Nothing turns into a fifo, which open() would wait for, and no link leads
    \* to a link.
    /\ \A p \in Paths : \A e, f \in Options[p] :
         /\ e.type = "special" => f.type = "special"
         /\ e.type = "link" => \A g \in Options[e.to] : g.type \notin {"link", "special"}
    /\ \A tree \in Trees, p \in Paths : tree[p] \in Options[p]
    \* It is a tree: the way up from any path ends at the top.
    /\ \A S \in SUBSET Paths : S # {} => \E p \in S : Parent[p] \notin S
    \* No root links to a directory: its files have the names of the link.
    /\ \A i \in DOMAIN Roots : \A e \in Options[Roots[i].path] :
         e.type = "link" => \A f \in Options[e.to] : f.type # "dir"

VARIABLES
    disk,       \* what is at each path
    excluded,   \* the paths that patterns match
    at,         \* "roots", "walk", "read", "resolve" or "done"
    turn,       \* the root in work
    dirs,       \* directories of it that os.walk has still to list
    files,      \* files of the listed directory that are still to be added
    path,       \* the file that is being added
    header,     \* the content its first bytes show
    explicit,   \* the root is itself a file
    before,     \* errors when its turn began
    matched,    \* it has given an artifact
    artifacts,  \* artifacts: what each resolved path is taken for
    errors,     \* errors: the root in work and the path it is about
    changed,    \* history: paths that have changed under the walk
    reached     \* history: [root, path, real] for every artifact

world == <<disk, excluded, changed>>
add   == <<path, header>>
walk  == <<dirs, files, explicit, before>>
found == <<matched, artifacts, reached>>
vars  == <<world, at, turn, add, walk, found, errors>>

-----------------------------------------------------------------------------
(* The file system.                                                        *)

Target(p) == IF disk[p].type = "link" THEN disk[p].to ELSE p
Is(p, type) == disk[Target(p)].type = type
Listed(d) == {p \in Paths : Parent[p] = Target(d) /\ disk[p].type # "absent"}

\* Another process creates, removes or replaces an entry.
Change ==
    /\ at # "done" /\ Cardinality(changed) < MaxChanges
    /\ \E p \in Paths \ changed : \E e \in Options[p] \ {disk[p]} :
         /\ disk' = [disk EXCEPT ![p] = e]
         /\ changed' = changed \union {p}
    /\ UNCHANGED <<excluded, at, turn, add, walk, found, errors>>

-----------------------------------------------------------------------------
(* The walk.                                                               *)

Init ==
    /\ disk \in Trees /\ excluded \in SUBSET Excludable /\ changed = {}
    /\ at = "roots" /\ turn = 1
    /\ dirs = {} /\ files = {} /\ explicit = FALSE /\ before = {}
    /\ path = NoPath /\ header = "none"
    /\ matched = FALSE /\ artifacts = <<>> /\ reached = {} /\ errors = {}

Root == Roots[turn]
Blamed(p) == errors' = errors \union {<<turn, p>>}

\* Mutant of Excluded: directories are not pruned.
ExcludedFiles(p) == p \in excluded /\ ~Is(p, "dir")
Excluded(p) == p \in excluded

SkipRoot ==
    /\ at = "roots" /\ turn <= Len(Roots) /\ Excluded(Root.path)
    /\ turn' = turn + 1
    /\ UNCHANGED <<world, at, add, walk, found, errors>>

EnterRoot ==
    /\ at = "roots" /\ turn <= Len(Roots) /\ ~Excluded(Root.path)
    /\ at' = "walk" /\ before' = errors /\ matched' = FALSE
    /\ \/ /\ Is(Root.path, "file") /\ Root.kind = "binary"
          /\ explicit' = TRUE /\ files' = {Root.path} /\ dirs' = {} /\ UNCHANGED errors
       \/ /\ Is(Root.path, "dir")
          /\ explicit' = FALSE /\ files' = {} /\ dirs' = {Root.path} /\ UNCHANGED errors
       \/ /\ ~Is(Root.path, "dir") /\ ~(Is(Root.path, "file") /\ Root.kind = "binary")
          /\ explicit' = FALSE /\ files' = {} /\ dirs' = {} /\ Blamed(Root.path)
    /\ UNCHANGED <<world, turn, add, artifacts, reached>>

\* Mutant of NotFollowed: os.walk(followlinks=True).
FollowedAll(d) == FALSE
NotFollowed(d) == disk[d].type = "link" /\ d # Root.path

\* os.walk lists a directory, unless it is a link, and reports what it cannot
\* list to onerror.  A link to a directory is listed among the directories.
ListDirectory ==
    /\ at = "walk" /\ files = {}
    /\ \E d \in dirs :
         \/ /\ NotFollowed(d)
            /\ dirs' = dirs \ {d} /\ UNCHANGED <<files, errors>>
         \/ /\ ~NotFollowed(d) /\ (~Is(d, "dir") \/ ~disk[Target(d)].readable)
            /\ dirs' = dirs \ {d} /\ Blamed(d) /\ UNCHANGED files
         \/ /\ ~NotFollowed(d) /\ Is(d, "dir") /\ disk[Target(d)].readable
            /\ files' = {p \in Listed(d) : ~Is(p, "dir")}
            /\ dirs' = (dirs \ {d}) \union {p \in Listed(d) : Is(p, "dir") /\ ~Excluded(p)}
            /\ UNCHANGED errors
    /\ UNCHANGED <<world, at, turn, add, explicit, before, found>>

-----------------------------------------------------------------------------
(* add(): three looks at a file, between which it may change.              *)

Stat ==
    /\ at = "walk"
    /\ \E p \in files :
         /\ files' = files \ {p}
         /\ \/ Excluded(p) /\ UNCHANGED <<at, path, errors>>
            \/ ~Excluded(p) /\ Is(p, "absent") /\ Blamed(p) /\ UNCHANGED <<at, path>>
            \/ /\ ~Excluded(p) /\ ~Is(p, "absent") /\ ~Is(p, "file")
               /\ IF explicit THEN Blamed(p) ELSE UNCHANGED errors
               /\ UNCHANGED <<at, path>>
            \/ /\ ~Excluded(p) /\ Is(p, "file")
               /\ at' = "read" /\ path' = p /\ UNCHANGED errors
    /\ UNCHANGED <<world, turn, header, dirs, explicit, before, found>>

\* What a file is taken for: an object by its content or else by its name, a
\* binary by its content alone.
Kind(kind, p, content) ==
    CASE kind = "object" /\ content = "archive"     -> "archive"
      [] kind = "object" /\ content = "relocatable" -> "object"
      [] kind = "object" /\ content \notin {"archive", "relocatable"} -> Suffix[p]
      [] kind = "binary" /\ content = "linked"      -> "binary"
      [] OTHER                                      -> "none"

Leave == at' = "walk" /\ path' = NoPath /\ header' = "none"

\* Mutant of Unopened: what cannot be opened is skipped.
UnopenedSkipped(p) == UNCHANGED errors
Unopened(p) == Blamed(p)

ReadHeader ==
    /\ at = "read"
    /\ \/ /\ ~(Is(path, "file") /\ disk[Target(path)].readable)
          /\ Unopened(path) /\ Leave
       \/ /\ Is(path, "file") /\ disk[Target(path)].readable
          /\ LET content == disk[Target(path)].content
             IN  IF Kind(Root.kind, path, content) = "none"
                   THEN Leave /\ IF explicit THEN Blamed(path) ELSE UNCHANGED errors
                   ELSE at' = "resolve" /\ header' = content /\ UNCHANGED <<path, errors>>
    /\ UNCHANGED <<world, turn, walk, found>>

\* Mutant of Recorded: the first kind stays.
RecordedFirst(f, kind) ==
    [p \in {f} \union DOMAIN artifacts |-> IF p \in DOMAIN artifacts THEN artifacts[p] ELSE kind]
Recorded(f, kind) ==
    [p \in {f} \union DOMAIN artifacts |-> IF p = f THEN kind ELSE artifacts[p]]

Resolve ==
    /\ at = "resolve" /\ Leave
    /\ \/ Is(path, "absent") /\ Blamed(path) /\ UNCHANGED found
       \/ /\ ~Is(path, "absent")
          /\ artifacts' = Recorded(Target(path), Kind(Root.kind, path, header))
          /\ matched' = TRUE /\ UNCHANGED errors
          /\ reached' = reached \union {[root |-> turn, path |-> path, real |-> Target(path)]}
    /\ UNCHANGED <<world, turn, walk>>

-----------------------------------------------------------------------------
\* Mutant of Unmatched: a root may be empty if there is anything at all.
UnmatchedAll == artifacts = <<>>
Unmatched == ~matched /\ errors = before

LeaveRoot ==
    /\ at = "walk" /\ files = {} /\ dirs = {}
    /\ at' = "roots" /\ turn' = turn + 1
    /\ IF Unmatched THEN Blamed(Root.path) ELSE UNCHANGED errors
    /\ explicit' = FALSE /\ before' = {} /\ matched' = FALSE
    /\ UNCHANGED <<world, add, dirs, files, artifacts, reached>>

Finish ==
    /\ at = "roots" /\ turn > Len(Roots)
    /\ at' = "done"
    /\ errors' = IF artifacts = <<>> THEN errors \union {<<turn, NoPath>>} ELSE errors
    /\ UNCHANGED <<world, turn, add, walk, found>>

Scan == SkipRoot \/ EnterRoot \/ ListDirectory \/ Stat \/ ReadHeader \/ Resolve
          \/ LeaveRoot \/ Finish

Next == Scan \/ Change

Spec == Init /\ [][Next]_vars
\* The scan is one thread that runs; nobody has to change a file.
FairSpec == Spec /\ WF_vars(Scan)

-----------------------------------------------------------------------------
(* Correctness.                                                            *)

\* Variables keep their types; nothing is both reached and not an artifact.
TypeOK ==
    /\ at \in {"roots", "walk", "read", "resolve", "done"} /\ turn \in 1..Len(Roots) + 1
    /\ dirs \subseteq Paths /\ files \subseteq Paths
    /\ path \in Paths \union {NoPath} /\ (path # NoPath <=> at \in {"read", "resolve"})
    /\ header \in Contents \union {"none"} /\ (header # "none" <=> at = "resolve")
    /\ matched \in BOOLEAN /\ explicit \in BOOLEAN
    /\ errors \subseteq (1..Len(Roots) + 1) \X (Paths \union {NoPath}) /\ before \subseteq errors
    /\ \A a \in reached : a.real \in DOMAIN artifacts
    /\ \A p \in DOMAIN artifacts : artifacts[p] \in {"object", "archive", "binary"}

\* The directories above a path, itself included, and those a root leads
\* through on the way to it.
Above ==
    LET above[p \in Paths \union {NoPath}] ==
          IF p = NoPath THEN {} ELSE {p} \union above[Parent[p]]
    IN  above
Way(i, p) == Above[p] \ Above[Parent[Roots[i].path]]

\* The walk of a root comes to a path: not excluded on the way, through
\* directories that can be listed.
Visible(i, p) ==
    /\ Roots[i].path \in Above[p] /\ Way(i, p) \intersect excluded = {}
    /\ \A d \in Way(i, p) \ {p} : disk[d].type = "dir" /\ disk[d].readable
    /\ p # Roots[i].path => disk[p].type # "absent"

Candidate(i, p) ==
    /\ Visible(i, p) /\ Is(p, "file")
    /\ p = Roots[i].path => Roots[i].kind = "binary"
    /\ Kind(Roots[i].kind, p, disk[Target(p)].content) # "none"

Steady(i, p) == (Way(i, p) \union {Target(p)}) \intersect changed = {}

\* Whatever a build does to the tree during the scan: a file that belongs to
\* the scan and stays as it is becomes an artifact, or is named in an error if
\* it cannot be read.
NothingOverlooked ==
    at = "done" =>
        \A i \in DOMAIN Roots, p \in Paths :
            Candidate(i, p) /\ Steady(i, p) =>
                IF disk[Target(p)].readable
                  THEN Target(p) \in DOMAIN artifacts
                  ELSE <<i, p>> \in errors

\* What a tree at rest has to report as an error.
Troubled(i) ==
    /\ Roots[i].path \notin excluded
    /\ \/ ~\E p \in Paths : Candidate(i, p) /\ disk[Target(p)].readable
       \/ \E p \in Paths : /\ Visible(i, p)
                           /\ \/ Is(p, "absent")
                              \/ Is(p, "file") /\ ~disk[Target(p)].readable
                              \/ disk[p].type = "dir" /\ ~disk[p].readable

\* Of a tree at rest the artifacts are exactly the candidates, each listed once
\* and as a binary if a binary root leads to it, and there is an error exactly
\* if a root has no artifact or leads to something that cannot be read.
ScanExact ==
    at = "done" /\ changed = {} =>
        /\ \A f \in Paths :
             LET finds == {x \in (DOMAIN Roots) \X Paths :
                             Target(x[2]) = f /\ Candidate(x[1], x[2]) /\ disk[f].readable}
                 kinds == {Kind(Roots[x[1]].kind, x[2], disk[f].content) : x \in finds}
             IN  /\ f \in DOMAIN artifacts <=> finds # {}
                 /\ f \in DOMAIN artifacts =>
                      artifacts[f] \in (IF "binary" \in kinds THEN {"binary"} ELSE kinds)
        /\ errors = {} <=>
             /\ \A i \in DOMAIN Roots : ~Troubled(i)
             /\ \E i \in DOMAIN Roots : Roots[i].path \notin excluded

\* A scan without an error has found an artifact under every root that is not
\* excluded, whether another root had found it before or not.
SilenceMeansFound ==
    at = "done" /\ errors = {} =>
        /\ artifacts # <<>>
        /\ \A i \in DOMAIN Roots :
             Roots[i].path \notin excluded => \E a \in reached : a.root = i

\* No artifact was reached through an excluded path: an exclude pattern holds
\* for everything below a directory it matches.
ExcludedStaysOut == \A a \in reached : Way(a.root, a.path) \intersect excluded = {}

\* What discover() hands on is what the configuration asks for, whatever
\* changes meanwhile: all of it, and nothing that it excludes.
ScanFaithful == NothingOverlooked /\ ExcludedStaysOut

\* discover() returns, links that lead back up the tree included.
ScanEnds == <>(at = "done")
=============================================================================
