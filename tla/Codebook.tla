------------------------------- MODULE Codebook -------------------------------
(***************************************************************************)
(* One project of the codebook: the tree of directories and files with     *)
(* their versions, edited by users and by change sets of the assistant,    *)
(* and packed into archives for executions and releases.                   *)
(*                                                                         *)
(* Every row of the tree holds its parent and, redundantly, the path of    *)
(* ids from the root.  An edit is decided on rows read earlier, without a   *)
(* lock; a transaction that changes what the project contains also raises  *)
(* the project's source revision.                                          *)
(***************************************************************************)
EXTENDS Naturals, FiniteSets, SequencesExt

CONSTANTS
    Dirs,
    Files,
    Root,         \* the parent of what lies at the top
    Editors,      \* users at work
    Requests,     \* change sets
    Old,          \* what may lie at the top at the start
    Unkeyed,      \* the source key of a version no change set made
    MaxRevision,  \* bound on edits
    MaxAtWork,    \* bound on edits, change sets and archives under way at once
    MaxVersions   \* bound on the versions of a file

Nodes == Dirs \union Files

Codes == Nat \X (Nat \union Requests \union Nodes)

ASSUME NamesAssumption ==
    /\ Dirs \intersect Files = {}
    /\ Root \notin Nodes
    /\ Unkeyed \notin Requests
    /\ 0 \notin Requests

ASSUME TreeAssumption == IsFiniteSet(Nodes) /\ Old \subseteq SUBSET Nodes

VARIABLES
    node,      \* rows of the tree
    versions,  \* versions of each file, by number
    used,      \* ids that exist or have existed
    revision,  \* source_revision of the project
    editor,    \* what each editor has read and decided
    fresh,     \* editors that have read the tree as it is now
    stale,     \* ghost: an edit of the tree was decided on an older tree
    request,   \* change sets: what they expect and want
    applied,   \* change sets that were carried out
    repeated,  \* change sets that were answered as carried out before
    packer     \* a snapshot on its way into an archive

tree == <<node, versions, used>>
editors == <<editor, fresh, stale>>
changes == <<request, applied, repeated>>
vars == <<node, versions, used, revision, editor, fresh, stale, request,
          applied, repeated, packer>>

Absent == [there |-> FALSE]

(* label stands for the name.                                              *)
Row(parent, path, label, current) ==
    [there |-> TRUE, parent |-> parent, path |-> path, label |-> label,
     current |-> current]

Labelled(row, name) == Row(row.parent, row.path, name, row.current)
Using(row, v) == Row(row.parent, row.path, row.label, v)

Version(code, key) == [code |-> code, key |-> key]

(* ChildPathIDs                                                            *)
ChildPath(rows, p) == IF p = Root THEN <<>> ELSE Append(rows[p].path, p)

IsDirectory(rows, p) == p = Root \/ (p \in Dirs /\ rows[p].there)

Placed(rows, x) ==
    /\ IsDirectory(rows, rows[x].parent)
    /\ rows[x].path = ChildPath(rows, rows[x].parent)

(* Parents exist and paths agree with them; a path is finite, so there is  *)
(* no cycle.                                                               *)
Sound(rows) == \A x \in Nodes : rows[x].there => Placed(rows, x)

(* uniq_codebook_space_parent_name                                         *)
NoNameTwice(rows) ==
    \A x, y \in Nodes :
       rows[x].there /\ rows[y].there /\ x # y
          => rows[x].parent # rows[y].parent \/ rows[x].label # rows[y].label

(* What an archive contains: each file with its content under the names on  *)
(* the way up to the root; nothing, when that way does not end there.       *)
Up(rows, p) ==
    LET up[n \in 0..Cardinality(Dirs)] ==
          IF n = 0 THEN p
          ELSE IF up[n - 1] \in Dirs /\ rows[up[n - 1]].there
               THEN rows[up[n - 1]].parent
               ELSE up[n - 1]
    IN up

Resolves(rows, p) == Up(rows, p)[Cardinality(Dirs)] = Root

Way(rows, p) ==
    LET up == Up(rows, p)
    IN [n \in DOMAIN up |-> IF up[n] = Root THEN Root ELSE rows[up[n]].label]

Broken == {[file |-> Root]}

Contents(rows, codes) ==
    LET files == {f \in Files : rows[f].there} IN
    IF \A f \in files : Resolves(rows, rows[f].parent)
    THEN {[file |-> f, label |-> rows[f].label, code |-> codes[f],
           way |-> Way(rows, rows[f].parent)] : f \in files}
    ELSE Broken

Current(rows, vers) ==
    [f \in Files |-> IF rows[f].there THEN vers[f][rows[f].current].code
                     ELSE <<0, 0>>]

Source == Contents(node, Current(node, versions))

Idle == [op |-> "none"]
NoRequest == [step |-> "none"]
Resting == [step |-> "none"]

(* Directories and files at the top, as after an import.                   *)
Init ==
    /\ \E old \in Old :
          /\ node = [x \in Nodes |->
                       IF x \in old
                       THEN Row(Root, <<>>, <<0, x>>,
                                IF x \in Files THEN 1 ELSE 0)
                       ELSE Absent]
          /\ versions = [f \in Files |->
                           IF f \in old THEN <<Version(<<0, 0>>, Unkeyed)>>
                           ELSE <<>>]
          /\ used = old
    /\ revision = 0
    /\ editor = [e \in Editors |-> Idle]
    /\ fresh = {} /\ stale = FALSE
    /\ request = [r \in Requests |-> NoRequest]
    /\ applied = {} /\ repeated = {}
    /\ packer = Resting

-----------------------------------------------------------------------------
(* Bounds: so many undertakings overlap, and none is begun when the last    *)
(* edit is made.                                                           *)
AtWork ==
    Cardinality({e \in Editors : editor[e] # Idle})
    + Cardinality({r \in Requests : request[r] # NoRequest})
    + (IF packer = Resting THEN 0 ELSE 1)

MayBegin == AtWork < MaxAtWork /\ revision < MaxRevision

(* bumpProjectSourceRevision, in the transaction of every edit that changes *)
(* the contents, which the index on names may refuse.                      *)
Bumped ==
    /\ NoNameTwice(node')
    /\ revision < MaxRevision
    /\ revision' = revision + 1

(* What a user types, as a name or as content, is new, or by chance what a  *)
(* change set asks for.                                                    *)
New == <<revision + 1, 0>>
Own(r) == <<0, r>>
Typed == {New} \union {Own(r) : r \in Requests}

AddVersion(f, code, key) ==
    versions' = [versions EXCEPT ![f] = Append(@, Version(code, key))]

(* INSERT of a node, with a first version when it is a file.               *)
Inserted(x, p, path, name, code, key) ==
    /\ x \notin used
    /\ used' = used \union {x}
    /\ node' = [node EXCEPT ![x] =
                  Row(p, path, name, IF x \in Files THEN 1 ELSE 0)]
    /\ IF x \in Files THEN AddVersion(x, code, key) ELSE UNCHANGED versions

(* The tree has changed: what editors have read of it is out of date.      *)
Reshaped == fresh' = {}

-----------------------------------------------------------------------------
(* Edits by users: read and decide, then write                             *)

Decided(e, plan) ==
    /\ editor' = [editor EXCEPT ![e] = plan]
    /\ fresh' = fresh \union {e}
    /\ UNCHANGED <<tree, revision, stale, changes, packer>>

(* inheritParentContext and preparePath.                                   *)
DecideCreate(e, x, p) ==
    /\ x \notin used
    /\ IsDirectory(node, p)
    /\ Decided(e, [op |-> "create", node |-> x, parent |-> p,
                   path |-> ChildPath(node, p)])

(* Update takes what the user does not send from the row it reads.         *)
DecideUpdate(e, f) ==
    /\ node[f].there
    /\ \E sends \in {"name", "code"} :
          Decided(e, [op |-> "update", node |-> f, sends |-> sends,
                      label |-> node[f].label,
                      code |-> versions[f][node[f].current].code])

(* A directory goes with everything whose path leads through it.           *)
Below(x) ==
    {y \in Nodes :
       node[y].there /\ IsPrefix(Append(node[x].path, x), node[y].path)}

(* Delete reads in its transaction, but without a lock.                    *)
DecideDelete(e, x) ==
    /\ node[x].there
    /\ Decided(e, [op |-> "delete", ids |-> Below(x) \union {x}])

(* So does Import, which finds its place by name: a file that is there gets *)
(* a version, a directory that is not is made for the file in it.  A new    *)
(* file in a directory that is there is as in DecideCreate.                 *)
DecideImport(e, d, f, p) ==
    \/ /\ node[f].there
       /\ Decided(e, [op |-> "overwrite", node |-> f,
                      number |-> Len(versions[f]) + 1])
    \/ /\ {d, f} \intersect used = {} /\ IsDirectory(node, p)
       /\ Decided(e, [op |-> "import", dir |-> d, node |-> f, parent |-> p,
                      path |-> ChildPath(node, p)])

(* ResolveMoveTarget.                                                      *)
MayMove(x, p) ==
    /\ node[x].there /\ IsDirectory(node, p)
    /\ p # x
    /\ p # Root => ~IsPrefix(Append(node[x].path, x), node[p].path)

(* Sort: with a new sort key for x, or with new ones for all in the target *)
(* directory, whose parent and path are then written as well.              *)
DecideMove(e, x, p) ==
    /\ MayMove(x, p)
    /\ \E others \in {{}, {y \in Nodes : node[y].there /\ node[y].parent = p}} :
          Decided(e, [op |-> "move", items |-> others \union {x}, parent |-> p,
                      path |-> ChildPath(node, p)])

(* Faulty variant: the paths below a moved directory stay as they were.    *)
Repath_Shallow(path, old, new) == path

(* updateSortInTx: the row, then the paths below it.                       *)
Repath(path, old, new) ==
    IF IsPrefix(old, path) THEN new \o SubSeq(path, Len(old) + 1, Len(path))
    ELSE path

MoveOne(rows, x, p, path) ==
    LET old == Append(rows[x].path, x)
        new == Append(path, x)
        put == [rows EXCEPT ![x].parent = p, ![x].path = path]
    IN [y \in Nodes |->
          IF put[y].there THEN [put[y] EXCEPT !.path = Repath(@, old, new)]
          ELSE Absent]

MoveAll(rows, items, p, path) ==
    FoldSet(LAMBDA x, moved : MoveOne(moved, x, p, path), rows, items)

(* What a move will write: of the moved rows the parent and the path, of    *)
(* what lies below them the path.                                          *)
Paths(items, p, path) ==
    LET rows == MoveAll(node, items, p, path)
        moved == {y \in Nodes : /\ node[y].there
                                /\ y \in items \/ rows[y].path # node[y].path}
    IN [y \in moved |-> rows[y].path]

Shifted(rows, items, p, paths) ==
    [y \in Nodes |->
       IF rows[y].there /\ y \in DOMAIN paths
       THEN Row(IF y \in items THEN p ELSE rows[y].parent, paths[y],
                rows[y].label, rows[y].current)
       ELSE rows[y]]

Places == Dirs \union {Root}

Decide(e) ==
    /\ editor[e] = Idle /\ MayBegin
    /\ \/ \E x \in Nodes : DecideDelete(e, x)
       \/ \E x \in Nodes, p \in Places :
             DecideCreate(e, x, p) \/ DecideMove(e, x, p)
       \/ \E f \in Files : DecideUpdate(e, f)
       \/ \E d \in Dirs, f \in Files, p \in Places : DecideImport(e, d, f, p)

(* A move reads the rows, and an update the number of the current version,  *)
(* once more.                                                              *)
Reread(e) ==
    LET plan == editor[e] IN
    /\ \/ /\ plan.op = "move"
          /\ \A x \in plan.items : node[x].there
          /\ editor' = [editor EXCEPT ![e] =
                 [op |-> "moving", items |-> plan.items, parent |-> plan.parent,
                  paths |-> Paths(plan.items, plan.parent, plan.path)]]
       \/ /\ plan.op = "update"
          /\ node[plan.node].there
          /\ editor' = [editor EXCEPT ![e] =
                 [op |-> "updating", node |-> plan.node, sends |-> plan.sends,
                  label |-> plan.label, code |-> plan.code,
                  current |-> node[plan.node].current]]
    /\ UNCHANGED <<tree, revision, fresh, stale, changes, packer>>

CommitCreate(e) ==
    LET plan == editor[e] IN
    /\ plan.op = "create"
    /\ \E name \in Typed :
          Inserted(plan.node, plan.parent, plan.path, name, New, Unkeyed)
    /\ Reshaped

CommitMove(e) ==
    LET plan == editor[e] IN
    /\ plan.op = "moving"
    /\ \A x \in plan.items : node[x].there
    /\ node' = Shifted(node, plan.items, plan.parent, plan.paths)
    /\ UNCHANGED <<versions, used>>
    /\ Reshaped

Removed(ids) ==
    /\ node' = [x \in Nodes |-> IF x \in ids THEN Absent ELSE node[x]]
    /\ versions' = [f \in Files |-> IF f \in ids THEN <<>> ELSE versions[f]]
    /\ UNCHANGED used

CommitDelete(e) ==
    LET plan == editor[e] IN
    /\ plan.op = "delete"
    /\ Removed(plan.ids)
    /\ Reshaped

CommitImport(e) ==
    LET plan == editor[e] IN
    /\ plan.op = "import"
    /\ {plan.dir, plan.node} \intersect used = {}
    /\ used' = used \union {plan.dir, plan.node}
    /\ node' = [node EXCEPT
                  ![plan.dir] = Row(plan.parent, plan.path, New, 0),
                  ![plan.node] =
                     Row(plan.dir, Append(plan.path, plan.dir), New, 1)]
    /\ AddVersion(plan.node, New, Unkeyed)
    /\ Reshaped

(* The content goes into the version that was current when it was read.    *)
CommitUpdate(e) ==
    LET plan == editor[e]
        f == plan.node
    IN
    /\ plan.op = "updating"
    /\ node[f].there
    /\ \E typed \in Typed :
          /\ node' = [node EXCEPT ![f] =
                 Labelled(@, IF plan.sends = "name" THEN typed ELSE plan.label)]
          /\ versions' = [versions EXCEPT ![f][plan.current] =
                 Version(IF plan.sends = "code" THEN typed ELSE plan.code,
                         @.key)]
    /\ UNCHANGED used

NewCurrent(f, code, key) ==
    /\ Len(versions[f]) < MaxVersions
    /\ AddVersion(f, code, key)
    /\ node' = [node EXCEPT ![f] = Using(@, Len(versions[f]) + 1)]
    /\ UNCHANGED used

(* The number may have been given to another version.  The version of a     *)
(* file that is gone belongs to nothing, and is left out.                   *)
CommitOverwrite(e) ==
    LET plan == editor[e]
        f == plan.node
    IN
    /\ plan.op = "overwrite"
    /\ \/ node[f].there /\ Len(versions[f]) + 1 = plan.number
          /\ NewCurrent(f, New, Unkeyed)
       \/ ~node[f].there /\ UNCHANGED tree

Commit(e) ==
    /\ \/ /\ \/ CommitCreate(e) \/ CommitMove(e)
             \/ CommitDelete(e) \/ CommitImport(e)
          /\ stale' = (stale \/ e \notin fresh)
       \/ /\ CommitUpdate(e) \/ CommitOverwrite(e)
          /\ UNCHANGED stale
          /\ fresh' = fresh \ {e}
    /\ editor' = [editor EXCEPT ![e] = Idle]
    /\ UNCHANGED <<changes, packer>>
    /\ Bumped

(* The transaction is refused, or the user or the process is gone.         *)
GiveUp(e) ==
    /\ editor[e] # Idle
    /\ editor' = [editor EXCEPT ![e] = Idle]
    /\ fresh' = fresh \ {e}
    /\ UNCHANGED <<tree, revision, stale, changes, packer>>

-----------------------------------------------------------------------------
(* Edits of one row, which they lock or only write                         *)

Rename(x) ==
    /\ node[x].there
    /\ \E name \in Typed \ {node[x].label} :
          node' = [node EXCEPT ![x] = Labelled(@, name)]
    /\ UNCHANGED <<versions, used, editors, changes, packer>>
    /\ Bumped

(* A version made aside does not change the contents.                      *)
CreateVersion(f) ==
    /\ node[f].there /\ Len(versions[f]) < MaxVersions
    /\ AddVersion(f, <<revision, Len(versions[f]) + 1>>, Unkeyed)
    /\ UNCHANGED <<node, used, revision, editors, changes, packer>>

UseVersion(f) ==
    /\ node[f].there
    /\ \E v \in 1..Len(versions[f]) :
          node' = [node EXCEPT ![f] = Using(@, v)]
    /\ UNCHANGED <<versions, used, editors, changes, packer>>
    /\ Bumped

-----------------------------------------------------------------------------
(* Change sets                                                             *)

(* The assistant prepares a change in several readings: the project with    *)
(* its revision; the tree it shows the model, which proposes the change;    *)
(* then, of a file that is there, its row and its version.                  *)
Preparing(r, item) ==
    /\ request' = [request EXCEPT ![r] = item]
    /\ UNCHANGED <<tree, revision, editors, applied, repeated, packer>>

PrepareProject(r) ==
    /\ request[r] = NoRequest /\ MayBegin
    /\ Preparing(r, [step |-> "tree", base |-> revision, saw |-> Source])

(* The model is shown what can be reached from the root.                   *)
PrepareItem(r, op, f, p) ==
    /\ request[r].step = "tree"
    /\ IsDirectory(node, p) /\ Resolves(node, p)
    /\ IF op = "create" THEN f \notin used
       ELSE node[f].there /\ p = node[f].parent
    /\ op \in {"create", "rename"} =>
          \A x \in Nodes :
             node[x].there /\ node[x].parent = p => node[x].label # Own(r)
    /\ Preparing(r, [step |-> IF op = "create" THEN "ready" ELSE "file",
                     op |-> op, node |-> f, parent |-> p, way |-> Way(node, p),
                     label |-> IF op = "create" THEN Own(r) ELSE node[f].label,
                     base |-> request[r].base, saw |-> request[r].saw,
                     current |-> 0, code |-> <<0, 0>>])

(* withBaseVersion                                                         *)
PrepareFile(r) ==
    LET f == request[r].node IN
    /\ request[r].step = "file"
    /\ node[f].there
    /\ Preparing(r, [request[r] EXCEPT !.step = "version",
                                       !.current = node[f].current])

PrepareVersion(r) ==
    LET f == request[r].node
        v == request[r].current
    IN
    /\ request[r].step = "version"
    /\ v \in 1..Len(versions[f])
    /\ Preparing(r, [request[r] EXCEPT !.step = "ready",
                                       !.code = versions[f][v].code])

Operations == {"create", "update", "rename", "delete"}

Prepare(r) ==
    \/ PrepareProject(r)
    \/ \E op \in Operations, f \in Files, p \in Places :
          PrepareItem(r, op, f, p)
    \/ PrepareFile(r)
    \/ PrepareVersion(r)

OnBase(r) == revision = request[r].base

(* Nodes are found by their paths.                                         *)
AtPath(x, r, label) ==
    /\ node[x].there /\ node[x].label = label
    /\ Resolves(node, node[x].parent)
    /\ Way(node, node[x].parent) = request[r].way

(* validateExistingFileChange                                              *)
AsExpected(r) ==
    LET f == request[r].node IN
    /\ AtPath(f, r, request[r].label)
    /\ node[f].current = request[r].current
    /\ Current(node, versions)[f] = request[r].code

Carry(r) ==
    LET f == request[r].node
        p == request[r].parent
    IN \/ /\ request[r].op = "create" /\ IsDirectory(node, p)
          /\ Inserted(f, p, ChildPath(node, p), Own(r), Own(r), r)
          /\ Reshaped
       \/ /\ request[r].op = "update" /\ AsExpected(r)
          /\ NewCurrent(f, Own(r), r)
          /\ UNCHANGED fresh
       \/ /\ request[r].op = "rename" /\ AsExpected(r)
          /\ node' = [node EXCEPT ![f] = Labelled(@, Own(r))]
          /\ UNCHANGED <<versions, used, fresh>>
       \/ /\ request[r].op = "delete" /\ AsExpected(r)
          /\ Removed({f})
          /\ Reshaped

(* ApplyProjectChangeSet on the revision it was made for.                  *)
Apply(r) ==
    /\ request[r].step = "ready"
    /\ OnBase(r)
    /\ Carry(r)
    /\ applied' = applied \union {r}
    /\ UNCHANGED <<editor, stale, request, repeated, packer>>
    /\ Bumped

(* Nothing is left to delete; the file bears the name asked for.           *)
Deleted(r) ==
    /\ ~node[request[r].node].there
    /\ \A x \in Nodes : ~AtPath(x, r, request[r].label)

Renamed(r) ==
    LET f == request[r].node IN
    AtPath(f, r, Own(r)) /\ node[f].current = request[r].current

(* Faulty variant: whatever has the content asked for is taken for r's.    *)
InPlace_Unkeyed(r) ==
    \/ request[r].op = "delete" /\ Deleted(r)
    \/ request[r].op = "rename" /\ Renamed(r)
    \/ /\ request[r].op \in {"create", "update"}
       /\ \E f \in Files : /\ AtPath(f, r, request[r].label)
                           /\ versions[f][node[f].current].code = Own(r)

(* alreadyAppliedProjectChangeSet                                          *)
InPlace(r) ==
    \/ request[r].op = "delete" /\ Deleted(r)
    \/ request[r].op = "rename" /\ Renamed(r)
    \/ /\ request[r].op \in {"create", "update"}
       /\ \E f \in Files : /\ AtPath(f, r, request[r].label)
                           /\ versions[f][node[f].current] = Version(Own(r), r)

(* The answer was lost, and the client asks again.                         *)
Repeat(r) ==
    /\ request[r].step = "ready"
    /\ ~OnBase(r)
    /\ InPlace(r)
    /\ repeated' = repeated \union {r}
    /\ UNCHANGED <<tree, revision, editors, request, applied, packer>>

-----------------------------------------------------------------------------
(* SnapshotFiles, and the archive made of it                               *)

Packing(step) ==
    /\ packer' = step
    /\ UNCHANGED <<tree, revision, editors, changes>>

ReadRevision ==
    /\ packer = Resting /\ MayBegin
    /\ Packing([step |-> "nodes", revision |-> revision, saw |-> Source])

ReadNodes ==
    /\ packer.step = "nodes"
    /\ Packing([step |-> "versions", revision |-> packer.revision,
                saw |-> packer.saw, rows |-> node])

(* The versions are read by the numbers in the rows, and must be there; so  *)
(* must the directories on the way up.                                     *)
ReadVersions ==
    /\ packer.step = "versions"
    /\ \A f \in Files : packer.rows[f].there =>
          /\ packer.rows[f].current \in 1..Len(versions[f])
          /\ Resolves(packer.rows, packer.rows[f].parent)
    /\ Packing([step |-> "check", revision |-> packer.revision,
                saw |-> packer.saw,
                source |-> Contents(packer.rows,
                                    Current(packer.rows, versions))])

(* Faulty variant: the second look at the revision is left out.            *)
Unchanged_Unread == TRUE

Unchanged == revision = packer.revision

CheckRevision ==
    /\ packer.step = "check"
    /\ Unchanged
    /\ Packing([packer EXCEPT !.step = "packed"])

(* Faulty variant: the revision is not compared when recording.            *)
StillCurrent_Unread == TRUE

(* The transaction that records an archive, CreateAndActivate for a release *)
(* and Create for the source of an execution, compares once more.          *)
StillCurrent == revision = packer.revision

Record ==
    /\ packer.step = "packed"
    /\ StillCurrent
    /\ Packing([packer EXCEPT !.step = "recorded"])

(* Done, or any of these steps fails, or the process dies.                 *)
EndPacking == packer # Resting /\ Packing(Resting)

-----------------------------------------------------------------------------
Next ==
    \/ \E e \in Editors : Decide(e) \/ Reread(e) \/ Commit(e) \/ GiveUp(e)
    \/ \E x \in Nodes : Rename(x)
    \/ \E f \in Files : CreateVersion(f) \/ UseVersion(f)
    \/ \E r \in Requests : Prepare(r) \/ Apply(r) \/ Repeat(r)
    \/ ReadRevision \/ ReadNodes \/ ReadVersions \/ CheckRevision \/ Record
    \/ EndPacking

Spec == Init /\ [][Next]_vars

-----------------------------------------------------------------------------
(* Properties                                                              *)

(* However the project is edited, parents exist and the paths agree with   *)
(* them, unless a creation, a move, a deletion or an import was decided on *)
(* a tree that was no longer the one it was written to.                    *)
TreeIsSound == ~stale => Sound(node)

(* What the packer has read in several statements, while the project was   *)
(* edited, is what the project contained at the revision it names.         *)
SnapshotIsRevision ==
    packer.step = "packed" => packer.source = packer.saw

(* An archive is recorded only for what the project contains at that       *)
(* moment: an edit during the upload is never published unawares.          *)
RecordedIsCurrent ==
    [][packer'.step = "recorded" /\ packer' # packer
          => packer'.source = Source]_vars

(* A change set is carried out only on the contents it was made for.       *)
AppliedOnWhatItSaw ==
    [][\A r \in applied' \ applied : request[r].saw = Source]_vars

(* A change set that writes content is answered as carried out before only *)
(* if it was, whoever has typed the same content meanwhile; a deletion     *)
(* also when nothing is left to delete.  A renaming is answered so as soon *)
(* as the file bears the name, whoever gave it.                            *)
RepeatIsTrue ==
    \A r \in repeated :
       \/ r \in applied
       \/ request[r].op = "delete" /\ ~node[request[r].node].there
       \/ request[r].op = "rename"

=============================================================================
