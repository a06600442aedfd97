--------------------------- MODULE CodebookProofs ---------------------------
(***************************************************************************)
(* Theorems on the codebook, for any finite tree and any number of users   *)
(* and change sets.  The lemmas on prefixes and on the fold over the moved *)
(* nodes, which only the soundness of the tree needs, come last with it.   *)
(***************************************************************************)
EXTENDS Codebook, SequenceTheorems, FiniteSetTheorems, WellFoundedInduction,
        TLAPS

VersionSet == [code : Codes, key : Requests \union {Unkeyed}]

IsRow(row) ==
    /\ row = Row(row.parent, row.path, row.label, row.current)
    /\ row.label \in Codes

(* Every row is a row or absent.                                           *)
RowsOK ==
    /\ node = [x \in Nodes |-> node[x]]
    /\ \A x \in Nodes : node[x] = Absent \/ IsRow(node[x])

(* Every file there has a current version.                                 *)
Numbered ==
    \A f \in Files : node[f].there => node[f].current \in 1..Len(versions[f])

TreeOK ==
    /\ RowsOK
    /\ versions \in [Files -> Seq(VersionSet)]
    /\ Numbered
    /\ \A x \in Nodes : node[x].there => x \in used

PlanOK(plan) ==
    /\ plan.op = "create" => plan.node \in Nodes
    /\ plan.op \in {"update", "updating"} =>
          /\ plan.node \in Files
          /\ plan.label \in Codes /\ plan.code \in Codes
    /\ plan.op = "delete" => plan.ids \in SUBSET Nodes
    /\ plan.op = "import" => plan.dir \in Dirs /\ plan.node \in Files
    /\ plan.op = "overwrite" => plan.node \in Files

PlansOK ==
    /\ editor = [e \in Editors |-> editor[e]]
    /\ \A e \in Editors : PlanOK(editor[e])

(* The readings a change set is prepared in.                               *)
IsItem(item) ==
    /\ item = [step |-> item.step, op |-> item.op, node |-> item.node,
               parent |-> item.parent, way |-> item.way, label |-> item.label,
               base |-> item.base, saw |-> item.saw, current |-> item.current,
               code |-> item.code]
    /\ item.step \in {"file", "version", "ready"}
    /\ item.node \in Files

RequestsOK ==
    /\ request = [r \in Requests |-> request[r]]
    /\ \A r \in Requests :
          request[r] = NoRequest \/ request[r].step = "tree" \/ IsItem(request[r])

Shape ==
    /\ TreeOK
    /\ PlansOK
    /\ RequestsOK
    /\ revision \in Nat
    /\ applied \subseteq Requests /\ repeated \subseteq Requests

-----------------------------------------------------------------------------
(* What the helpers of several actions do to the tree                      *)

LEMMA NewIsCode == revision \in Nat => New \in Codes
BY DEF New, Codes

LEMMA OwnIsCode == \A r \in Requests : Own(r) \in Codes
BY DEF Own, Codes

LEMMA TypedIsCode == revision \in Nat => Typed \subseteq Codes
BY NewIsCode, OwnIsCode DEF Typed

(* A version more leaves the others where they are.                        *)
LEMMA AddVersionKeeps ==
    ASSUME Shape, NEW f \in Files, NEW code \in Codes,
           NEW key \in Requests \union {Unkeyed}, AddVersion(f, code, key)
    PROVE  /\ versions' \in [Files -> Seq(VersionSet)]
           /\ Len(versions'[f]) = Len(versions[f]) + 1
           /\ \A g \in Files : \A i \in 1..Len(versions'[g]) :
                 \/ versions'[g][i].key = key
                 \/ i \in 1..Len(versions[g]) /\ versions'[g][i] = versions[g][i]
           /\ \A g \in Files :
                 /\ g # f => versions'[g] = versions[g]
                 /\ 1..Len(versions[g]) \subseteq 1..Len(versions'[g])
                 /\ \A i \in 1..Len(versions[g]) : versions'[g][i] = versions[g][i]
<1>1. Version(code, key) \in VersionSet
  BY DEF Version, VersionSet
<1>2. /\ versions \in [Files -> Seq(VersionSet)]
      /\ versions' = [versions EXCEPT ![f] = Append(@, Version(code, key))]
  BY DEF Shape, TreeOK, AddVersion
<1>3. Append(versions[f], Version(code, key)) \in Seq(VersionSet)
  BY <1>1, <1>2
<1>4. versions[f] \in Seq(VersionSet)
  BY <1>2
<1>5. /\ Len(Append(versions[f], Version(code, key))) = Len(versions[f]) + 1
      /\ Append(versions[f], Version(code, key))[Len(versions[f]) + 1]
           = Version(code, key)
      /\ \A i \in 1..Len(versions[f]) :
            Append(versions[f], Version(code, key))[i] = versions[f][i]
  BY <1>1, <1>4
<1>6. versions'[f] = Append(versions[f], Version(code, key))
  BY <1>2
<1>7. \A g \in Files : g # f => versions'[g] = versions[g]
  BY <1>2
<1>8. versions' \in [Files -> Seq(VersionSet)]
  BY <1>2, <1>3
<1>9. \A g \in Files :
         /\ 1..Len(versions[g]) \subseteq 1..Len(versions'[g])
         /\ \A i \in 1..Len(versions[g]) : versions'[g][i] = versions[g][i]
  <2> TAKE g \in Files
  <2>1. CASE g = f
    <3>1. Len(versions[f]) \in Nat
      BY <1>4
    <3> QED
      BY <2>1, <3>1, <1>5, <1>6
  <2>2. CASE g # f
    BY <2>2, <1>7
  <2> QED
    BY <2>1, <2>2
<1>10. \A g \in Files : \A i \in 1..Len(versions'[g]) :
          \/ versions'[g][i].key = key
          \/ i \in 1..Len(versions[g]) /\ versions'[g][i] = versions[g][i]
  <2> TAKE g \in Files
  <2> TAKE i \in 1..Len(versions'[g])
  <2>1. CASE g = f /\ i = Len(versions[f]) + 1
    BY <2>1, <1>5, <1>6 DEF Version
  <2>2. CASE g = f /\ i # Len(versions[f]) + 1
    <3>1. Len(versions[f]) \in Nat
      BY <1>4
    <3> QED
      BY <2>2, <3>1, <1>5, <1>6
  <2>3. CASE g # f
    BY <2>3, <1>7
  <2> QED
    BY <2>1, <2>2, <2>3
<1> QED
  BY <1>5, <1>6, <1>7, <1>8, <1>9, <1>10

(* A transaction brings nothing back, and gives versions no key but key or *)
(* the one they had.                                                       *)
Follows(key) ==
    /\ used \subseteq used'
    /\ \A y \in Nodes : node'[y].there => node[y].there \/ y \notin used
    /\ \A f \in Files : \A i \in 1..Len(versions'[f]) :
          \/ versions'[f][i].key = key
          \/ i \in 1..Len(versions[f]) /\ versions'[f][i].key = versions[f][i].key

(* One row is replaced.                                                    *)
LEMMA PutRow ==
    ASSUME RowsOK, NEW x \in Nodes, NEW row, IsRow(row),
           node' = [node EXCEPT ![x] = row]
    PROVE  RowsOK' /\ \A y \in Nodes : node'[y] = IF y = x THEN row ELSE node[y]
<1> QED
  BY DEF RowsOK, IsRow

LEMMA LengthIsNat ==
    ASSUME Shape, NEW f \in Files
    PROVE  Len(versions[f]) \in Nat
BY DEF Shape, TreeOK

(* The fields of a row.                                                    *)
LEMMA RowFields ==
    \A a, b, c, d :
       /\ Row(a, b, c, d).there = TRUE
       /\ Row(a, b, c, d).parent = a /\ Row(a, b, c, d).path = b
       /\ Row(a, b, c, d).label = c /\ Row(a, b, c, d).current = d
       /\ c \in Codes => IsRow(Row(a, b, c, d))
BY DEF Row, IsRow

LEMMA IsThere ==
    ASSUME RowsOK, NEW x \in Nodes
    PROVE  \/ node[x] = Absent /\ ~node[x].there
           \/ IsRow(node[x]) /\ node[x].there = TRUE
<1>1. Absent.there = FALSE
  BY DEF Absent
<1>2. IsRow(node[x]) => node[x].there = TRUE
  BY RowFields DEF IsRow
<1> QED
  BY <1>1, <1>2 DEF RowsOK

LEMMA InsertedKeeps ==
    ASSUME Shape, NEW x \in Nodes, NEW p, NEW path,
           NEW name \in Codes, NEW code \in Codes,
           NEW key \in Requests \union {Unkeyed},
           Inserted(x, p, path, name, code, key)
    PROVE  TreeOK' /\ Follows(key)
<1> DEFINE row == Row(p, path, name, IF x \in Files THEN 1 ELSE 0)
<1>1. IsRow(row) /\ row.label = name /\ (x \in Files => row.current = 1)
  BY RowFields
<1>2. /\ RowsOK'
      /\ \A y \in Nodes : node'[y] = IF y = x THEN row ELSE node[y]
  <2>1. node' = [node EXCEPT ![x] = row]
    BY DEF Inserted
  <2>2. RowsOK
    BY DEF Shape, TreeOK
  <2> HIDE DEF row
  <2> QED
    BY <1>1, <2>1, <2>2, PutRow
<1> HIDE DEF row
<1>3. x \notin used /\ used' = used \union {x}
  BY DEF Inserted
<1>4. \A y \in Nodes : node'[y].there =>
         /\ y \in used'
         /\ node[y].there \/ y \notin used
  BY <1>1, <1>2, <1>3 DEF Shape, TreeOK
<1>5. CASE x \in Files
  <2>1. AddVersion(x, code, key)
    BY <1>5 DEF Inserted
  <2>2. /\ versions' \in [Files -> Seq(VersionSet)]
        /\ Len(versions'[x]) = Len(versions[x]) + 1
        /\ \A g \in Files : g # x => versions'[g] = versions[g]
        /\ \A g \in Files : \A i \in 1..Len(versions'[g]) :
              \/ versions'[g][i].key = key
              \/ i \in 1..Len(versions[g]) /\ versions'[g][i] = versions[g][i]
    BY <1>5, <2>1, AddVersionKeeps
  <2>3. Len(versions[x]) \in Nat
    BY <1>5, LengthIsNat
  <2>4. Numbered'
    <3> SUFFICES ASSUME NEW f \in Files, node'[f].there
                 PROVE  node'[f].current \in 1..Len(versions'[f])
      BY DEF Numbered
    <3>1. CASE f = x
      BY <1>1, <1>2, <1>5, <2>2, <2>3, <3>1
    <3>2. CASE f # x
      <4>1. node'[f] = node[f] /\ versions'[f] = versions[f]
        BY <1>2, <2>2, <3>2 DEF Nodes
      <4> QED
        BY <4>1 DEF Shape, TreeOK, Numbered
    <3> QED
      BY <3>1, <3>2
  <2>5. \A g \in Files : \A i \in 1..Len(versions'[g]) :
           \/ versions'[g][i].key = key
           \/ i \in 1..Len(versions[g]) /\ versions'[g][i].key = versions[g][i].key
    BY <2>2
  <2> QED
    BY <1>2, <1>3, <1>4, <2>2, <2>4, <2>5 DEF TreeOK, Follows
<1>6. CASE x \notin Files
  <2>1. versions' = versions
    BY <1>6 DEF Inserted
  <2>2. \A f \in Files : node'[f] = node[f]
    BY <1>2, <1>6 DEF Nodes
  <2>3. Numbered'
    BY <2>1, <2>2 DEF Shape, TreeOK, Numbered
  <2> QED
    BY <1>2, <1>3, <1>4, <2>1, <2>3 DEF TreeOK, Follows, Shape
<1> QED
  BY <1>5, <1>6

LEMMA OtherLabel ==
    \A row, name : name \in Codes =>
       /\ IsRow(Labelled(row, name)) /\ Labelled(row, name).there = TRUE
       /\ Labelled(row, name).label = name
       /\ Labelled(row, name).current = row.current
BY RowFields DEF Labelled

LEMMA OtherCurrent ==
    \A row, v : IsRow(row) =>
       /\ IsRow(Using(row, v)) /\ Using(row, v).there = TRUE
       /\ Using(row, v).label = row.label
       /\ Using(row, v).current = v
BY RowFields DEF Using, IsRow

LEMMA NewCurrentKeeps ==
    ASSUME Shape, NEW f \in Files, node[f].there, NEW code \in Codes,
           NEW key \in Requests \union {Unkeyed}, NewCurrent(f, code, key)
    PROVE  TreeOK' /\ Follows(key)
<1>1. /\ versions' \in [Files -> Seq(VersionSet)]
      /\ Len(versions'[f]) = Len(versions[f]) + 1
      /\ \A g \in Files : g # f => versions'[g] = versions[g]
      /\ \A g \in Files : \A i \in 1..Len(versions'[g]) :
            \/ versions'[g][i].key = key
            \/ i \in 1..Len(versions[g]) /\ versions'[g][i] = versions[g][i]
  BY AddVersionKeeps DEF NewCurrent
<1>2. f \in Nodes
  BY DEF Nodes
<1>3. /\ RowsOK'
      /\ \A y \in Nodes : y # f => node'[y] = node[y]
      /\ node'[f].current = Len(versions[f]) + 1
  <2>1. PICK v : v = Len(versions[f]) + 1
    OBVIOUS
  <2>2. PICK row : row = Using(node[f], v)
    OBVIOUS
  <2>3. RowsOK /\ node' = [node EXCEPT ![f] = row]
    BY <2>1, <2>2 DEF NewCurrent, Shape, TreeOK, RowsOK
  <2>4. IsRow(node[f])
    BY <1>2, IsThere DEF Shape, TreeOK
  <2>5. IsRow(row) /\ row.current = v
    BY <2>2, <2>4, OtherCurrent
  <2>6. RowsOK' /\ \A y \in Nodes : node'[y] = IF y = f THEN row ELSE node[y]
    BY ONLY <1>2, <2>3, <2>5, PutRow
  <2> QED
    BY <1>2, <2>1, <2>5, <2>6
<1>4. Numbered'
  <2> SUFFICES ASSUME NEW g \in Files, node'[g].there
               PROVE  node'[g].current \in 1..Len(versions'[g])
    BY DEF Numbered
  <2>1. CASE g = f
    <3>1. Len(versions[f]) \in Nat
      BY LengthIsNat
    <3> QED
      BY <1>1, <1>3, <2>1, <3>1
  <2>2. CASE g # f
    <3>1. node'[g] = node[g] /\ versions'[g] = versions[g]
      BY <1>1, <1>3, <2>2 DEF Nodes
    <3> QED
      BY <3>1 DEF Shape, TreeOK, Numbered
  <2> QED
    BY <2>1, <2>2
<1>5. used' = used
  BY DEF NewCurrent
<1>6. \A y \in Nodes : node'[y].there => node[y].there /\ y \in used'
  BY <1>3, <1>5 DEF Shape, TreeOK
<1>7. \A g \in Files : \A i \in 1..Len(versions'[g]) :
         \/ versions'[g][i].key = key
         \/ i \in 1..Len(versions[g]) /\ versions'[g][i].key = versions[g][i].key
  BY <1>1
<1> QED
  BY <1>1, <1>3, <1>4, <1>5, <1>6, <1>7 DEF TreeOK, Follows

(* The contents of the versions may change, but nothing else of them.      *)
LEMMA RowsKeep ==
    ASSUME Shape, RowsOK', used' = used,
           versions' \in [Files -> Seq(VersionSet)], NEW key,
           \A y \in Nodes : node'[y].there =>
              /\ node[y].there
              /\ node'[y].current = node[y].current,
           \A f \in Files : node'[f].there =>
              Len(versions'[f]) = Len(versions[f]),
           \A f \in Files : \A i \in 1..Len(versions'[f]) :
              i \in 1..Len(versions[f]) /\ versions'[f][i].key = versions[f][i].key
    PROVE  TreeOK' /\ Follows(key)
<1>1. Numbered'
  <2> SUFFICES ASSUME NEW f \in Files, node'[f].there
               PROVE  node'[f].current \in 1..Len(versions'[f])
    BY DEF Numbered
  <2>1. f \in Nodes
    BY DEF Nodes
  <2>2. node[f].there /\ node'[f].current = node[f].current
    BY <2>1
  <2> QED
    BY <2>2 DEF Shape, TreeOK, Numbered
<1> QED
  BY <1>1 DEF TreeOK, Follows, Shape

LEMMA RemovedKeeps ==
    ASSUME Shape, NEW ids \in SUBSET Nodes, Removed(ids), NEW key
    PROVE  TreeOK' /\ Follows(key)
<1>1. RowsOK'
  BY DEF Shape, TreeOK, RowsOK, Removed, IsRow
<1>2. versions' \in [Files -> Seq(VersionSet)]
  BY DEF Shape, TreeOK, Removed
<1>3. \A y \in Nodes : node'[y].there => y \notin ids /\ node'[y] = node[y]
  BY DEF Removed, Absent
<1>4. \A f \in Files :
         \/ f \in ids /\ versions'[f] = <<>>
         \/ f \notin ids /\ versions'[f] = versions[f]
  BY DEF Removed
<1>5. \A f \in Files : node'[f].there => versions'[f] = versions[f]
  BY <1>3, <1>4 DEF Nodes
<1>6. \A f \in Files : \A i \in 1..Len(versions'[f]) :
         i \in 1..Len(versions[f]) /\ versions'[f][i].key = versions[f][i].key
  BY <1>4
<1>7. used' = used
  BY DEF Removed
<1> QED
  BY <1>1, <1>2, <1>3, <1>5, <1>6, <1>7, RowsKeep

LEMMA ShiftedKeeps ==
    ASSUME Shape, NEW items, NEW p, NEW paths,
           node' = Shifted(node, items, p, paths),
           versions' = versions, used' = used, NEW key
    PROVE  TreeOK' /\ Follows(key)
<1>1. \A y \in Nodes :
         node'[y] = IF node[y].there /\ y \in DOMAIN paths
                    THEN Row(IF y \in items THEN p ELSE node[y].parent, paths[y],
                             node[y].label, node[y].current)
                    ELSE node[y]
  BY DEF Shifted
<1>2. \A y \in Nodes :
         \/ node[y] = Absent /\ ~node[y].there
         \/ IsRow(node[y]) /\ node[y].there = TRUE
  BY IsThere DEF Shape, TreeOK
<1>3. \A y \in Nodes :
         /\ node'[y] = Absent \/ IsRow(node'[y])
         /\ node'[y].there => node[y].there /\ node'[y].current = node[y].current
  <2> TAKE y \in Nodes
  <2>1. CASE node[y].there /\ y \in DOMAIN paths
    <3>1. PICK a : node'[y] = Row(a, paths[y], node[y].label, node[y].current)
      BY <1>1, <2>1
    <3>2. node[y].label \in Codes
      BY <1>2, <2>1 DEF IsRow
    <3> QED
      BY <2>1, <3>1, <3>2, RowFields
  <2>2. CASE ~(node[y].there /\ y \in DOMAIN paths)
    <3>1. node'[y] = node[y]
      BY <1>1, <2>2
    <3> QED
      BY <1>2, <3>1
  <2> QED
    BY <2>1, <2>2
<1>4. RowsOK'
  <2>1. node' = [y \in Nodes |-> node'[y]]
    BY DEF Shifted
  <2> QED
    BY <1>3, <2>1 DEF RowsOK
<1>5. versions' \in [Files -> Seq(VersionSet)]
  BY DEF Shape, TreeOK
<1> QED
  BY <1>3, <1>4, <1>5, RowsKeep

-----------------------------------------------------------------------------
(* The shape of the tree, of what is planned and of what is asked for      *)

LEMMA InitShape == Init => Shape
<1> SUFFICES ASSUME Init PROVE Shape
  OBVIOUS
<1>1. PICK old \in SUBSET Nodes :
         /\ node = [x \in Nodes |->
                      IF x \in old
                      THEN Row(Root, <<>>, <<0, x>>, IF x \in Files THEN 1 ELSE 0)
                      ELSE Absent]
         /\ versions = [f \in Files |->
                          IF f \in old THEN <<Version(<<0, 0>>, Unkeyed)>>
                          ELSE <<>>]
         /\ used = old
  BY TreeAssumption DEF Init
<1>2. <<0, 0>> \in Codes /\ \A x \in Nodes : <<0, x>> \in Codes
  BY DEF Codes
<1>3. \A x \in Nodes : \/ x \in old /\ IsRow(node[x])
                       \/ x \notin old /\ node[x] = Absent /\ ~node[x].there
  <2> TAKE x \in Nodes
  <2>1. CASE x \in old
    BY <1>1, <1>2, <2>1, RowFields
  <2>2. CASE x \notin old
    BY <1>1, <2>2 DEF Absent
  <2> QED
    BY <2>1, <2>2
<1>4. RowsOK
  BY <1>1, <1>3 DEF RowsOK
<1>5. Version(<<0, 0>>, Unkeyed) \in VersionSet
  BY <1>2 DEF Version, VersionSet
<1>6. versions \in [Files -> Seq(VersionSet)]
  BY <1>1, <1>5
<1>10. \A x \in Nodes : node[x].there => x \in used
  <2>1. used = old
    BY <1>1
  <2> QED
    BY <1>3, <2>1
<1>7. Numbered
  <2> SUFFICES ASSUME NEW f \in Files, node[f].there
               PROVE  node[f].current \in 1..Len(versions[f])
    BY DEF Numbered
  <2>0. f \in Nodes
    BY DEF Nodes
  <2>1. f \in old
    BY <1>3, <2>0
  <2>2. node[f].current = 1
    BY <1>1, <2>0, <2>1, RowFields
  <2>3. Len(versions[f]) = 1
    BY <1>1, <2>1
  <2> QED
    BY <2>2, <2>3
<1>8. PlansOK
  BY DEF Init, PlansOK, PlanOK, Idle
<1>9. RequestsOK
  BY DEF Init, RequestsOK
<1> QED
  BY <1>4, <1>6, <1>7, <1>8, <1>9, <1>10 DEF Shape, TreeOK, Init

(* The transactions that write the tree.                                   *)
Write ==
    \/ \E e \in Editors : Commit(e)
    \/ \E x \in Nodes : Rename(x)
    \/ \E f \in Files : UseVersion(f)
    \/ \E r \in Requests : Apply(r)

(* A version aside, too, leaves the rows alone.                            *)
LEMMA AsideKeeps ==
    ASSUME Shape, NEW f \in Files, CreateVersion(f)
    PROVE  TreeOK' /\ Follows(Unkeyed) /\ node' = node /\ Current(node, versions)' = Current(node, versions)
<1>0. <<revision, Len(versions[f]) + 1>> \in Codes
  <2>1. revision \in Nat /\ Len(versions[f]) + 1 \in Nat
    BY LengthIsNat DEF Shape, TreeOK
  <2> QED
    BY <2>1 DEF Codes
<1>1. PICK code \in Codes : code = <<revision, Len(versions[f]) + 1>>
  BY <1>0
<1>2. AddVersion(f, code, Unkeyed) /\ node' = node /\ used' = used
  BY <1>1 DEF CreateVersion
<1>3. /\ versions' \in [Files -> Seq(VersionSet)]
      /\ \A g \in Files :
            /\ 1..Len(versions[g]) \subseteq 1..Len(versions'[g])
            /\ \A i \in 1..Len(versions[g]) : versions'[g][i] = versions[g][i]
      /\ \A g \in Files : \A i \in 1..Len(versions'[g]) :
            \/ versions'[g][i].key = Unkeyed
            \/ i \in 1..Len(versions[g]) /\ versions'[g][i] = versions[g][i]
  BY <1>2, AddVersionKeeps
<1>4. Numbered'
  BY <1>2, <1>3 DEF Shape, TreeOK, Numbered
<1>5. Current(node, versions)' = Current(node, versions)
  BY <1>2, <1>3 DEF Shape, TreeOK, Numbered, Current
<1>6. RowsOK'
  BY <1>2 DEF Shape, TreeOK, RowsOK
<1>7. Follows(Unkeyed)
  BY <1>2, <1>3 DEF Follows
<1> QED
  BY <1>2, <1>3, <1>4, <1>5, <1>6, <1>7 DEF TreeOK, Shape

(* Which of the variables a step may write.                                *)
LEMMA Kinds ==
    ASSUME [Next]_vars
    PROVE  /\ \/ Write
              \/ \E f \in Files : CreateVersion(f)
              \/ UNCHANGED <<node, versions, used, revision>>
           /\ \/ UNCHANGED editor
              \/ \E e \in Editors :
                    Decide(e) \/ Reread(e) \/ editor' = [editor EXCEPT ![e] = Idle]
           /\ UNCHANGED request \/ \E r \in Requests : Prepare(r)
           /\ UNCHANGED applied \/ \E r \in Requests : Apply(r)
           /\ UNCHANGED repeated \/ \E r \in Requests : Repeat(r)
           /\ \/ UNCHANGED packer
              \/ ReadRevision \/ ReadNodes \/ ReadVersions \/ CheckRevision
              \/ Record \/ EndPacking
<1> DEFINE Tree == UNCHANGED <<node, versions, used, revision>>
           Reading == \E e \in Editors :
                    Decide(e) \/ Reread(e) \/ editor' = [editor EXCEPT ![e] = Idle]
           Pack == \/ ReadRevision \/ ReadNodes \/ ReadVersions \/ CheckRevision
                   \/ Record \/ EndPacking
<1>1. ASSUME NEW e \in Editors, Decide(e) \/ Reread(e)
      PROVE  Reading /\ Tree /\ UNCHANGED <<request, applied, repeated, packer>>
  BY <1>1 DEF Decide, DecideCreate, DecideMove, DecideUpdate, DecideDelete,
              DecideImport, Decided, Reread, tree, changes
<1>2. ASSUME NEW e \in Editors, Commit(e)
      PROVE  Write /\ Reading /\ UNCHANGED <<request, applied, repeated, packer>>
  BY <1>2 DEF Commit, Write, changes
<1>3. ASSUME NEW e \in Editors, GiveUp(e)
      PROVE  Tree /\ Reading /\ UNCHANGED <<request, applied, repeated, packer>>
  BY <1>3 DEF GiveUp, tree, changes
<1>4. ASSUME NEW x \in Nodes, Rename(x)
      PROVE  Write /\ UNCHANGED <<editor, request, applied, repeated, packer>>
  BY <1>4 DEF Rename, Write, changes, editors
<1>5. ASSUME NEW f \in Files, CreateVersion(f)
      PROVE  UNCHANGED <<editor, request, applied, repeated, packer>>
  BY <1>5 DEF CreateVersion, changes, editors
<1>6. ASSUME NEW f \in Files, UseVersion(f)
      PROVE  Write /\ UNCHANGED <<editor, request, applied, repeated, packer>>
  BY <1>6 DEF UseVersion, Write, changes, editors
<1>7. ASSUME NEW r \in Requests, Prepare(r)
      PROVE  Tree /\ UNCHANGED <<editor, applied, repeated, packer>>
  BY <1>7 DEF Prepare, PrepareProject, PrepareItem, PrepareFile, PrepareVersion,
              Preparing, tree, editors
<1>8. ASSUME NEW r \in Requests, Apply(r)
      PROVE  Write /\ UNCHANGED <<editor, request, repeated, packer>>
  BY <1>8 DEF Apply, Write
<1>9. ASSUME NEW r \in Requests, Repeat(r)
      PROVE  Tree /\ UNCHANGED <<editor, request, applied, packer>>
  BY <1>9 DEF Repeat, tree, editors
<1>10. ASSUME Pack
       PROVE  Tree /\ UNCHANGED <<editor, request, applied, repeated>>
  BY <1>10 DEF ReadRevision, ReadNodes, ReadVersions, CheckRevision, Record,
               EndPacking, Packing, tree, editors, changes
<1>11. ASSUME UNCHANGED vars
       PROVE  Tree /\ UNCHANGED <<editor, request, applied, repeated, packer>>
  BY <1>11 DEF vars
<1> HIDE DEF Tree, Reading, Pack
<1>12. \/ Write \/ Tree
       \/ \E f \in Files : CreateVersion(f)
  BY <1>1, <1>2, <1>3, <1>4, <1>5, <1>6, <1>7, <1>8, <1>9, <1>10, <1>11
     DEF Next, Pack
<1>13. UNCHANGED editor \/ Reading
  BY <1>1, <1>2, <1>3, <1>4, <1>5, <1>6, <1>7, <1>8, <1>9, <1>10, <1>11
     DEF Next, Pack
<1>14. UNCHANGED request \/ \E r \in Requests : Prepare(r)
  BY <1>1, <1>2, <1>3, <1>4, <1>5, <1>6, <1>8, <1>9, <1>10, <1>11
     DEF Next, Pack
<1>15. UNCHANGED applied \/ \E r \in Requests : Apply(r)
  BY <1>1, <1>2, <1>3, <1>4, <1>5, <1>6, <1>7, <1>9, <1>10, <1>11
     DEF Next, Pack
<1>16. UNCHANGED repeated \/ \E r \in Requests : Repeat(r)
  BY <1>1, <1>2, <1>3, <1>4, <1>5, <1>6, <1>7, <1>8, <1>10, <1>11
     DEF Next, Pack
<1>17. UNCHANGED packer \/ Pack
  BY <1>1, <1>2, <1>3, <1>4, <1>5, <1>6, <1>7, <1>8, <1>9, <1>11 DEF Next, Pack
<1> QED
  BY <1>12, <1>13, <1>14, <1>15, <1>16, <1>17 DEF Tree, Reading, Pack

(* A version bears the key of a change set only when that was carried out.  *)
Keyed ==
    \A f \in Files : \A i \in 1..Len(versions[f]) :
       versions[f][i].key \in Requests => versions[f][i].key \in applied

(* What a transaction leaves behind.                                       *)
Outcome ==
    /\ TreeOK'
    /\ applied \subseteq applied'
    /\ \E key : Follows(key) /\ (key \in Requests => key \in applied')

(* One row gets another label.                                             *)
LEMMA RelabelledKeeps ==
    ASSUME Shape, NEW x \in Nodes, node[x].there, NEW name \in Codes, NEW key,
           node' = [node EXCEPT ![x] = Labelled(@, name)], used' = used,
           versions' \in [Files -> Seq(VersionSet)],
           \A f \in Files :
              /\ Len(versions'[f]) = Len(versions[f])
              /\ \A i \in 1..Len(versions[f]) : versions'[f][i].key = versions[f][i].key
    PROVE  TreeOK' /\ Follows(key)
<1>1. PICK row : row = Labelled(node[x], name)
  OBVIOUS
<1>2. IsRow(row) /\ row.current = node[x].current
  BY <1>1, OtherLabel
<1>3. RowsOK /\ node' = [node EXCEPT ![x] = row]
  BY <1>1 DEF Shape, TreeOK, RowsOK
<1>4. RowsOK' /\ \A y \in Nodes : node'[y] = IF y = x THEN row ELSE node[y]
  BY ONLY x \in Nodes, <1>2, <1>3, PutRow
<1>5. \A y \in Nodes : node'[y].there =>
         node[y].there /\ node'[y].current = node[y].current
  BY <1>2, <1>4
<1>6. \A f \in Files : \A i \in 1..Len(versions'[f]) :
         i \in 1..Len(versions[f]) /\ versions'[f][i].key = versions[f][i].key
  OBVIOUS
<1> QED
  BY <1>4, <1>5, <1>6, RowsKeep

(* A directory and the file in it.                                         *)
LEMMA ImportKeeps ==
    ASSUME Shape, NEW e \in Editors, CommitImport(e)
    PROVE  TreeOK' /\ Follows(Unkeyed)
<1>1. PICK d \in Dirs : d = editor[e].dir
  BY DEF CommitImport, Shape, PlansOK, PlanOK
<1>2. PICK f \in Files : f = editor[e].node
  BY DEF CommitImport, Shape, PlansOK, PlanOK
<1>3. d \in Nodes /\ f \in Nodes /\ d # f /\ d \notin Files
  BY NamesAssumption DEF Nodes
<1>4. PICK name \in Codes : name = New
  BY NewIsCode DEF Shape
<1>5. PICK dir : dir = Row(editor[e].parent, editor[e].path, New, 0)
  OBVIOUS
<1>6. PICK row : row = Row(d, Append(editor[e].path, d), New, 1)
  OBVIOUS
<1>7. IsRow(dir) /\ IsRow(row) /\ row.current = 1
  BY <1>4, <1>5, <1>6, RowFields
<1>8. /\ node' = [node EXCEPT ![d] = dir, ![f] = row]
      /\ AddVersion(f, name, Unkeyed)
      /\ d \notin used /\ f \notin used /\ used' = used \union {d, f}
  BY <1>1, <1>2, <1>4, <1>5, <1>6 DEF CommitImport
<1>9. RowsOK
  BY DEF Shape, TreeOK
<1>10. /\ node' = [y \in Nodes |-> node'[y]]
       /\ \A y \in Nodes :
             node'[y] = IF y = f THEN row ELSE IF y = d THEN dir ELSE node[y]
  BY <1>3, <1>8, <1>9 DEF RowsOK
<1>11. RowsOK'
  BY <1>7, <1>9, <1>10 DEF RowsOK
<1>12. /\ versions' \in [Files -> Seq(VersionSet)]
       /\ Len(versions'[f]) = Len(versions[f]) + 1
       /\ \A g \in Files : g # f => versions'[g] = versions[g]
       /\ \A g \in Files : \A i \in 1..Len(versions'[g]) :
             \/ versions'[g][i].key = Unkeyed
             \/ i \in 1..Len(versions[g]) /\ versions'[g][i] = versions[g][i]
  BY <1>8, AddVersionKeeps
<1>13. Numbered'
  <2> SUFFICES ASSUME NEW g \in Files, node'[g].there
               PROVE  node'[g].current \in 1..Len(versions'[g])
    BY DEF Numbered
  <2>1. CASE g = f
    <3>1. Len(versions[f]) \in Nat
      BY LengthIsNat
    <3> QED
      BY <1>3, <1>7, <1>10, <1>12, <2>1, <3>1
  <2>2. CASE g # f
    <3>1. node'[g] = node[g] /\ versions'[g] = versions[g]
      BY <1>3, <1>10, <1>12, <2>2 DEF Nodes
    <3> QED
      BY <3>1 DEF Shape, TreeOK, Numbered
  <2> QED
    BY <2>1, <2>2
<1>14. \A y \in Nodes : node'[y].there =>
          y \in used' /\ (node[y].there \/ y \notin used)
  BY <1>8, <1>10 DEF Shape, TreeOK
<1>15. \A g \in Files : \A i \in 1..Len(versions'[g]) :
          \/ versions'[g][i].key = Unkeyed
          \/ i \in 1..Len(versions[g]) /\ versions'[g][i].key = versions[g][i].key
  BY <1>12
<1> QED
  BY <1>8, <1>11, <1>12, <1>13, <1>14, <1>15 DEF TreeOK, Follows

LEMMA CommitKeeps ==
    ASSUME Shape, NEW e \in Editors, Commit(e)
    PROVE  Outcome
<1>1. applied' = applied /\ revision \in Nat
  BY DEF Commit, Shape, changes
<1>2. PICK name \in Codes : name = New
  BY <1>1, NewIsCode
<1>3. SUFFICES TreeOK' /\ Follows(Unkeyed)
  BY <1>1, NamesAssumption DEF Outcome
<1>4. CASE CommitCreate(e)
  <2>1. PICK typed \in Codes :
           Inserted(editor[e].node, editor[e].parent, editor[e].path,
                    typed, name, Unkeyed)
    BY <1>1, <1>2, <1>4, TypedIsCode DEF CommitCreate
  <2>2. \E x \in Nodes : \E p, path : Inserted(x, p, path, typed, name, Unkeyed)
    BY <1>4, <2>1 DEF CommitCreate, Shape, PlansOK, PlanOK
  <2> QED
    BY <2>2, InsertedKeeps
<1>5. CASE CommitMove(e)
  <2>1. \E items, p, paths : node' = Shifted(node, items, p, paths)
    BY <1>5 DEF CommitMove
  <2>2. versions' = versions /\ used' = used
    BY <1>5 DEF CommitMove
  <2> QED
    BY <2>1, <2>2, ShiftedKeeps
<1>6. CASE CommitDelete(e)
  <2>1. \E ids \in SUBSET Nodes : Removed(ids)
    BY <1>6 DEF CommitDelete, Shape, PlansOK, PlanOK
  <2> QED
    BY <2>1, RemovedKeeps
<1>7. CASE CommitImport(e)
  BY <1>7, ImportKeeps
<1>8. CASE CommitOverwrite(e)
  <2>1. PICK f \in Files : f = editor[e].node
    BY <1>8 DEF CommitOverwrite, Shape, PlansOK, PlanOK
  <2>2. CASE node[f].there /\ NewCurrent(f, name, Unkeyed)
    BY <2>2, NewCurrentKeeps
  <2>3. CASE UNCHANGED tree
    <3>1. TreeOK'
      BY <2>3 DEF tree, Shape, TreeOK, RowsOK, Numbered
    <3> QED
      BY <2>3, <3>1 DEF Follows, tree
  <2> QED
    BY <1>2, <1>8, <2>1, <2>2, <2>3 DEF CommitOverwrite
<1>9. CASE CommitUpdate(e)
  <2>1. PICK f \in Files : f = editor[e].node
    BY <1>9 DEF CommitUpdate, Shape, PlansOK, PlanOK
  <2>2. PICK typed \in Codes :
           /\ node' = [node EXCEPT ![f] =
                 Labelled(@, IF editor[e].sends = "name" THEN typed ELSE editor[e].label)]
           /\ versions' = [versions EXCEPT ![f][editor[e].current] =
                 Version(IF editor[e].sends = "code" THEN typed ELSE editor[e].code,
                         @.key)]
    BY <1>1, <1>9, <2>1, TypedIsCode DEF CommitUpdate
  <2>3. editor[e].label \in Codes /\ editor[e].code \in Codes
    BY <1>9 DEF CommitUpdate, Shape, PlansOK, PlanOK
  <2>14. PICK n \in Codes :
           n = IF editor[e].sends = "name" THEN typed ELSE editor[e].label
    BY <2>3
  <2>15. PICK c \in Codes :
           c = IF editor[e].sends = "code" THEN typed ELSE editor[e].code
    BY <2>3
  <2>4. PICK v : v = editor[e].current
    OBVIOUS
  <2>5. /\ node[f].there
        /\ node' = [node EXCEPT ![f] = Labelled(@, n)]
        /\ versions' = [versions EXCEPT ![f][v] = Version(c, @.key)]
        /\ used' = used
    BY <1>9, <2>1, <2>2, <2>14, <2>15, <2>4 DEF CommitUpdate
  <2>6. versions \in [Files -> Seq(VersionSet)]
    BY DEF Shape, TreeOK
  <2>7. versions[f] \in Seq(VersionSet)
    BY <2>6
  <2>8. PICK w : w = [versions[f] EXCEPT ![v] = Version(c, @.key)]
    OBVIOUS
  <2>9. /\ w \in Seq(VersionSet) /\ Len(w) = Len(versions[f])
        /\ \A i \in 1..Len(versions[f]) : w[i].key = versions[f][i].key
    <3>1. PICK k \in Nat : k = Len(versions[f]) /\ versions[f] \in [1..k -> VersionSet]
      BY <2>7
    <3>2. \A u \in VersionSet : /\ Version(c, u.key) \in VersionSet
                               /\ Version(c, u.key).key = u.key
      BY DEF Version, VersionSet
    <3>3. DOMAIN w = 1..k /\ w = [i \in 1..k |-> w[i]]
      BY <2>8, <3>1
    <3>4. \A i \in 1..k :
             w[i] = IF i = v THEN Version(c, versions[f][i].key) ELSE versions[f][i]
      BY <2>8, <3>1
    <3>5. w \in [1..k -> VersionSet]
      BY <3>1, <3>2, <3>3, <3>4
    <3>6. \A i \in 1..k : w[i].key = versions[f][i].key
      <4>1. \A i \in 1..k : versions[f][i] \in VersionSet
        BY <3>1
      <4> QED
        BY <3>2, <3>4, <4>1
    <3>7. w \in Seq(VersionSet) /\ Len(w) = k
      BY <3>5
    <3> QED
      BY <3>1, <3>6, <3>7
  <2>13. /\ versions' \in [Files -> Seq(VersionSet)]
         /\ \A g \in Files :
               /\ Len(versions'[g]) = Len(versions[g])
               /\ \A i \in 1..Len(versions[g]) :
                     versions'[g][i].key = versions[g][i].key
    <3>1. versions' = [versions EXCEPT ![f] = w]
      BY <2>5, <2>6, <2>8
    <3> QED
      BY <2>6, <2>9, <3>1
  <2>10. f \in Nodes
    BY DEF Nodes
  <2> QED
    BY <2>5, <2>10, <2>13, RelabelledKeeps
<1> QED
  BY <1>4, <1>5, <1>6, <1>7, <1>8, <1>9 DEF Commit

LEMMA EditKeeps ==
    ASSUME Shape, \/ \E x \in Nodes : Rename(x)
                  \/ \E f \in Files : UseVersion(f)
    PROVE  Outcome
<1>1. Unkeyed \notin Requests
  BY NamesAssumption
<1>2. ASSUME NEW x \in Nodes, Rename(x)
      PROVE  Outcome
  <2>1. PICK name \in Codes : node' = [node EXCEPT ![x] = Labelled(@, name)]
    BY <1>2, TypedIsCode DEF Rename, Shape
  <2>2. node[x].there /\ used' = used /\ versions' = versions /\ applied' = applied
    BY <1>2 DEF Rename, changes
  <2>3. versions' \in [Files -> Seq(VersionSet)]
    BY <2>2 DEF Shape, TreeOK
  <2>4. TreeOK' /\ Follows(Unkeyed)
    BY <2>1, <2>2, <2>3, RelabelledKeeps
  <2> QED
    BY <1>1, <2>2, <2>4 DEF Outcome
<1>3. ASSUME NEW f \in Files, UseVersion(f)
      PROVE  Outcome
  <2>1. PICK v \in 1..Len(versions[f]) : node' = [node EXCEPT ![f] = Using(@, v)]
    BY <1>3 DEF UseVersion
  <2>2. PICK row : row = Using(node[f], v)
    OBVIOUS
  <2>3. /\ node[f].there /\ used' = used /\ versions' = versions
        /\ applied' = applied
    BY <1>3 DEF UseVersion, changes
  <2>4. f \in Nodes
    BY DEF Nodes
  <2>5. RowsOK /\ node' = [node EXCEPT ![f] = row]
    BY <2>1, <2>2 DEF Shape, TreeOK, RowsOK
  <2>6. IsRow(node[f])
    BY <2>3, <2>4, IsThere DEF Shape, TreeOK
  <2>7. IsRow(row) /\ row.current = v
    BY <2>2, <2>6, OtherCurrent
  <2>8. RowsOK' /\ \A y \in Nodes : node'[y] = IF y = f THEN row ELSE node[y]
    BY ONLY <2>4, <2>5, <2>7, PutRow
  <2>9. \A y \in Nodes : node'[y].there => node[y].there
    BY <2>3, <2>7, <2>8
  <2>10. Numbered'
    <3> SUFFICES ASSUME NEW g \in Files, node'[g].there
                 PROVE  node'[g].current \in 1..Len(versions[g])
      BY <2>3 DEF Numbered
    <3>1. CASE g = f
      BY <2>4, <2>7, <2>8, <3>1
    <3>2. CASE g # f
      <4>1. node'[g] = node[g]
        BY <2>8, <3>2 DEF Nodes
      <4> QED
        BY <4>1 DEF Shape, TreeOK, Numbered
    <3> QED
      BY <3>1, <3>2
  <2>11. TreeOK'
    BY <2>3, <2>8, <2>9, <2>10 DEF Shape, TreeOK
  <2>12. Follows(Unkeyed)
    BY <2>3, <2>9 DEF Follows
  <2> QED
    BY <1>1, <2>3, <2>11, <2>12 DEF Outcome
<1> QED
  BY <1>2, <1>3

(* What is asked for is complete when it is carried out.                   *)
LEMMA ReadyIsItem ==
    ASSUME Shape, NEW r \in Requests, request[r].step = "ready"
    PROVE  IsItem(request[r]) /\ request[r] # NoRequest
BY DEF Shape, RequestsOK, NoRequest

LEMMA ApplyKeeps ==
    ASSUME Shape, NEW r \in Requests, Apply(r)
    PROVE  Outcome
<1>1. PICK f \in Files : f = request[r].node
  BY ReadyIsItem DEF Apply, IsItem
<1>2. applied' = applied \union {r}
  BY DEF Apply
<1>3. PICK name \in Codes : name = Own(r)
  BY OwnIsCode
<1>4. SUFFICES TreeOK' /\ Follows(r)
  BY <1>2 DEF Outcome
<1>5. f \in Nodes
  BY DEF Nodes
<1>6. CASE \E p, path : Inserted(f, p, path, name, name, r)
  BY <1>5, <1>6, InsertedKeeps
<1>7. CASE node[f].there /\ NewCurrent(f, name, r)
  BY <1>7, NewCurrentKeeps
<1>8. CASE /\ node[f].there /\ UNCHANGED <<versions, used>>
           /\ node' = [node EXCEPT ![f] = Labelled(@, name)]
  <2>1. versions' \in [Files -> Seq(VersionSet)]
    BY <1>8 DEF Shape, TreeOK
  <2> QED
    BY <1>5, <1>8, <2>1, RelabelledKeeps
<1>9. CASE Removed({f})
  <2>1. \E ids \in SUBSET Nodes : Removed(ids)
    BY <1>5, <1>9
  <2> QED
    BY <2>1, RemovedKeeps
<1> QED
  BY <1>1, <1>3, <1>6, <1>7, <1>8, <1>9 DEF Apply, Carry, AsExpected, AtPath

(* Every write raises the revision; every other step leaves it, the rows    *)
(* and the contents as they are.                                            *)
Steady == revision' = revision /\ node' = node /\ Source' = Source

LEMMA StepOutcome ==
    ASSUME Shape, [Next]_vars
    PROVE  Outcome /\ (Steady \/ revision' = revision + 1)
<1>1. CASE Write
  <2>1. Outcome
    BY <1>1, CommitKeeps, EditKeeps, ApplyKeeps DEF Write
  <2>2. revision' = revision + 1
    BY <1>1 DEF Write, Commit, Rename, UseVersion, Apply, Bumped
  <2> QED
    BY <2>1, <2>2
<1>2. CASE ~Write /\ UNCHANGED <<node, versions, used, revision>>
  <2>1. TreeOK'
    BY <1>2 DEF Shape, TreeOK, RowsOK, Numbered
  <2>2. Follows(Unkeyed)
    BY <1>2 DEF Follows
  <2>3. applied' = applied
    BY <1>2, Kinds DEF Write
  <2>4. Outcome
    BY <2>1, <2>2, <2>3, NamesAssumption DEF Outcome
  <2>5. Steady
    BY <1>2 DEF Steady, Source, Current
  <2> QED
    BY <2>4, <2>5
<1>3. ASSUME NEW f \in Files, CreateVersion(f)
      PROVE  Outcome /\ Steady
  <2>1. /\ TreeOK' /\ Follows(Unkeyed) /\ node' = node
        /\ Current(node, versions)' = Current(node, versions)
    BY <1>3, AsideKeeps
  <2>2. revision' = revision /\ applied' = applied
    BY <1>3 DEF CreateVersion, changes
  <2>3. Outcome
    BY <2>1, <2>2, NamesAssumption DEF Outcome
  <2>4. Steady
    BY <2>1, <2>2 DEF Steady, Source
  <2> QED
    BY <2>3, <2>4
<1> QED
  BY <1>1, <1>2, <1>3, Kinds

-----------------------------------------------------------------------------
(* The induction                                                           *)

(* Edits are planned on nodes, labels and contents that exist.             *)
LEMMA PlansStay ==
    ASSUME Shape, [Next]_vars
    PROVE  PlansOK'
<1>0. /\ editor = [e \in Editors |-> editor[e]]
      /\ \A e \in Editors : PlanOK(editor[e])
  BY DEF Shape, PlansOK
<1>1. ASSUME NEW e \in Editors, NEW plan, editor' = [editor EXCEPT ![e] = plan],
             PlanOK(plan)
      PROVE  PlansOK'
  <2>1. editor' = [i \in Editors |-> editor'[i]]
    BY <1>0, <1>1
  <2>2. ASSUME NEW i \in Editors
        PROVE  PlanOK(editor'[i])
    <3>1. editor'[i] = IF i = e THEN plan ELSE editor[i]
      BY <1>0, <1>1
    <3>2. PlanOK(editor[i])
      BY <1>0
    <3> QED
      BY <1>1, <3>1, <3>2
  <2> QED
    BY <2>1, <2>2 DEF PlansOK, PlanOK
<1>2. ASSUME NEW e \in Editors, editor' = [editor EXCEPT ![e] = Idle]
      PROVE  PlansOK'
  BY <1>1, <1>2 DEF Idle, PlanOK
<1>3. CASE UNCHANGED editor
  BY <1>0, <1>3 DEF PlansOK, PlanOK
<1>4. ASSUME NEW e \in Editors, Decide(e)
      PROVE  PlansOK'
  <2>1. ASSUME NEW plan, Decided(e, plan)
        PROVE  editor' = [editor EXCEPT ![e] = plan]
    BY <2>1 DEF Decided
  <2>2. ASSUME NEW x \in Nodes, NEW p \in Places, DecideCreate(e, x, p)
        PROVE  PlansOK'
    <3>1. PICK path : path = ChildPath(node, p)
      OBVIOUS
    <3>2. PICK plan : plan = [op |-> "create", node |-> x, parent |-> p, path |-> path]
      OBVIOUS
    <3>3. Decided(e, plan)
      BY <2>2, <3>1, <3>2 DEF DecideCreate
    <3>4. PlanOK(plan)
      BY <3>2 DEF PlanOK
    <3> QED
      BY <1>1, <2>1, <3>3, <3>4
  <2>3. ASSUME NEW x \in Nodes, NEW p \in Places, DecideMove(e, x, p)
        PROVE  PlansOK'
    <3>1. PICK items, path, plan :
             /\ plan = [op |-> "move", items |-> items, parent |-> p, path |-> path]
             /\ Decided(e, plan)
      BY <2>3 DEF DecideMove
    <3>2. PlanOK(plan)
      BY <3>1 DEF PlanOK
    <3> QED
      BY <1>1, <2>1, <3>1, <3>2
  <2>4. ASSUME NEW f \in Files, DecideUpdate(e, f)
        PROVE  PlansOK'
    <3>1. f \in Nodes /\ node[f].there
      BY <2>4 DEF DecideUpdate, Nodes
    <3>2. node[f].label \in Codes
      BY <3>1, IsThere DEF Shape, TreeOK, IsRow
    <3>3. versions[f][node[f].current].code \in Codes
      <4>1. /\ node[f].current \in 1..Len(versions[f])
            /\ versions[f] \in Seq(VersionSet)
        BY <3>1 DEF Shape, TreeOK, Numbered
      <4>2. versions[f][node[f].current] \in VersionSet
        BY <4>1
      <4> QED
        BY <4>2 DEF VersionSet
    <3>4. PICK label \in Codes : label = node[f].label
      BY <3>2
    <3>5. PICK code \in Codes : code = versions[f][node[f].current].code
      BY <3>3
    <3>6. PICK sends, plan :
             /\ plan = [op |-> "update", node |-> f, sends |-> sends,
                        label |-> label, code |-> code]
             /\ Decided(e, plan)
      BY <2>4, <3>4, <3>5 DEF DecideUpdate
    <3>7. PlanOK(plan)
      BY <3>6 DEF PlanOK
    <3> QED
      BY <1>1, <2>1, <3>6, <3>7
  <2>5. ASSUME NEW x \in Nodes, DecideDelete(e, x)
        PROVE  PlansOK'
    <3>1. PICK ids \in SUBSET Nodes : ids = Below(x) \union {x}
      BY DEF Below
    <3>2. PICK plan : plan = [op |-> "delete", ids |-> ids]
      OBVIOUS
    <3>3. Decided(e, plan)
      BY <2>5, <3>1, <3>2 DEF DecideDelete
    <3>4. PlanOK(plan)
      BY <3>2 DEF PlanOK
    <3> QED
      BY <1>1, <2>1, <3>3, <3>4
  <2>6. ASSUME NEW d \in Dirs, NEW f \in Files, NEW p \in Places,
               DecideImport(e, d, f, p)
        PROVE  PlansOK'
    <3>1. PICK path, number :
             \/ Decided(e, [op |-> "overwrite", node |-> f, number |-> number])
             \/ Decided(e, [op |-> "import", dir |-> d, node |-> f, parent |-> p,
                            path |-> path])
      BY <2>6 DEF DecideImport
    <3>2. PICK plan :
             /\ \/ plan = [op |-> "overwrite", node |-> f, number |-> number]
                \/ plan = [op |-> "import", dir |-> d, node |-> f, parent |-> p,
                           path |-> path]
             /\ Decided(e, plan)
      BY <3>1
    <3>3. PlanOK(plan)
      BY <3>2 DEF PlanOK
    <3> QED
      BY <1>1, <2>1, <3>2, <3>3
  <2> QED
    BY <1>4, <2>2, <2>3, <2>4, <2>5, <2>6 DEF Decide
<1>5. ASSUME NEW e \in Editors, Reread(e)
      PROVE  PlansOK'
  <2>1. PICK plan : plan = editor[e] /\ PlanOK(plan)
    BY <1>0
  <2>2. CASE plan.op = "move"
    <3>1. PICK items, parent, paths, moving :
             /\ moving = [op |-> "moving", items |-> items, parent |-> parent,
                          paths |-> paths]
             /\ editor' = [editor EXCEPT ![e] = moving]
      BY <1>5, <2>1, <2>2 DEF Reread
    <3>2. PlanOK(moving)
      BY <3>1 DEF PlanOK
    <3> QED
      BY <1>1, <3>1, <3>2
  <2>3. CASE plan.op = "update"
    <3>1. PICK current : current = node[plan.node].current
      OBVIOUS
    <3>2. PICK updating :
             updating = [op |-> "updating", node |-> plan.node, sends |-> plan.sends,
                         label |-> plan.label, code |-> plan.code,
                         current |-> current]
      OBVIOUS
    <3>3. editor' = [editor EXCEPT ![e] = updating]
      BY <1>5, <2>1, <2>3, <3>1, <3>2 DEF Reread
    <3>4. PlanOK(updating)
      BY <2>1, <2>3, <3>2 DEF PlanOK
    <3> QED
      BY <1>1, <3>3, <3>4
  <2> QED
    BY <1>5, <2>1, <2>2, <2>3 DEF Reread
<1> QED
  BY <1>2, <1>3, <1>4, <1>5, Kinds

(* What a change set saw is the project at its base revision.              *)
ItemInv(item) ==
    /\ item.base \in Nat /\ item.base <= revision
    /\ item.base = revision => item.saw = Source
    /\ item.step # "tree" /\ item.op = "delete" => item.node \in used

RequestInv ==
    /\ \A r \in Requests : request[r] = NoRequest \/ ItemInv(request[r])
    /\ \A r \in repeated : request[r].step = "ready"

(* No step takes it back.                                                  *)
LEMMA ItemStays ==
    ASSUME Shape, [Next]_vars, NEW item, ItemInv(item)
    PROVE  ItemInv(item)'
<1>1. /\ used \subseteq used' /\ revision \in Nat
      /\ Steady \/ revision' = revision + 1
  BY StepOutcome DEF Outcome, Follows, Shape
<1> QED
  BY <1>1 DEF ItemInv, Steady

LEMMA PreparedStays ==
    ASSUME Shape, RequestInv, NEW r \in Requests, Prepare(r), [Next]_vars
    PROVE  \E item : /\ request' = [request EXCEPT ![r] = item]
                     /\ item.step = "tree" \/ IsItem(item)
                     /\ ItemInv(item)'
<1>1. /\ UNCHANGED <<node, versions, used, revision>>
      /\ revision \in Nat
  BY DEF Prepare, PrepareProject, PrepareItem, PrepareFile, PrepareVersion,
         Preparing, tree, Shape
<1>2. Source' = Source
  BY <1>1 DEF Source, Current
<1>3. PICK asked : asked = request[r] /\ (asked = NoRequest \/ ItemInv(asked))
                   /\ (asked = NoRequest \/ asked.step = "tree" \/ IsItem(asked))
  BY DEF RequestInv, Shape, RequestsOK
<1>4. NoRequest.step = "none"
  BY DEF NoRequest
<1>5. CASE PrepareProject(r)
  <2>1. PICK saw : saw = Source
    OBVIOUS
  <2>2. PICK item : item = [step |-> "tree", base |-> revision, saw |-> saw]
    OBVIOUS
  <2>3. request' = [request EXCEPT ![r] = item]
    BY <1>5, <2>1, <2>2 DEF PrepareProject, Preparing
  <2>4. item.step = "tree" /\ item.base = revision /\ item.saw = saw
    BY <2>2
  <2>5. ItemInv(item)
    BY <1>1, <2>1, <2>4 DEF ItemInv
  <2>6. ItemInv(item)'
    BY <2>5, ItemStays
  <2> QED
    BY <2>3, <2>4, <2>6
<1>6. ASSUME NEW op \in Operations, NEW f \in Files, NEW p \in Places,
             PrepareItem(r, op, f, p)
      PROVE  \E item : /\ request' = [request EXCEPT ![r] = item]
                       /\ item.step = "tree" \/ IsItem(item)
                       /\ ItemInv(item)'
  <2>1. PICK way, label : way = Way(node, p)
                          /\ label = IF op = "create" THEN Own(r) ELSE node[f].label
    OBVIOUS
  <2>2. PICK step \in {"file", "ready"} :
           step = IF op = "create" THEN "ready" ELSE "file"
    OBVIOUS
  <2>3. PICK item : item = [step |-> step, op |-> op, node |-> f, parent |-> p,
                            way |-> way, label |-> label, base |-> asked.base,
                            saw |-> asked.saw, current |-> 0, code |-> <<0, 0>>]
    OBVIOUS
  <2>4. request' = [request EXCEPT ![r] = item]
    BY <1>3, <1>6, <2>1, <2>2, <2>3 DEF PrepareItem, Preparing
  <2>5. IsItem(item)
    BY <2>2, <2>3 DEF IsItem
  <2>6. /\ item.base = asked.base /\ item.saw = asked.saw
        /\ item.op = op /\ item.node = f
    BY <2>3
  <2>7. ItemInv(asked)
    BY <1>3, <1>4, <1>6 DEF PrepareItem
  <2>8. op = "delete" => f \in used
    <3>1. op = "delete" => node[f].there
      BY <1>6 DEF PrepareItem
    <3> QED
      BY <3>1 DEF Shape, TreeOK, Nodes
  <2>9. ItemInv(item)
    BY <2>6, <2>7, <2>8 DEF ItemInv
  <2>10. ItemInv(item)'
    BY <2>9, ItemStays
  <2> QED
    BY <2>4, <2>5, <2>10
<1>7. ASSUME NEW item, NEW step \in {"version", "ready"}, NEW current, NEW code,
             asked.step \in {"file", "version"},
             item = [step |-> step, op |-> asked.op, node |-> asked.node,
                     parent |-> asked.parent, way |-> asked.way,
                     label |-> asked.label, base |-> asked.base,
                     saw |-> asked.saw, current |-> current, code |-> code]
      PROVE  IsItem(item) /\ ItemInv(item)'
  <2>1. IsItem(asked) /\ ItemInv(asked)
    BY <1>3, <1>4, <1>7
  <2>2. /\ item.base = asked.base /\ item.saw = asked.saw /\ item.step = step
        /\ item.op = asked.op /\ item.node = asked.node
    BY <1>7
  <2>3. IsItem(item)
    BY <1>7, <2>1 DEF IsItem
  <2>4. ItemInv(item)
    BY <1>7, <2>1, <2>2 DEF ItemInv
  <2> QED
    BY <2>3, <2>4, ItemStays
<1>8. CASE PrepareFile(r)
  <2>1. PICK current : current = node[request[r].node].current
    OBVIOUS
  <2>2. asked.step = "file" /\ IsItem(asked)
    BY <1>3, <1>4, <1>8 DEF PrepareFile
  <2>3. PICK item : item = [asked EXCEPT !.step = "version", !.current = current]
    OBVIOUS
  <2>4. request' = [request EXCEPT ![r] = item]
    BY <1>3, <1>8, <2>1, <2>3 DEF PrepareFile, Preparing
  <2>5. item = [step |-> "version", op |-> asked.op, node |-> asked.node,
                parent |-> asked.parent, way |-> asked.way,
                label |-> asked.label, base |-> asked.base,
                saw |-> asked.saw, current |-> current, code |-> asked.code]
    BY <2>2, <2>3 DEF IsItem
  <2>6. IsItem(item) /\ ItemInv(item)'
    BY <1>7, <2>2, <2>5
  <2> QED
    BY <2>4, <2>6
<1>9. CASE PrepareVersion(r)
  <2>1. PICK code : code = versions[request[r].node][request[r].current].code
    OBVIOUS
  <2>2. asked.step = "version" /\ IsItem(asked)
    BY <1>3, <1>4, <1>9 DEF PrepareVersion
  <2>3. PICK item : item = [asked EXCEPT !.step = "ready", !.code = code]
    OBVIOUS
  <2>4. request' = [request EXCEPT ![r] = item]
    BY <1>3, <1>9, <2>1, <2>3 DEF PrepareVersion, Preparing
  <2>5. item = [step |-> "ready", op |-> asked.op, node |-> asked.node,
                parent |-> asked.parent, way |-> asked.way,
                label |-> asked.label, base |-> asked.base,
                saw |-> asked.saw, current |-> asked.current, code |-> code]
    BY <2>2, <2>3 DEF IsItem
  <2>6. IsItem(item) /\ ItemInv(item)'
    BY <1>7, <2>2, <2>5
  <2> QED
    BY <2>4, <2>6
<1> QED
  BY <1>5, <1>6, <1>8, <1>9 DEF Prepare

LEMMA RequestsStay ==
    ASSUME Shape, RequestInv, [Next]_vars
    PROVE  /\ RequestsOK' /\ RequestInv'
           /\ \A r \in Requests : request[r].step = "ready" => request'[r] = request[r]
<1>1. \A r \in Requests : request[r].step = "ready" => request'[r] = request[r]
  <2> SUFFICES ASSUME NEW q \in Requests, request[q].step = "ready",
                      NEW r \in Requests, Prepare(r)
               PROVE  request'[q] = request[q]
    BY Kinds
  <2>1. request[r].step # "ready"
    <3>1. PICK asked : asked = request[r]
      OBVIOUS
    <3>2. asked = NoRequest \/ asked.step \in {"tree", "file", "version"}
      BY <3>1 DEF Prepare, PrepareProject, PrepareItem, PrepareFile, PrepareVersion
    <3> QED
      BY <3>1, <3>2 DEF NoRequest
  <2>2. \E item : request' = [request EXCEPT ![r] = item]
    BY PreparedStays
  <2> QED
    BY <2>1, <2>2 DEF Shape, RequestsOK
<1>2. \A r \in repeated' : r \in Requests /\ request[r].step = "ready"
  BY Kinds DEF Shape, RequestInv, Repeat
<1>3. \A r \in repeated' : request'[r].step = "ready"
  BY <1>1, <1>2
<1>4. request = [r \in Requests |-> request[r]]
  BY DEF Shape, RequestsOK
<1>5. CASE UNCHANGED request
  <2>1. ASSUME NEW r \in Requests
        PROVE  /\ request'[r] = NoRequest \/ request'[r].step = "tree" \/ IsItem(request'[r])
               /\ request'[r] = NoRequest \/ ItemInv(request[r])'
    <3>1. PICK item : item = request[r]
      OBVIOUS
    <3>2. /\ item = NoRequest \/ item.step = "tree" \/ IsItem(item)
          /\ item = NoRequest \/ ItemInv(item)
      BY <3>1 DEF Shape, RequestsOK, RequestInv
    <3>3. item = NoRequest \/ ItemInv(item)'
      BY <3>2, ItemStays
    <3>4. request'[r] = item
      BY <1>5, <3>1
    <3> QED
      BY <3>2, <3>3, <3>4 DEF ItemInv
  <2> QED
    BY <1>3, <1>4, <1>5, <2>1 DEF RequestsOK, RequestInv
<1>6. ASSUME NEW r \in Requests, Prepare(r)
      PROVE  RequestsOK' /\ RequestInv'
  <2>1. PICK new : /\ request' = [request EXCEPT ![r] = new]
                   /\ new.step = "tree" \/ IsItem(new)
                   /\ ItemInv(new)'
    BY <1>6, PreparedStays
  <2>2. /\ request' = [q \in Requests |-> request'[q]]
        /\ \A q \in Requests : request'[q] = IF q = r THEN new ELSE request[q]
    BY <1>4, <2>1
  <2>3. ASSUME NEW q \in Requests
        PROVE  /\ request'[q] = NoRequest \/ request'[q].step = "tree" \/ IsItem(request'[q])
               /\ request'[q] = NoRequest \/ ItemInv(request[q])'
    <3>1. PICK item : item = request[q]
      OBVIOUS
    <3>2. /\ item = NoRequest \/ item.step = "tree" \/ IsItem(item)
          /\ item = NoRequest \/ ItemInv(item)
      BY <3>1 DEF Shape, RequestsOK, RequestInv
    <3>3. item = NoRequest \/ ItemInv(item)'
      BY <3>2, ItemStays
    <3>4. request'[q] = item \/ request'[q] = new
      BY <2>2, <3>1
    <3> QED
      BY <2>1, <3>2, <3>3, <3>4 DEF ItemInv
  <2> QED
    BY <1>3, <2>2, <2>3 DEF RequestsOK, RequestInv
<1> QED
  BY <1>1, <1>5, <1>6, Kinds

(* A key is in the tree only when its change set was carried out.          *)
LEMMA KeyedStays ==
    ASSUME Shape, Keyed, [Next]_vars
    PROVE  Keyed'
<1>1. PICK key :
         /\ Follows(key) /\ applied \subseteq applied'
         /\ key \in Requests => key \in applied'
  BY StepOutcome DEF Outcome
<1> SUFFICES ASSUME NEW f \in Files, NEW i \in 1..Len(versions'[f]),
                    versions'[f][i].key \in Requests
             PROVE  versions'[f][i].key \in applied'
  BY DEF Keyed
<1> QED
  BY <1>1 DEF Follows, Keyed

(* While the revision is the one the packer has read, the project is what   *)
(* it has read so far.                                                      *)
PackerInv ==
    /\ packer.step \in {"none", "nodes", "versions", "check", "packed", "recorded"}
    /\ packer.step # "none" =>
          /\ packer.revision \in Nat /\ packer.revision <= revision
          /\ packer.revision = revision => packer.saw = Source
    /\ packer.step = "versions" =>
          (packer.revision = revision => packer.rows = node)
    /\ packer.step = "check" =>
          (packer.revision = revision => packer.source = packer.saw)
    /\ packer.step \in {"packed", "recorded"} => packer.source = packer.saw
    /\ packer.step \in {"check", "packed"} =>
          packer = [step |-> packer.step, revision |-> packer.revision,
                    saw |-> packer.saw, source |-> packer.source]

LEMMA PackerStays ==
    ASSUME Shape, PackerInv, [Next]_vars
    PROVE  PackerInv'
<1>1. /\ revision \in Nat
      /\ Steady \/ revision' = revision + 1
  BY StepOutcome DEF Shape
<1>2. CASE UNCHANGED packer
  BY <1>1, <1>2 DEF PackerInv, Steady
<1>3. ASSUME UNCHANGED <<node, versions, revision>>
      PROVE  Source' = Source
  BY <1>3 DEF Source, Current
<1>4. CASE ReadRevision
  <2>1. /\ packer' = [step |-> "nodes", revision |-> revision, saw |-> Source]
        /\ UNCHANGED <<node, versions, revision>>
    BY <1>4 DEF ReadRevision, Packing, tree
  <2> QED
    BY <1>1, <1>3, <2>1 DEF PackerInv
<1>5. CASE ReadNodes
  <2>1. /\ packer' = [step |-> "versions", revision |-> packer.revision,
                      saw |-> packer.saw, rows |-> node]
        /\ packer.step = "nodes"
        /\ UNCHANGED <<node, versions, revision>>
    BY <1>5 DEF ReadNodes, Packing, tree
  <2> QED
    BY <1>1, <1>3, <2>1 DEF PackerInv
<1>6. CASE ReadVersions
  <2>1. PICK source : source = Contents(packer.rows, Current(packer.rows, versions))
    OBVIOUS
  <2>2. /\ packer' = [step |-> "check", revision |-> packer.revision,
                      saw |-> packer.saw, source |-> source]
        /\ packer.step = "versions"
        /\ UNCHANGED <<node, versions, revision>>
    BY <1>6, <2>1 DEF ReadVersions, Packing, tree
  <2>3. packer.revision = revision => packer.rows = node /\ packer.saw = Source
    BY <2>2 DEF PackerInv
  <2>4. packer.revision = revision => source = packer.saw
    BY <2>1, <2>3 DEF Source
  <2>5. /\ packer'.step = "check" /\ packer'.revision = packer.revision
        /\ packer'.saw = packer.saw /\ packer'.source = source
    BY <2>2
  <2>6. packer.revision \in Nat /\ packer.revision <= revision
    BY <2>2 DEF PackerInv
  <2>7. packer' = [step |-> packer'.step, revision |-> packer'.revision,
                   saw |-> packer'.saw, source |-> packer'.source]
    BY <2>2, <2>5
  <2>8. revision' = revision /\ Source' = Source
    BY <1>3, <2>2
  <2> QED
    BY <2>3, <2>4, <2>5, <2>6, <2>7, <2>8 DEF PackerInv
<1>7. ASSUME NEW to, to \in {"packed", "recorded"},
             packer' = [packer EXCEPT !.step = to],
             packer.step \in {"check", "packed"}, revision = packer.revision,
             UNCHANGED <<node, versions, revision>>
      PROVE  PackerInv'
  <2>1. /\ packer = [step |-> packer.step, revision |-> packer.revision,
                     saw |-> packer.saw, source |-> packer.source]
        /\ packer.source = packer.saw /\ packer.saw = Source
    BY <1>1, <1>7 DEF PackerInv
  <2>2. /\ packer'.step = to /\ packer'.revision = packer.revision
        /\ packer'.saw = packer.saw /\ packer'.source = packer.source
    BY <1>7, <2>1
  <2>3. packer' = [step |-> packer'.step, revision |-> packer'.revision,
                   saw |-> packer'.saw, source |-> packer'.source]
    BY <1>7, <2>1, <2>2
  <2>4. revision' = revision /\ Source' = Source
    BY <1>3, <1>7
  <2> QED
    BY <1>1, <1>7, <2>1, <2>2, <2>3, <2>4 DEF PackerInv
<1>8. CASE CheckRevision
  BY <1>7, <1>8 DEF CheckRevision, Packing, Unchanged, tree
<1>9. CASE Record
  BY <1>7, <1>9 DEF Record, Packing, StillCurrent, tree
<1>10. CASE EndPacking
  BY <1>10 DEF EndPacking, Packing, Resting, PackerInv
<1> QED
  BY <1>2, <1>4, <1>5, <1>6, <1>8, <1>9, <1>10, Kinds

(* A change set is answered as carried out before only when that is true,   *)
(* or leaves nothing to do.                                                 *)
LEMMA RepeatStays ==
    ASSUME Shape, Keyed, RequestInv, RepeatIsTrue, [Next]_vars
    PROVE  RepeatIsTrue'
<1>1. /\ applied \subseteq applied' /\ used \subseteq used'
      /\ \A y \in Nodes : node'[y].there => node[y].there \/ y \notin used
  BY StepOutcome DEF Outcome, Follows
<1>2. ASSUME NEW r \in repeated
      PROVE  \/ r \in applied'
             \/ request'[r].op = "delete" /\ ~node'[request'[r].node].there
             \/ request'[r].op = "rename"
  <2>1. r \in Requests /\ request[r].step = "ready"
    BY DEF Shape, RequestInv
  <2>2. request'[r] = request[r]
    BY <2>1, RequestsStay
  <2>3. IsItem(request[r]) /\ request[r] # NoRequest
    BY <2>1, ReadyIsItem
  <2>4. request[r].node \in Nodes
    BY <2>3 DEF IsItem, Nodes
  <2>5. request[r].op = "delete" => request[r].node \in used
    BY <2>1, <2>3 DEF RequestInv, ItemInv
  <2> QED
    BY <1>1, <2>2, <2>4, <2>5 DEF RepeatIsTrue
<1>3. ASSUME NEW r \in Requests, Repeat(r)
      PROVE  \/ r \in applied'
             \/ request'[r].op = "delete" /\ ~node'[request'[r].node].there
             \/ request'[r].op = "rename"
  <2>1. /\ request' = request /\ applied' = applied /\ node' = node
        /\ InPlace(r)
    BY <1>3 DEF Repeat, tree
  <2>2. CASE request[r].op \in {"delete", "rename"}
    BY <2>1, <2>2 DEF InPlace, Deleted
  <2>3. CASE request[r].op \in {"create", "update"}
    <3>1. PICK f \in Files :
             node[f].there /\ versions[f][node[f].current] = Version(Own(r), r)
      BY <2>1, <2>3 DEF InPlace, AtPath
    <3>2. node[f].current \in 1..Len(versions[f])
      BY <3>1 DEF Shape, TreeOK, Numbered
    <3>3. versions[f][node[f].current].key = r
      BY <3>1 DEF Version
    <3> QED
      BY <2>1, <3>2, <3>3 DEF Keyed
  <2> QED
    BY <2>1, <2>2, <2>3 DEF InPlace
<1>4. ASSUME NEW r \in repeated'
      PROVE  r \in repeated \/ (r \in Requests /\ Repeat(r))
  <2>1. ASSUME NEW q \in Requests, Repeat(q), r # q
        PROVE  r \in repeated
    BY <2>1 DEF Repeat
  <2> QED
    BY <2>1, Kinds
<1> QED
  BY <1>2, <1>3, <1>4 DEF RepeatIsTrue

-----------------------------------------------------------------------------
(* Theorems                                                                *)

Inv == Shape /\ Keyed /\ RequestInv /\ PackerInv /\ RepeatIsTrue

LEMMA InitInv == Init => Inv
<1> SUFFICES ASSUME Init PROVE Inv
  OBVIOUS
<1>1. Shape
  BY InitShape
<1>2. PICK old :
         versions = [f \in Files |->
                       IF f \in old THEN <<Version(<<0, 0>>, Unkeyed)>>
                       ELSE <<>>]
  BY DEF Init
<1>3. \A f \in Files : \A i \in 1..Len(versions[f]) : versions[f][i].key = Unkeyed
  <2> TAKE f \in Files
  <2>1. CASE f \in old
    BY <1>2, <2>1 DEF Version
  <2>2. CASE f \notin old
    BY <1>2, <2>2
  <2> QED
    BY <2>1, <2>2
<1>4. Keyed
  BY <1>3, NamesAssumption DEF Keyed
<1> QED
  BY <1>1, <1>4 DEF Init, Inv, RequestInv, PackerInv, Resting, RepeatIsTrue

LEMMA InvStays == Inv /\ [Next]_vars => Inv'
<1> SUFFICES ASSUME Inv, [Next]_vars PROVE Inv'
  OBVIOUS
<1>1. TreeOK' /\ revision' \in Nat
  BY StepOutcome DEF Inv, Outcome, Shape, Steady
<1>2. PlansOK' /\ RequestsOK' /\ RequestInv'
  BY PlansStay, RequestsStay DEF Inv
<1>3. applied' \subseteq Requests /\ repeated' \subseteq Requests
  BY Kinds DEF Inv, Shape, Apply, Repeat
<1>4. Shape'
  BY <1>1, <1>2, <1>3 DEF Shape
<1>5. Keyed' /\ PackerInv' /\ RepeatIsTrue'
  BY KeyedStays, PackerStays, RepeatStays DEF Inv
<1> QED
  BY <1>2, <1>4, <1>5 DEF Inv

LEMMA AlwaysInv == Spec => []Inv
BY InitInv, InvStays, PTL DEF Spec

(* SnapshotFiles, though it reads in several statements, yields the project *)
(* as it was at one revision.                                               *)
THEOREM CodebookSnapshot == Spec => []SnapshotIsRevision
<1>1. Inv => SnapshotIsRevision
  BY DEF Inv, PackerInv, SnapshotIsRevision
<1> QED
  BY <1>1, AlwaysInv, PTL

(* An archive is recorded only while the project contains what is in it.   *)
THEOREM CodebookRecorded == Spec => RecordedIsCurrent
<1>1. Inv /\ [Next]_vars
        => [packer'.step = "recorded" /\ packer' # packer
              => packer'.source = Source]_vars
  <2> SUFFICES ASSUME Inv, Next, packer'.step = "recorded", packer' # packer
               PROVE  packer'.source = Source
    BY DEF vars
  <2>1. CASE Record
    <3>1. /\ packer' = [packer EXCEPT !.step = "recorded"]
          /\ packer.step = "packed" /\ revision = packer.revision
      BY <2>1 DEF Record, Packing, StillCurrent
    <3>2. /\ packer = [step |-> packer.step, revision |-> packer.revision,
                       saw |-> packer.saw, source |-> packer.source]
          /\ packer.source = packer.saw /\ packer.saw = Source
      BY <3>1 DEF Inv, PackerInv
    <3> QED
      BY <3>1, <3>2
  <2>2. CASE CheckRevision
    <3>1. /\ packer' = [packer EXCEPT !.step = "packed"]
          /\ packer = [step |-> packer.step, revision |-> packer.revision,
                       saw |-> packer.saw, source |-> packer.source]
      BY <2>2 DEF CheckRevision, Packing, Inv, PackerInv
    <3>2. packer'.step = "packed"
      BY <3>1
    <3> QED
      BY <3>2
  <2>3. CASE ReadRevision \/ ReadNodes \/ ReadVersions \/ EndPacking
    BY <2>3 DEF ReadRevision, ReadNodes, ReadVersions, EndPacking, Packing, Resting
  <2> QED
    BY <2>1, <2>2, <2>3, Kinds
<1> QED
  BY <1>1, AlwaysInv, PTL DEF Spec, RecordedIsCurrent

(* A change set is carried out only on what the assistant had seen.        *)
THEOREM CodebookApplied == Spec => AppliedOnWhatItSaw
<1>1. Inv /\ [Next]_vars
        => [\A r \in applied' \ applied : request[r].saw = Source]_vars
  <2> SUFFICES ASSUME Inv, Next, NEW r \in applied', r \notin applied
               PROVE  request[r].saw = Source
    BY DEF vars
  <2>1. r \in Requests /\ Apply(r)
    BY Kinds DEF Apply
  <2>2. ItemInv(request[r])
    BY <2>1, ReadyIsItem DEF Apply, Inv, RequestInv
  <2> QED
    BY <2>1, <2>2 DEF Apply, OnBase, ItemInv
<1> QED
  BY <1>1, AlwaysInv, PTL DEF Spec, AppliedOnWhatItSaw

(* The answer "already applied" is given for content only when it was       *)
(* written by the change set that asks; for a deletion, when nothing is     *)
(* left to delete; for a renaming, whoever renamed the file.                *)
THEOREM CodebookRepeat == Spec => []RepeatIsTrue
<1>1. Inv => RepeatIsTrue
  BY DEF Inv
<1> QED
  BY <1>1, AlwaysInv, PTL

-----------------------------------------------------------------------------
(* The tree stays sound                                                    *)

LEMMA PrefixElements ==
    ASSUME NEW S, NEW s \in Seq(S), NEW t \in Seq(S)
    PROVE  IsPrefix(s, t) <=> /\ Len(s) <= Len(t)
                              /\ \A i \in 1..Len(s) : s[i] = t[i]
<1>1. Len(s) \in Nat /\ Len(t) \in Nat
  BY LenProperties
<1>2. SubSeq(s, 1, Len(s)) = s
  BY SubSeqFull
<1>3. ASSUME Len(s) <= Len(t)
      PROVE  SubSeq(t, 1, Len(s)) = s <=> \A i \in 1..Len(s) : s[i] = t[i]
  <2>1. \A i \in 1..Len(s) : t[i] \in S
    <3>1. \A i \in 1..Len(s) : i \in 1..Len(t)
      BY <1>1, <1>3
    <3> QED
      BY <3>1, ElementOfSeq
  <2>2. /\ SubSeq(t, 1, Len(s)) \in Seq(S)
        /\ Len(SubSeq(t, 1, Len(s))) = Len(s)
        /\ \A i \in 1..Len(s) : SubSeq(t, 1, Len(s))[i] = t[i]
    <3>1. /\ SubSeq(t, 1, Len(s)) \in Seq(S)
          /\ Len(SubSeq(t, 1, Len(s))) = IF 1 <= Len(s) THEN Len(s) - 1 + 1 ELSE 0
          /\ \A i \in 1..(Len(s) - 1 + 1) : SubSeq(t, 1, Len(s))[i] = t[1 + i - 1]
      BY <1>1, <2>1, SubSeqProperties
    <3>2. \A i \in 1..Len(s) : 1 + i - 1 = i
      OBVIOUS
    <3> QED
      BY <1>1, <3>1, <3>2
  <2>3. ASSUME \A i \in 1..Len(s) : s[i] = t[i]
        PROVE  SubSeq(t, 1, Len(s)) = s
    <3>1. PICK w : w = SubSeq(t, 1, Len(s))
      OBVIOUS
    <3>2. /\ w \in Seq(S) /\ Len(w) = Len(s)
          /\ \A i \in 1..Len(w) : w[i] = s[i]
      BY <2>2, <2>3, <3>1
    <3>3. w = s
      BY <3>2, SeqEqual
    <3> QED
      BY <3>1, <3>3
  <2> QED
    BY <2>2, <2>3
<1> QED
  BY <1>1, <1>2, <1>3 DEF IsPrefix

LEMMA PrefixOfAppend ==
    ASSUME NEW S, NEW u \in Seq(S), NEW x \in S, NEW t \in Seq(S), NEW e \in S
    PROVE  /\ ~IsPrefix(Append(u, x), u)
           /\ ~IsPrefix(Append(u, x), <<>>)
           /\ IsPrefix(Append(u, x), Append(u, x))
           /\ IsPrefix(Append(u, x), t) => IsPrefix(Append(u, x), Append(t, e))
           /\ IsPrefix(Append(u, x), Append(t, e)) =>
                 IsPrefix(Append(u, x), t) \/ (x = e /\ u = t)
<1>1. /\ Len(u) \in Nat /\ Len(t) \in Nat
      /\ <<>> \in Seq(S) /\ Len(<<>>) = 0
  BY LenProperties, EmptySeq
<1>2. PICK ux \in Seq(S) :
         /\ ux = Append(u, x) /\ Len(ux) = Len(u) + 1
         /\ \A i \in 1..Len(u) : ux[i] = u[i]
         /\ ux[Len(u) + 1] = x
  BY AppendProperties
<1>3. PICK te \in Seq(S) :
         /\ te = Append(t, e) /\ Len(te) = Len(t) + 1
         /\ \A i \in 1..Len(t) : te[i] = t[i]
         /\ te[Len(t) + 1] = e
  BY AppendProperties
<1>4. ~IsPrefix(ux, u) /\ ~IsPrefix(ux, <<>>) /\ IsPrefix(ux, ux)
  <2>1. /\ ~(Len(ux) <= Len(u)) /\ Len(ux) <= Len(ux)
        /\ \A w \in Seq(S) : Len(w) = 0 => ~(Len(ux) <= Len(w))
    BY <1>1, <1>2
  <2>2. ~IsPrefix(ux, u)
    <3>1. IsPrefix(ux, u) => Len(ux) <= Len(u)
      BY PrefixElements
    <3> QED
      BY <2>1, <3>1
  <2>3. PICK none \in Seq(S) : none = <<>> /\ Len(none) = 0
    BY <1>1
  <2>4. ~IsPrefix(ux, none)
    <3>1. IsPrefix(ux, none) => Len(ux) <= Len(none)
      BY PrefixElements
    <3> QED
      BY <2>1, <2>3, <3>1
  <2>5. IsPrefix(ux, ux)
    BY <2>1, PrefixElements
  <2> QED
    BY <2>2, <2>3, <2>4, <2>5
<1>5. ASSUME IsPrefix(ux, t)
      PROVE  IsPrefix(ux, te)
  <2>1. Len(ux) <= Len(t) /\ \A i \in 1..Len(ux) : ux[i] = t[i]
    BY <1>5, PrefixElements
  <2>2. \A i \in 1..Len(ux) : i \in 1..Len(t)
    BY <1>1, <1>2, <2>1
  <2>3. Len(ux) <= Len(te)
    BY <1>1, <1>2, <1>3, <2>1
  <2>4. \A i \in 1..Len(ux) : ux[i] = te[i]
    BY <1>3, <2>1, <2>2
  <2> QED
    BY <2>3, <2>4, PrefixElements
<1>6. ASSUME IsPrefix(ux, te), ~IsPrefix(ux, t)
      PROVE  x = e /\ u = t
  <2>1. Len(ux) <= Len(te) /\ \A i \in 1..Len(ux) : ux[i] = te[i]
    BY <1>6, PrefixElements
  <2>2. CASE Len(ux) <= Len(t)
    <3>1. \A i \in 1..Len(ux) : i \in 1..Len(t)
      BY <1>1, <1>2, <2>2
    <3>2. \A i \in 1..Len(ux) : ux[i] = t[i]
      BY <1>3, <2>1, <3>1
    <3> QED
      BY <1>6, <2>2, <3>2, PrefixElements
  <2>3. CASE ~(Len(ux) <= Len(t))
    <3>1. Len(u) = Len(t)
      BY <1>1, <1>2, <1>3, <2>1, <2>3
    <3>2. Len(u) + 1 \in 1..Len(ux) /\ \A i \in 1..Len(u) : i \in 1..Len(ux)
      BY <1>1, <1>2
    <3>3. x = e
      BY <1>2, <1>3, <2>1, <3>1, <3>2
    <3>4. \A i \in 1..Len(u) : u[i] = t[i]
      BY <1>2, <1>3, <2>1, <3>1, <3>2
    <3> QED
      BY <3>1, <3>3, <3>4, SeqEqual
  <2> QED
    BY <2>2, <2>3
<1> QED
  BY <1>2, <1>3, <1>4, <1>5, <1>6

(* What is appended behind a concatenation is appended to its second part. *)
LEMMA AppendAfter ==
    ASSUME NEW S, NEW s \in Seq(S), NEW t \in Seq(S), NEW e \in S
    PROVE  /\ s \o t \in Seq(S)
           /\ s \o Append(t, e) = Append(s \o t, e)
<1>1. <<e>> \in Seq(S)
  OBVIOUS
<1>2. s \o t \in Seq(S)
  BY ConcatProperties
<1>3. Append(t, e) = t \o <<e>>
  BY AppendIsConcat
<1>4. Append(s \o t, e) = (s \o t) \o <<e>>
  BY <1>2, AppendIsConcat
<1>5. (s \o t) \o <<e>> = s \o (t \o <<e>>)
  BY <1>1, ConcatAssociative, SMTT(60)
<1> QED
  BY <1>2, <1>3, <1>4, <1>5

(* A path that leads on from another one is rewritten as that one is.      *)
LEMMA RepathAppend ==
    ASSUME NEW S, NEW old \in Seq(S), NEW new \in Seq(S), NEW t \in Seq(S),
           NEW e \in S, IsPrefix(old, t), IsPrefix(old, Append(t, e))
    PROVE  /\ Repath(t, old, new) \in Seq(S)
           /\ Repath(Append(t, e), old, new) = Append(Repath(t, old, new), e)
<1>1. /\ Len(old) \in Nat /\ Len(t) \in Nat /\ Len(new) \in Nat
      /\ Len(old) <= Len(t)
  BY LenProperties, PrefixElements
<1>2. PICK k \in Nat : k = Len(old)
  BY <1>1
<1>3. PICK n \in Nat : n = Len(t)
  BY <1>1
<1>4. PICK te \in Seq(S) :
         /\ te = Append(t, e) /\ Len(te) = n + 1
         /\ \A i \in 1..n : te[i] = t[i]
         /\ te[n + 1] = e
  BY <1>3, AppendProperties
<1>5. \A i \in 1..n + 1 : te[i] \in S
  BY <1>4, ElementOfSeq
<1>6. \A i \in 1..n : t[i] \in S
  BY <1>3, ElementOfSeq
<1>13. PICK m \in Nat : n = k + m
  <2>1. n - k \in Nat /\ n = k + (n - k)
    BY <1>1, <1>2, <1>3
  <2> QED
    BY <2>1
<1>7. PICK a \in Seq(S) :
         /\ a = SubSeq(t, k + 1, n) /\ Len(a) = m
         /\ \A i \in 1..m : a[i] = t[k + i]
  <2>1. \A i \in k + 1..n : t[i] \in S
    BY <1>6
  <2>2. /\ SubSeq(t, k + 1, n) \in Seq(S)
        /\ Len(SubSeq(t, k + 1, n)) = IF k + 1 <= n THEN n - (k + 1) + 1 ELSE 0
        /\ \A i \in 1..(n - (k + 1) + 1) : SubSeq(t, k + 1, n)[i] = t[(k + 1) + i - 1]
    BY <2>1, SubSeqProperties
  <2>3. \A i \in 1..m : (k + 1) + i - 1 = k + i
    OBVIOUS
  <2>4. n - (k + 1) + 1 = m /\ (k + 1 <= n \/ m = 0)
    BY <1>13
  <2>5. Len(SubSeq(t, k + 1, n)) = m
    BY <2>2, <2>4
  <2>6. \A i \in 1..m : SubSeq(t, k + 1, n)[i] = t[k + i]
    BY <2>2, <2>3, <2>4
  <2> QED
    BY <2>2, <2>5, <2>6
<1>8. PICK b \in Seq(S) :
         /\ b = SubSeq(te, k + 1, n + 1) /\ Len(b) = m + 1
         /\ \A i \in 1..m + 1 : b[i] = te[k + i]
  <2>1. \A i \in k + 1..n + 1 : te[i] \in S
    BY <1>5
  <2>2. /\ SubSeq(te, k + 1, n + 1) \in Seq(S)
        /\ Len(SubSeq(te, k + 1, n + 1)) =
              IF k + 1 <= n + 1 THEN (n + 1) - (k + 1) + 1 ELSE 0
        /\ \A i \in 1..((n + 1) - (k + 1) + 1) :
              SubSeq(te, k + 1, n + 1)[i] = te[(k + 1) + i - 1]
    BY <2>1, SubSeqProperties
  <2>3. \A i \in 1..m + 1 : (k + 1) + i - 1 = k + i
    OBVIOUS
  <2>4. (n + 1) - (k + 1) + 1 = m + 1 /\ k + 1 <= n + 1
    BY <1>13
  <2>5. Len(SubSeq(te, k + 1, n + 1)) = m + 1
    BY <2>2, <2>4
  <2>6. \A i \in 1..m + 1 : SubSeq(te, k + 1, n + 1)[i] = te[k + i]
    BY <2>2, <2>3, <2>4
  <2> QED
    BY <2>2, <2>5, <2>6
<1>9. b = Append(a, e)
  <2>1. Len(a) = m
    BY <1>7
  <2>2. PICK ae \in Seq(S) :
           /\ ae = Append(a, e) /\ Len(ae) = m + 1
           /\ \A i \in 1..m : ae[i] = a[i]
           /\ ae[m + 1] = e
    <3>1. /\ Append(a, e) \in Seq(S)
          /\ Len(Append(a, e)) = Len(a) + 1
          /\ \A i \in 1..Len(a) : Append(a, e)[i] = a[i]
          /\ Append(a, e)[Len(a) + 1] = e
      BY AppendProperties
    <3> QED
      BY <2>1, <3>1
  <2>3. Len(b) = m + 1
    BY <1>8
  <2>4. \A i \in 1..m : b[i] = ae[i]
    <3> TAKE i \in 1..m
    <3>1. i \in 1..m + 1 /\ k + i \in 1..n
      BY <1>13
    <3>2. b[i] = te[k + i] /\ te[k + i] = t[k + i] /\ a[i] = t[k + i]
      BY <1>4, <1>7, <1>8, <3>1
    <3> QED
      BY <2>2, <3>2
  <2>5. b[m + 1] = ae[m + 1]
    <3>1. m + 1 \in 1..m + 1 /\ k + (m + 1) = n + 1
      BY <1>13
    <3>2. b[m + 1] = te[k + (m + 1)]
      BY <1>8, <3>1
    <3> QED
      BY <1>4, <2>2, <3>1, <3>2
  <2>6. \A i \in 1..Len(b) : b[i] = ae[i]
    <3>1. \A i \in 1..m + 1 : i \in 1..m \/ i = m + 1
      OBVIOUS
    <3> QED
      BY <2>3, <2>4, <2>5, <3>1
  <2>7. b = ae
    BY <2>2, <2>3, <2>6, SeqEqual
  <2> QED
    BY <2>2, <2>7
<1>10. new \o a \in Seq(S) /\ new \o Append(a, e) = Append(new \o a, e)
  BY AppendAfter
<1>11. Repath(t, old, new) = new \o a
  BY <1>2, <1>3, <1>7 DEF Repath
<1>12. Repath(Append(t, e), old, new) = new \o b
  BY <1>2, <1>4, <1>8 DEF Repath
<1> QED
  BY <1>9, <1>10, <1>11, <1>12

LEMMA RepathSelf ==
    ASSUME NEW S, NEW old \in Seq(S), NEW new \in Seq(S), IsPrefix(old, old)
    PROVE  Repath(old, old, new) = new
<1>1. Len(old) \in Int /\ Len(old) + 1 \in Int /\ Len(old) < Len(old) + 1
  BY LenProperties
<1>2. SubSeq(old, Len(old) + 1, Len(old)) = <<>>
  BY <1>1, SubSeqEmpty
<1>3. new \o <<>> = new
  BY ConcatEmptySeq
<1> QED
  BY <1>2, <1>3 DEF Repath

LEMMA RepathSame ==
    ASSUME NEW S, NEW old \in Seq(S), NEW t \in Seq(S)
    PROVE  Repath(t, old, old) = t
<1>1. CASE ~IsPrefix(old, t)
  BY <1>1 DEF Repath
<1>2. CASE IsPrefix(old, t)
  <2>1. PICK k \in Nat : k = Len(old)
    BY LenProperties
  <2>2. PICK n \in Nat : n = Len(t)
    BY LenProperties
  <2>3. k <= n /\ SubSeq(t, 1, k) = SubSeq(old, 1, k)
    BY <1>2, <2>1, <2>2 DEF IsPrefix
  <2>4. SubSeq(old, 1, k) = old /\ SubSeq(t, 1, n) = t
    BY <2>1, <2>2, SubSeqFull
  <2>5. SubSeq(t, 1, k) \o SubSeq(t, k + 1, n) = SubSeq(t, 1, n)
    <3>1. 1 \in 1..n + 1 /\ k \in 1 - 1..n /\ n \in k..n
      BY <2>3
    <3> QED
      BY <2>2, <3>1, ConcatAdjacentSubSeq
  <2> QED
    BY <1>2, <2>1, <2>2, <2>3, <2>4, <2>5 DEF Repath
<1> QED
  BY <1>1, <1>2

(* A fold over the items is the move of the one that is not in place yet.  *)
LEMMA FoldIsOneMove ==
    ASSUME NEW rows, NEW items, IsFiniteSet(items), NEW x \in items,
           NEW p, NEW path, NEW after, after = MoveOne(rows, x, p, path),
           \A y \in items \ {x} : /\ MoveOne(rows, y, p, path) = rows
                                  /\ MoveOne(after, y, p, path) = after
    PROVE  MoveAll(rows, items, p, path) = after
<1> DEFINE pick(s) == CHOOSE y \in s : TRUE
           Fold(it) == [s \in SUBSET items |->
                          IF s = {} THEN rows
                          ELSE MoveOne(it[s \ {pick(s)}], pick(s), p, path)]
           done == [s \in SUBSET items |-> IF x \in s THEN after ELSE rows]
           iter == CHOOSE it : it = Fold(it)
<1>1. \A s \in SUBSET items : s # {} => pick(s) \in s
  OBVIOUS
<1> HIDE DEF pick
<1>2. \A s \in SUBSET items : s # {} =>
         done[s] = MoveOne(done[s \ {pick(s)}], pick(s), p, path)
  <2> SUFFICES ASSUME NEW s \in SUBSET items, s # {}
               PROVE  done[s] = MoveOne(done[s \ {pick(s)}], pick(s), p, path)
    OBVIOUS
  <2>1. PICK y \in s : y = pick(s)
    BY <1>1
  <2>2. s \ {y} \in SUBSET items
    OBVIOUS
  <2>3. done[s] = IF x \in s THEN after ELSE rows
    OBVIOUS
  <2>4. done[s \ {y}] = IF x \in s /\ x # y THEN after ELSE rows
    BY <2>2
  <2> HIDE DEF done
  <2>5. CASE x = y
    BY <2>1, <2>3, <2>4, <2>5
  <2>6. CASE x # y /\ x \in s
    <3>1. MoveOne(after, y, p, path) = after
      BY <2>6
    <3> QED
      BY <2>1, <2>3, <2>4, <2>6, <3>1
  <2>7. CASE x # y /\ x \notin s
    <3>1. MoveOne(rows, y, p, path) = rows
      BY <2>7
    <3> QED
      BY <2>1, <2>3, <2>4, <2>7, <3>1
  <2> QED
    BY <2>5, <2>6, <2>7
<1>3. done = Fold(done)
  BY <1>2
<1>4. iter = Fold(iter)
  <2> HIDE DEF Fold, done
  <2> QED
    BY <1>3
<1>5. \A s \in SUBSET items : iter[s] = done[s]
  <2> DEFINE wrong == {s \in SUBSET items : iter[s] # done[s]}
  <2> SUFFICES ASSUME wrong # {} PROVE FALSE
    OBVIOUS
  <2>1. IsWellFoundedOn(StrictSubsetOrdering(items), SUBSET items)
    BY FS_StrictSubsetOrderingWellFounded, FS_FiniteSubsetsOfFinite
  <2>2. PICK s \in wrong : \A t \in wrong : <<t, s>> \notin StrictSubsetOrdering(items)
    <3>1. wrong \subseteq SUBSET items
      OBVIOUS
    <3> HIDE DEF wrong
    <3> QED
      BY <2>1, <3>1, WFMin
  <2>3. s \in SUBSET items /\ iter[s] # done[s]
    OBVIOUS
  <2>4. s # {}
    <3>1. iter[{}] = rows
      <4> HIDE DEF iter
      <4> QED
        BY <1>4
    <3>2. done[{}] = rows
      OBVIOUS
    <3> QED
      BY <2>3, <3>1, <3>2
  <2>5. PICK y \in s : y = pick(s)
    BY <1>1, <2>3, <2>4
  <2>6. PICK t \in SUBSET items : t = s \ {y}
    BY <2>3
  <2>7. <<t, s>> \in StrictSubsetOrdering(items)
    BY <2>3, <2>6 DEF StrictSubsetOrdering
  <2>8. iter[t] = done[t]
    BY <2>2, <2>7
  <2>9. iter[s] = MoveOne(iter[t], y, p, path)
    <3> HIDE DEF iter
    <3> QED
      BY <1>4, <2>3, <2>4, <2>5, <2>6
  <2>10. done[s] = MoveOne(done[t], y, p, path)
    <3> HIDE DEF done
    <3> QED
      BY <1>2, <2>3, <2>4, <2>5, <2>6
  <2> QED
    BY <2>3, <2>8, <2>9, <2>10
<1>6. done[items] = after
  OBVIOUS
<1>7. MoveAll(rows, items, p, path) = iter[items]
  BY DEF MoveAll, FoldSet, MapThenFoldSet, pick
<1> QED
  BY <1>5, <1>6, <1>7

(* The rows of a tree; what the model keeps in node.                       *)
IsTree(rows) ==
    /\ rows = [x \in Nodes |-> rows[x]]
    /\ \A x \in Nodes : rows[x] = Absent \/ IsRow(rows[x])

(* A sound tree: parents exist, paths are those of the parents.            *)
Laid(rows) ==
    /\ Sound(rows)
    /\ \A x \in Nodes : rows[x].there => rows[x].path \in Seq(Nodes)

(* What a row says of its place, apart from its name and its version.      *)
SamePlaces(rows, after) ==
    \A y \in Nodes :
       /\ after[y].there = rows[y].there
       /\ rows[y].there => /\ after[y].parent = rows[y].parent
                           /\ after[y].path = rows[y].path

MayPut(rows, x, p) ==
    /\ rows[x].there /\ IsDirectory(rows, p)
    /\ p # x
    /\ p # Root => ~IsPrefix(Append(rows[x].path, x), rows[p].path)

LEMMA TreeRow ==
    ASSUME NEW rows, IsTree(rows), NEW x \in Nodes
    PROVE  \/ rows[x] = Absent /\ rows[x].there = FALSE
           \/ IsRow(rows[x]) /\ rows[x].there = TRUE
<1>1. Absent.there = FALSE
  BY DEF Absent
<1>2. IsRow(rows[x]) => rows[x].there = TRUE
  BY RowFields DEF IsRow
<1> QED
  BY <1>1, <1>2 DEF IsTree

LEMMA ChildPathIsPath ==
    ASSUME NEW rows, Laid(rows), NEW p, IsDirectory(rows, p)
    PROVE  ChildPath(rows, p) \in Seq(Nodes)
<1>1. CASE p = Root
  BY <1>1, EmptySeq DEF ChildPath
<1>2. CASE p # Root
  <2>1. p \in Nodes /\ rows[p].there
    BY <1>2 DEF IsDirectory, Nodes
  <2>2. rows[p].path \in Seq(Nodes)
    BY <2>1 DEF Laid
  <2>3. Append(rows[p].path, p) \in Seq(Nodes)
    BY <2>1, <2>2, AppendProperties
  <2> QED
    BY <1>2, <2>3 DEF ChildPath
<1> QED
  BY <1>1, <1>2

LEMMA OtherPath ==
    ASSUME NEW a, NEW b, NEW c, NEW d, NEW path, NEW row, row = Row(a, b, c, d),
           NEW aside, aside = [row EXCEPT !.path = path]
    PROVE  aside = Row(a, path, c, d)
BY DEF Row

(* updateSortInTx, row by row.                                             *)
Rewritten(rows, after, x, p, path, old, new) ==
    /\ IsTree(after)
    /\ \A y \in Nodes : ~rows[y].there => after[y] = Absent
    /\ after[x] = Row(p, Repath(path, old, new), rows[x].label, rows[x].current)
    /\ \A y \in Nodes : rows[y].there /\ y # x =>
          after[y] = Row(rows[y].parent, Repath(rows[y].path, old, new),
                         rows[y].label, rows[y].current)

LEMMA MoveOneRows ==
    ASSUME NEW rows, IsTree(rows), NEW x \in Nodes, rows[x].there, NEW p, NEW path,
           NEW after, after = MoveOne(rows, x, p, path),
           NEW old, old = Append(rows[x].path, x),
           NEW new, new = Append(path, x)
    PROVE  Rewritten(rows, after, x, p, path, old, new)
<1>3. PICK row : row = Row(p, path, rows[x].label, rows[x].current)
  OBVIOUS
<1>4. PICK put : put = [rows EXCEPT ![x].parent = p, ![x].path = path]
  OBVIOUS
<1>5. after = [y \in Nodes |->
                 IF put[y].there THEN [put[y] EXCEPT !.path = Repath(@, old, new)]
                 ELSE Absent]
  BY <1>4 DEF MoveOne
<1>6. \A y \in Nodes : rows[y].there =>
         /\ rows[y] = Row(rows[y].parent, rows[y].path, rows[y].label, rows[y].current)
         /\ rows[y].label \in Codes
  BY TreeRow DEF IsRow
<1>7. put[x] = row /\ \A y \in Nodes : y # x => put[y] = rows[y]
  <2>1. /\ put[x] = [rows[x] EXCEPT !.parent = p, !.path = path]
        /\ \A y \in Nodes : y # x => put[y] = rows[y]
    BY <1>4 DEF IsTree
  <2>2. PICK a, b, c, d : rows[x] = Row(a, b, c, d) /\ c = rows[x].label /\ d = rows[x].current
    BY <1>6
  <2>3. PICK was : was = rows[x]
    OBVIOUS
  <2>4. PICK now : now = put[x]
    OBVIOUS
  <2>5. now = [was EXCEPT !.parent = p, !.path = path]
    BY <2>1, <2>3, <2>4
  <2>6. was = Row(a, b, c, d)
    BY <2>2, <2>3
  <2>7. now = Row(p, path, c, d)
    BY ONLY <2>5, <2>6 DEF Row
  <2> QED
    BY <1>3, <2>1, <2>2, <2>4, <2>7
<1>8. ASSUME NEW y \in Nodes, NEW a, NEW b, NEW c, NEW d, put[y] = Row(a, b, c, d)
      PROVE  after[y] = Row(a, Repath(b, old, new), c, d)
  <2>1. put[y].there /\ put[y].path = b
    BY <1>8, RowFields
  <2>2. PICK path2 : path2 = Repath(b, old, new)
    OBVIOUS
  <2>3. after[y] = [put[y] EXCEPT !.path = path2]
    BY <1>5, <2>1, <2>2
  <2>4. PICK was : was = put[y]
    OBVIOUS
  <2>5. after[y] = Row(a, path2, c, d)
    BY <1>8, <2>3, <2>4, OtherPath
  <2> QED
    BY <2>2, <2>5
<1>9. ASSUME NEW y \in Nodes, ~rows[y].there
      PROVE  after[y] = Absent
  BY <1>5, <1>7, <1>9
<1>10. after[x] = Row(p, Repath(path, old, new), rows[x].label, rows[x].current)
  BY <1>3, <1>7, <1>8
<1>12. ASSUME NEW y \in Nodes, rows[y].there, y # x
       PROVE  after[y] = Row(rows[y].parent, Repath(rows[y].path, old, new),
                             rows[y].label, rows[y].current)
  BY <1>6, <1>7, <1>8, <1>12
<1>11. IsTree(after)
  <2>1. after = [y \in Nodes |-> after[y]]
    BY <1>5
  <2>2. ASSUME NEW y \in Nodes
        PROVE  after[y] = Absent \/ IsRow(after[y])
    <3>1. CASE rows[y].there
      <4>1. PICK a, b, d : after[y] = Row(a, b, rows[y].label, d)
        BY <1>10, <1>12, <3>1
      <4> QED
        BY <1>6, <3>1, <4>1, RowFields
    <3> QED
      BY <1>9, <3>1
  <2> QED
    BY <2>1, <2>2 DEF IsTree
<1> QED
  BY <1>9, <1>10, <1>11, <1>12 DEF Rewritten

(* A directory moved out of its own subtree's way: what lies below it is    *)
(* told the new way, everything else keeps its own.                        *)
LEMMA MoveOneLaid ==
    ASSUME NEW rows, IsTree(rows), Laid(rows), NEW x \in Nodes, NEW p,
           MayPut(rows, x, p), NEW after, IsTree(after),
           after = MoveOne(rows, x, p, ChildPath(rows, p))
    PROVE  /\ Laid(after)
           /\ after[x].parent = p /\ after[x].path = ChildPath(rows, p)
           /\ \A y \in Nodes : rows[y].there /\ rows[y].parent = p /\ y # x =>
                 after[y].parent = p /\ after[y].path = ChildPath(rows, p)
<1>0. rows[x].there /\ IsDirectory(rows, p) /\ p # x /\ x # Root
  BY NamesAssumption DEF MayPut
<1>1. PICK path \in Seq(Nodes) : path = ChildPath(rows, p)
  BY <1>0, ChildPathIsPath
<1>2. PICK u \in Seq(Nodes) : u = rows[x].path
  BY <1>0 DEF Laid
<1>3. PICK old \in Seq(Nodes) : old = Append(u, x)
  BY AppendProperties
<1>4. PICK new \in Seq(Nodes) : new = Append(path, x)
  BY AppendProperties
<1>5. /\ \A y \in Nodes : after[y].there = rows[y].there
      /\ after[x].parent = p /\ after[x].path = Repath(path, old, new)
      /\ \A y \in Nodes : rows[y].there /\ y # x =>
            /\ after[y].parent = rows[y].parent
            /\ after[y].path = Repath(rows[y].path, old, new)
  <2>1. /\ \A y \in Nodes : ~rows[y].there => after[y] = Absent
        /\ after[x] = Row(p, Repath(path, old, new), rows[x].label, rows[x].current)
        /\ \A y \in Nodes : rows[y].there /\ y # x =>
              after[y] = Row(rows[y].parent, Repath(rows[y].path, old, new),
                             rows[y].label, rows[y].current)
    <3>1. /\ after = MoveOne(rows, x, p, path)
          /\ old = Append(rows[x].path, x)
      BY <1>1, <1>2, <1>3
    <3>2. Rewritten(rows, after, x, p, path, old, new)
      BY <1>0, <1>4, <3>1, MoveOneRows
    <3> QED
      BY <3>2 DEF Rewritten
  <2>2. \A y \in Nodes : rows[y].there \in BOOLEAN /\ (~rows[y].there => rows[y] = Absent)
    BY TreeRow
  <2>3. \A y \in Nodes : rows[y].there => rows[y].there = TRUE /\ after[y].there = TRUE
    BY <1>0, <2>1, <2>2, RowFields
  <2>4. \A y \in Nodes : after[y].there = rows[y].there
    BY <2>1, <2>2, <2>3
  <2>5. after[x].parent = p /\ after[x].path = Repath(path, old, new)
    BY <2>1, RowFields
  <2>6. \A y \in Nodes : rows[y].there /\ y # x =>
           /\ after[y].parent = rows[y].parent
           /\ after[y].path = Repath(rows[y].path, old, new)
    BY <2>1, RowFields
  <2> QED
    BY <2>4, <2>5, <2>6
<1>6. \A q : IsDirectory(rows, q) => IsDirectory(after, q)
  BY <1>5 DEF IsDirectory, Nodes
<1>7. ~IsPrefix(old, path)
  <2>1. CASE p = Root
    <3>1. path = <<>>
      BY <1>1, <2>1 DEF ChildPath
    <3> QED
      BY <1>3, <3>1, PrefixOfAppend
  <2>2. CASE p # Root
    <3>1. p \in Nodes /\ rows[p].there
      BY <1>0, <2>2 DEF IsDirectory, Nodes
    <3>2. PICK t \in Seq(Nodes) : t = rows[p].path
      BY <3>1 DEF Laid
    <3>3. path = Append(t, p) /\ ~IsPrefix(old, t)
      BY <1>1, <1>2, <1>3, <2>2, <3>2 DEF ChildPath, MayPut
    <3> QED
      BY <1>0, <1>3, <3>1, <3>3, PrefixOfAppend
  <2> QED
    BY <2>1, <2>2
<1>8. after[x].there /\ after[x].parent = p /\ after[x].path = path
  <2>1. Repath(path, old, new) = path
    BY <1>7 DEF Repath
  <2> QED
    BY <1>0, <1>5, <2>1
<1>9. ASSUME NEW y \in Nodes, rows[y].there, rows[y].parent = p, y # x
      PROVE  after[y].parent = p /\ after[y].path = path
  <2>1. rows[y].path = path
    BY <1>1, <1>9 DEF Laid, Sound, Placed
  <2>2. Repath(path, old, new) = path
    BY <1>7 DEF Repath
  <2> QED
    BY <1>5, <1>9, <2>1, <2>2
<1>10. ASSUME NEW y \in Nodes, rows[y].there
       PROVE  after[y].path \in Seq(Nodes) /\ after[y].path = ChildPath(after, after[y].parent)
  <2>1. CASE y = x
    <3>1. ChildPath(after, p) = path
      <4>1. CASE p = Root
        BY <1>1, <4>1 DEF ChildPath
      <4>2. CASE p # Root
        <5>1. p \in Nodes /\ rows[p].there
          BY <1>0, <4>2 DEF IsDirectory, Nodes
        <5>2. ~IsPrefix(old, rows[p].path)
          BY <1>2, <1>3, <4>2 DEF MayPut
        <5>3. after[p].path = rows[p].path
          BY <1>0, <1>5, <5>1, <5>2 DEF Repath
        <5> QED
          BY <1>1, <4>2, <5>3 DEF ChildPath
      <4> QED
        BY <4>1, <4>2
    <3> QED
      BY <1>8, <2>1, <3>1
  <2>2. CASE y # x
    <3>1. PICK q : q = rows[y].parent
      OBVIOUS
    <3>2. IsDirectory(rows, q) /\ rows[y].path = ChildPath(rows, q)
      BY <1>10, <3>1 DEF Laid, Sound, Placed
    <3>3. after[y].parent = q /\ after[y].path = Repath(ChildPath(rows, q), old, new)
      BY <1>5, <1>10, <2>2, <3>1, <3>2
    <3>4. CASE q = Root
      <4>1. ChildPath(rows, q) = <<>> /\ ChildPath(after, q) = <<>>
        BY <3>4 DEF ChildPath
      <4>2. Repath(<<>>, old, new) = <<>>
        <5>1. ~IsPrefix(old, <<>>)
          BY <1>3, PrefixOfAppend
        <5> QED
          BY <5>1 DEF Repath
      <4> QED
        BY <3>3, <4>1, <4>2, EmptySeq
    <3>5. CASE q = x
      <4>1. ChildPath(rows, q) = old /\ ChildPath(after, q) = new
        BY <1>0, <1>2, <1>3, <1>4, <1>8, <3>5 DEF ChildPath
      <4>2. IsPrefix(old, old)
        BY <1>3, PrefixOfAppend
      <4> QED
        BY <3>3, <4>1, <4>2, RepathSelf
    <3>6. CASE q \notin {Root, x}
      <4>1. q \in Nodes /\ rows[q].there
        BY <3>2, <3>6 DEF IsDirectory, Nodes
      <4>2. PICK t \in Seq(Nodes) : t = rows[q].path
        BY <4>1 DEF Laid
      <4>3. PICK tq \in Seq(Nodes) : tq = Append(t, q)
        BY <4>1, AppendProperties
      <4>4. ChildPath(rows, q) = tq /\ ChildPath(after, q) = Append(Repath(t, old, new), q)
        BY <1>5, <3>6, <4>1, <4>2, <4>3 DEF ChildPath
      <4>5. IsPrefix(old, tq) <=> IsPrefix(old, t)
        BY <1>3, <3>6, <4>1, <4>3, PrefixOfAppend
      <4>6. CASE IsPrefix(old, t)
        <5>1. /\ Repath(t, old, new) \in Seq(Nodes)
              /\ Repath(tq, old, new) = Append(Repath(t, old, new), q)
          BY <4>1, <4>3, <4>5, <4>6, RepathAppend
        <5>2. Append(Repath(t, old, new), q) \in Seq(Nodes)
          BY <4>1, <5>1, AppendProperties
        <5> QED
          BY <3>3, <4>4, <5>1, <5>2
      <4>7. CASE ~IsPrefix(old, t)
        <5>1. Repath(t, old, new) = t /\ Repath(tq, old, new) = tq
          BY <4>5, <4>7 DEF Repath
        <5> QED
          BY <3>3, <4>3, <4>4, <5>1
      <4> QED
        BY <4>6, <4>7
    <3> QED
      BY <3>4, <3>5, <3>6
  <2> QED
    BY <2>1, <2>2
<1>11. ASSUME NEW y \in Nodes, rows[y].there
       PROVE  IsDirectory(after, after[y].parent)
  <2>1. CASE y = x
    BY <1>0, <1>6, <1>8, <2>1
  <2>2. CASE y # x
    BY <1>5, <1>6, <1>11, <2>2 DEF Laid, Sound, Placed
  <2> QED
    BY <2>1, <2>2
<1> QED
  BY <1>1, <1>5, <1>8, <1>9, <1>10, <1>11 DEF Laid, Sound, Placed

(* Names and versions say nothing of the shape of the tree.                *)
LEMMA SamePlacesKeep ==
    ASSUME NEW rows, NEW after, SamePlaces(rows, after)
    PROVE  /\ Laid(rows) => Laid(after)
           /\ \A p : IsDirectory(rows, p) =>
                 IsDirectory(after, p) /\ ChildPath(after, p) = ChildPath(rows, p)
           /\ \A x \in Nodes : \A p : MayPut(rows, x, p) => MayPut(after, x, p)
<1>1. ASSUME NEW p, IsDirectory(rows, p)
      PROVE  IsDirectory(after, p) /\ ChildPath(after, p) = ChildPath(rows, p)
  BY <1>1 DEF SamePlaces, IsDirectory, ChildPath, Nodes
<1>2. ASSUME Laid(rows)
      PROVE  Laid(after)
  <2>1. ASSUME NEW x \in Nodes, after[x].there
        PROVE  Placed(after, x) /\ after[x].path \in Seq(Nodes)
    <3>1. /\ rows[x].there /\ after[x].parent = rows[x].parent
          /\ after[x].path = rows[x].path
      BY <2>1 DEF SamePlaces
    <3>2. Placed(rows, x) /\ rows[x].path \in Seq(Nodes)
      BY <1>2, <3>1 DEF Laid, Sound
    <3> QED
      BY <1>1, <3>1, <3>2 DEF Placed
  <2> QED
    BY <2>1 DEF Laid, Sound
<1>3. ASSUME NEW x \in Nodes, NEW p, MayPut(rows, x, p)
      PROVE  MayPut(after, x, p)
  <2>1. after[x].there /\ after[x].path = rows[x].path /\ IsDirectory(after, p)
    BY <1>1, <1>3 DEF MayPut, SamePlaces
  <2>2. p # Root => after[p].path = rows[p].path
    BY <1>3 DEF MayPut, SamePlaces, IsDirectory, Nodes
  <2> QED
    BY <1>3, <2>1, <2>2 DEF MayPut
<1> QED
  BY <1>1, <1>2, <1>3

(* A new row lies below a directory, and nothing lies below the new row.   *)
LEMMA InsertedLaid ==
    ASSUME NEW rows, Laid(rows), NEW x \in Nodes, ~rows[x].there,
           NEW p, IsDirectory(rows, p), NEW row,
           row.parent = p, row.path = ChildPath(rows, p),
           NEW after, \A y \in Nodes : after[y] = IF y = x THEN row ELSE rows[y],
           row.there
    PROVE  Laid(after)
<1>1. ASSUME NEW q, IsDirectory(rows, q)
      PROVE  IsDirectory(after, q) /\ ChildPath(after, q) = ChildPath(rows, q)
  BY <1>1 DEF IsDirectory, ChildPath, Nodes
<1>2. ASSUME NEW y \in Nodes, after[y].there
      PROVE  Placed(after, y) /\ after[y].path \in Seq(Nodes)
  <2>1. CASE y = x
    <3>1. after[y].parent = p /\ after[y].path = ChildPath(rows, p)
      BY <2>1
    <3> QED
      BY <1>1, <3>1, ChildPathIsPath DEF Placed
  <2>2. CASE y # x
    <3>1. after[y] = rows[y]
      BY <2>2
    <3>2. Placed(rows, y) /\ rows[y].path \in Seq(Nodes)
      BY <1>2, <3>1 DEF Laid, Sound
    <3> QED
      BY <1>1, <3>1, <3>2 DEF Placed
  <2> QED
    BY <2>1, <2>2
<1> QED
  BY <1>2 DEF Laid, Sound

(* What stays has its parent.                                              *)
LEMMA RemovedLaid ==
    ASSUME NEW rows, Laid(rows), NEW ids,
           NEW after, \A y \in Nodes : after[y] = IF y \in ids THEN Absent ELSE rows[y],
           \A y \in Nodes : rows[y].there /\ y \notin ids =>
              rows[y].parent \notin ids
    PROVE  Laid(after)
<1>1. ASSUME NEW y \in Nodes, after[y].there
      PROVE  Placed(after, y) /\ after[y].path \in Seq(Nodes)
  <2>1. y \notin ids /\ after[y] = rows[y]
    BY <1>1 DEF Absent
  <2>2. Placed(rows, y) /\ rows[y].path \in Seq(Nodes) /\ rows[y].parent \notin ids
    BY <1>1, <2>1 DEF Laid, Sound
  <2>3. ASSUME NEW q, IsDirectory(rows, q), q \notin ids
        PROVE  IsDirectory(after, q) /\ ChildPath(after, q) = ChildPath(rows, q)
    BY <2>3 DEF IsDirectory, ChildPath, Nodes
  <2> QED
    BY <2>1, <2>2, <2>3 DEF Placed
<1> QED
  BY <1>1 DEF Laid, Sound

(* Delete takes everything whose path leads through x, so nothing that      *)
(* stays has a parent that goes.                                           *)
LEMMA BelowIsClosed ==
    ASSUME Laid(node), NEW x \in Nodes, node[x].there,
           NEW y \in Nodes, node[y].there, y \notin Below(x) \union {x}
    PROVE  node[y].parent \notin Below(x) \union {x}
<1>1. PICK q : q = node[y].parent
  OBVIOUS
<1>2. IsDirectory(node, q) /\ node[y].path = ChildPath(node, q)
  BY <1>1 DEF Laid, Sound, Placed
<1>3. PICK u \in Seq(Nodes) : u = node[x].path
  BY DEF Laid
<1>4. ~IsPrefix(Append(u, x), node[y].path)
  BY <1>3 DEF Below
<1>5. CASE q = Root
  BY <1>1, <1>5, NamesAssumption DEF Below
<1>6. CASE q # Root
  <2>1. q \in Nodes /\ node[q].there
    BY <1>2, <1>6 DEF IsDirectory, Nodes
  <2>2. PICK t \in Seq(Nodes) : t = node[q].path
    BY <2>1 DEF Laid
  <2>3. node[y].path = Append(t, q)
    BY <1>2, <1>6, <2>2 DEF ChildPath
  <2>4. q # x
    <3>1. IsPrefix(Append(u, x), Append(u, x))
      BY PrefixOfAppend
    <3> QED
      BY <1>3, <1>4, <2>2, <2>3, <3>1
  <2>5. ~IsPrefix(Append(u, x), t)
    <3>1. IsPrefix(Append(u, x), t) => IsPrefix(Append(u, x), Append(t, q))
      BY <2>1, PrefixOfAppend
    <3> QED
      BY <1>4, <2>3, <3>1
  <2> QED
    BY <1>1, <1>3, <2>2, <2>4, <2>5 DEF Below
<1> QED
  BY <1>5, <1>6

(* A move of one row, with or without the rest of the target directory.    *)
LEMMA MovedLaid ==
    ASSUME IsTree(node), Laid(node), NEW x \in Nodes, NEW p, MayPut(node, x, p),
           NEW items \in SUBSET Nodes, x \in items,
           \A y \in items \ {x} : node[y].there /\ node[y].parent = p
    PROVE  Laid(Shifted(node, items, p, Paths(items, p, ChildPath(node, p))))
<1>1. PICK rows : rows = node
  OBVIOUS
<1>2. PICK path : path = ChildPath(rows, p)
  OBVIOUS
<1>3. PICK after : after = MoveOne(rows, x, p, path)
  OBVIOUS
<1>4. IsTree(rows) /\ Laid(rows) /\ MayPut(rows, x, p) /\ rows[x].there
  BY <1>1 DEF MayPut
<1>5. PICK old : old = Append(rows[x].path, x)
  OBVIOUS
<1>6. PICK new : new = Append(path, x)
  OBVIOUS
<1>7. Rewritten(rows, after, x, p, path, old, new)
  BY <1>3, <1>4, <1>5, <1>6, MoveOneRows
<1>8. /\ IsTree(after) /\ Laid(after)
      /\ \A y \in Nodes : rows[y].there /\ rows[y].parent = p /\ y # x =>
            after[y].parent = p /\ after[y].path = path
  BY <1>2, <1>3, <1>4, <1>7, MoveOneLaid DEF Rewritten
<1>9. \A y \in Nodes : after[y].there = rows[y].there
  <2> TAKE y \in Nodes
  <2>1. CASE ~rows[y].there
    <3>1. after[y] = Absent
      BY <1>7, <2>1 DEF Rewritten
    <3> QED
      BY <1>4, <2>1, <3>1, TreeRow
  <2>2. CASE rows[y].there
    <3>1. \E a, b, c, d : after[y] = Row(a, b, c, d)
      BY <1>7, <2>2 DEF Rewritten
    <3> QED
      <4>1. after[y].there = TRUE
        BY <3>1, RowFields
      <4>2. rows[y].there = TRUE
        BY <1>4, <2>2, TreeRow
      <4> QED
        BY <4>1, <4>2
  <2> QED
    BY <2>1, <2>2
<1>10. ASSUME NEW t, IsTree(t), Laid(t), NEW y \in Nodes, t[y].there,
              t[y].parent = p, t[y].path = path
       PROVE  MoveOne(t, y, p, path) = t
  <2>1. PICK way : way = Append(path, y)
    OBVIOUS
  <2>2. PICK s : s = MoveOne(t, y, p, path)
    OBVIOUS
  <2>3. way = Append(t[y].path, y)
    BY <1>10, <2>1
  <2>4. Rewritten(t, s, y, p, path, way, way)
    BY <1>10, <2>1, <2>2, <2>3, MoveOneRows
  <2>5. ASSUME NEW z \in Nodes
        PROVE  s[z] = t[z]
    <3>1. CASE ~t[z].there
      BY <1>10, <2>4, <3>1, TreeRow DEF Rewritten
    <3>2. CASE t[z].there
      <4>1. t[z] = Row(t[z].parent, t[z].path, t[z].label, t[z].current)
        BY <1>10, <3>2, TreeRow DEF IsRow
      <4>2. s[z] = Row(t[z].parent, Repath(t[z].path, way, way), t[z].label, t[z].current)
        BY <1>10, <2>4, <3>2 DEF Rewritten
      <4>3. Repath(t[z].path, way, way) = t[z].path
        <5>1. t[z].path \in Seq(Nodes) /\ way \in Seq(Nodes)
          BY <1>10, <2>3, <3>2, AppendProperties DEF Laid
        <5> QED
          BY <5>1, RepathSame
      <4> QED
        BY <4>1, <4>2, <4>3
    <3> QED
      BY <3>1, <3>2
  <2> QED
    BY <1>10, <2>2, <2>4, <2>5 DEF Rewritten, IsTree
<1>11. \A y \in items \ {x} : /\ MoveOne(rows, y, p, path) = rows
                              /\ MoveOne(after, y, p, path) = after
  <2> TAKE y \in items \ {x}
  <2>1. y \in Nodes /\ y # x /\ rows[y].there /\ rows[y].parent = p
    BY <1>1
  <2>2. rows[y].path = path
    BY <1>2, <1>4, <2>1 DEF Laid, Sound, Placed
  <2>3. after[y].there /\ after[y].parent = p /\ after[y].path = path
    BY <1>8, <1>9, <2>1
  <2> QED
    BY <1>4, <1>8, <1>10, <2>1, <2>2, <2>3
<1>12. IsFiniteSet(items)
  BY TreeAssumption, FS_Subset
<1>13. MoveAll(rows, items, p, path) = after
  BY <1>3, <1>11, <1>12, FoldIsOneMove
<1>14. PICK paths : paths = Paths(items, p, path)
  OBVIOUS
<1>15. PICK moved : moved = Shifted(rows, items, p, paths)
  OBVIOUS
<1>16. /\ DOMAIN paths = {z \in Nodes : rows[z].there
                                /\ (z \in items \/ after[z].path # rows[z].path)}
       /\ \A z \in DOMAIN paths : paths[z] = after[z].path
  BY <1>1, <1>13, <1>14 DEF Paths
<1>17. ASSUME NEW y \in Nodes
       PROVE  /\ moved[y].there = after[y].there
              /\ after[y].there => /\ moved[y].parent = after[y].parent
                                   /\ moved[y].path = after[y].path
  <2>1. CASE ~rows[y].there
    <3>1. moved[y] = rows[y]
      BY <1>15, <2>1 DEF Shifted
    <3> QED
      BY <1>9, <2>1, <3>1
  <2>2. CASE rows[y].there /\ y \in DOMAIN paths
    <3>1. PICK q : q = IF y \in items THEN p ELSE rows[y].parent
      OBVIOUS
    <3>2. moved[y] = Row(q, after[y].path, rows[y].label, rows[y].current)
      BY <1>15, <1>16, <2>2, <3>1 DEF Shifted
    <3>3. /\ moved[y].there = TRUE /\ moved[y].parent = q
          /\ moved[y].path = after[y].path
      BY <3>2, RowFields
    <3>4. after[y].there = TRUE
      BY <1>4, <1>9, <2>2, TreeRow
    <3>5. after[y].parent = q
      <4>1. CASE y = x
        <5>1. \E a, b, c : after[x] = Row(p, a, b, c)
          BY <1>7 DEF Rewritten
        <5> QED
          BY <3>1, <4>1, <5>1, RowFields
      <4>2. CASE y \in items \ {x}
        BY <1>1, <1>8, <3>1, <4>2
      <4>3. CASE y \notin items
        <5>1. \E a, b, c : after[y] = Row(rows[y].parent, a, b, c)
          BY <1>7, <2>2, <4>3 DEF Rewritten
        <5> QED
          BY <3>1, <4>3, <5>1, RowFields
      <4> QED
        BY <4>1, <4>2, <4>3
    <3> QED
      BY <3>3, <3>4, <3>5
  <2>3. CASE rows[y].there /\ y \notin DOMAIN paths
    <3>1. moved[y] = rows[y]
      BY <1>15, <2>3 DEF Shifted
    <3>2. y \notin items /\ after[y].path = rows[y].path
      BY <1>16, <2>3
    <3>3. \E a, b, c : after[y] = Row(rows[y].parent, a, b, c)
      BY <1>7, <2>3, <3>2 DEF Rewritten
    <3>4. after[y].parent = rows[y].parent
      BY <3>3, RowFields
    <3> QED
      BY <1>9, <3>1, <3>2, <3>4
  <2> QED
    BY <2>1, <2>2, <2>3
<1>18. Laid(moved)
  BY <1>8, <1>17, SamePlacesKeep DEF SamePlaces
<1> QED
  BY <1>1, <1>2, <1>14, <1>15, <1>18

(* A move that has been read does the same to the same places.             *)
LEMMA ShiftedPlaces ==
    ASSUME NEW rows, NEW after, SamePlaces(rows, after), NEW items, NEW p, NEW paths,
           Laid(Shifted(rows, items, p, paths))
    PROVE  Laid(Shifted(after, items, p, paths))
<1>1. PICK a : a = Shifted(rows, items, p, paths)
  OBVIOUS
<1>2. PICK b : b = Shifted(after, items, p, paths)
  OBVIOUS
<1>3. ASSUME NEW y \in Nodes
      PROVE  /\ b[y].there = a[y].there
             /\ a[y].there => b[y].parent = a[y].parent /\ b[y].path = a[y].path
  <2>1. CASE rows[y].there /\ y \in DOMAIN paths
    <3>1. PICK q : q = IF y \in items THEN p ELSE rows[y].parent
      OBVIOUS
    <3>2. after[y].there /\ after[y].parent = rows[y].parent
      BY <2>1 DEF SamePlaces
    <3>3. /\ a[y] = Row(q, paths[y], rows[y].label, rows[y].current)
          /\ b[y] = Row(q, paths[y], after[y].label, after[y].current)
      BY <1>1, <1>2, <2>1, <3>1, <3>2 DEF Shifted
    <3>4. /\ a[y].there = TRUE /\ a[y].parent = q /\ a[y].path = paths[y]
          /\ b[y].there = TRUE /\ b[y].parent = q /\ b[y].path = paths[y]
      BY <3>3, RowFields
    <3> QED
      BY <3>4
  <2>2. CASE ~(rows[y].there /\ y \in DOMAIN paths)
    <3>1. after[y].there = rows[y].there
      BY DEF SamePlaces
    <3>2. a[y] = rows[y] /\ b[y] = after[y]
      BY <1>1, <1>2, <2>2, <3>1 DEF Shifted
    <3> QED
      BY <3>2 DEF SamePlaces
  <2> QED
    BY <2>1, <2>2
<1>4. Laid(b)
  BY <1>1, <1>3, SamePlacesKeep DEF SamePlaces
<1> QED
  BY <1>2, <1>4

(* What an editor has read and decided still fits the tree, as long as it   *)
(* is the tree that was read.                                              *)
Fits(plan) ==
    /\ plan.op \in {"create", "import"} =>
          /\ IsDirectory(node, plan.parent)
          /\ plan.path = ChildPath(node, plan.parent)
    /\ plan.op = "move" =>
          /\ plan.path = ChildPath(node, plan.parent)
          /\ plan.items \in SUBSET Nodes
          /\ \E x \in plan.items :
                /\ MayPut(node, x, plan.parent)
                /\ \A y \in plan.items \ {x} :
                      node[y].there /\ node[y].parent = plan.parent
    /\ plan.op = "moving" =>
          Laid(Shifted(node, plan.items, plan.parent, plan.paths))
    /\ plan.op = "delete" =>
          \A y \in Nodes : node[y].there /\ y \notin plan.ids =>
             node[y].parent \notin plan.ids

TreeInv ==
    ~stale =>
       /\ Laid(node)
       /\ \A e \in Editors : e \in fresh => Fits(editor[e])

(* As long as parents and paths stay, what was decided still fits.         *)
LEMMA FitsStays ==
    ASSUME SamePlaces(node, node'), NEW plan, Fits(plan)
    PROVE  Fits(plan)'
<1>1. PICK rows : rows = node
  OBVIOUS
<1>2. PICK after : after = node'
  OBVIOUS
<1>3. /\ \A p : IsDirectory(rows, p) =>
            IsDirectory(after, p) /\ ChildPath(after, p) = ChildPath(rows, p)
      /\ \A x \in Nodes : \A p : MayPut(rows, x, p) => MayPut(after, x, p)
  BY <1>1, <1>2, SamePlacesKeep
<1>4. \A y \in Nodes : rows[y].there =>
         after[y].there /\ after[y].parent = rows[y].parent
  BY <1>1, <1>2 DEF SamePlaces
<1>5. ASSUME plan.op \in {"create", "import"}
      PROVE  IsDirectory(after, plan.parent) /\ plan.path = ChildPath(after, plan.parent)
  BY <1>1, <1>3, <1>5 DEF Fits
<1>6. ASSUME plan.op = "move"
      PROVE  /\ plan.path = ChildPath(after, plan.parent)
             /\ plan.items \in SUBSET Nodes
             /\ \E x \in plan.items :
                   /\ MayPut(after, x, plan.parent)
                   /\ \A y \in plan.items \ {x} :
                         after[y].there /\ after[y].parent = plan.parent
  <2>1. /\ plan.path = ChildPath(rows, plan.parent)
        /\ plan.items \in SUBSET Nodes
    BY <1>1, <1>6 DEF Fits
  <2>2. PICK x \in plan.items :
           /\ MayPut(rows, x, plan.parent)
           /\ \A y \in plan.items \ {x} :
                 rows[y].there /\ rows[y].parent = plan.parent
    BY <1>1, <1>6 DEF Fits
  <2>3. MayPut(after, x, plan.parent) /\ IsDirectory(rows, plan.parent)
    BY <1>3, <2>1, <2>2 DEF MayPut
  <2>4. \A y \in plan.items \ {x} : after[y].there /\ after[y].parent = plan.parent
    BY <1>4, <2>1, <2>2
  <2> QED
    BY <1>3, <2>1, <2>3, <2>4
<1>7. ASSUME plan.op = "moving"
      PROVE  Laid(Shifted(after, plan.items, plan.parent, plan.paths))
  <2>1. Laid(Shifted(rows, plan.items, plan.parent, plan.paths))
    BY <1>1, <1>7 DEF Fits
  <2>2. SamePlaces(rows, after)
    BY <1>1, <1>2
  <2> QED
    BY <2>1, <2>2, ShiftedPlaces
<1>8. ASSUME plan.op = "delete", NEW y \in Nodes, after[y].there, y \notin plan.ids
      PROVE  after[y].parent \notin plan.ids
  <2>1. rows[y].there /\ after[y].parent = rows[y].parent
    BY <1>1, <1>2, <1>8 DEF SamePlaces
  <2> QED
    BY <1>1, <1>8, <2>1 DEF Fits
<1> QED
  BY <1>2, <1>5, <1>6, <1>7, <1>8 DEF Fits

LEMMA TreeRows == RowsOK => IsTree(node)
BY DEF RowsOK, IsTree

(* An edit that leaves parents and paths alone.                            *)
LEMMA SteadyTree ==
    ASSUME TreeInv, SamePlaces(node, node'), stale => stale', fresh' \subseteq fresh,
           \A e \in Editors : e \in fresh' =>
              editor'[e] = editor[e] \/ editor'[e] = Idle
    PROVE  TreeInv'
<1> SUFFICES ASSUME ~stale'
             PROVE  /\ Laid(node')
                    /\ \A e \in Editors : e \in fresh' => Fits(editor[e])'
  BY DEF TreeInv
<1>1. Laid(node) /\ \A e \in Editors : e \in fresh => Fits(editor[e])
  BY DEF TreeInv
<1>2. Laid(node')
  BY <1>1, SamePlacesKeep
<1>3. ASSUME NEW e \in Editors, e \in fresh'
      PROVE  Fits(editor[e])'
  <2>1. CASE editor'[e] = editor[e]
    <3>1. PICK plan : plan = editor[e]
      OBVIOUS
    <3>2. Fits(plan)'
      BY <1>1, <1>3, <3>1, FitsStays
    <3> QED
      BY <2>1, <3>1, <3>2 DEF Fits
  <2>2. CASE editor'[e] = Idle
    BY <2>2 DEF Fits, Idle
  <2> QED
    BY <1>3, <2>1, <2>2
<1> QED
  BY <1>2, <1>3

(* An edit that changes the tree outdates what was decided.                *)
LEMMA ReshapedTree ==
    ASSUME ~stale' => Laid(node'), fresh' = {}
    PROVE  TreeInv'
BY DEF TreeInv

(* A label or a version of one row.                                        *)
LEMMA OneRowSteady ==
    ASSUME RowsOK, NEW x \in Nodes, NEW row, node[x].there,
           row.there = TRUE, row.parent = node[x].parent, row.path = node[x].path,
           node' = [node EXCEPT ![x] = row]
    PROVE  SamePlaces(node, node')
<1>1. node[x].there = TRUE
  BY IsThere
<1>2. node'[x] = row /\ \A y \in Nodes : y # x => node'[y] = node[y]
  BY DEF RowsOK
<1> QED
  BY <1>1, <1>2 DEF SamePlaces

LEMMA RelabelledSteady ==
    ASSUME RowsOK, NEW x \in Nodes, NEW name, node[x].there,
           node' = [node EXCEPT ![x] = Labelled(@, name)]
    PROVE  SamePlaces(node, node')
<1>1. PICK row : row = Labelled(node[x], name)
  OBVIOUS
<1>2. node' = [node EXCEPT ![x] = row]
  BY <1>1 DEF RowsOK
<1>3. row.there = TRUE /\ row.parent = node[x].parent /\ row.path = node[x].path
  BY <1>1, RowFields DEF Labelled
<1> QED
  BY <1>2, <1>3, OneRowSteady

LEMMA UsingSteady ==
    ASSUME RowsOK, NEW x \in Nodes, NEW v, node[x].there,
           node' = [node EXCEPT ![x] = Using(@, v)]
    PROVE  SamePlaces(node, node')
<1>1. PICK row : row = Using(node[x], v)
  OBVIOUS
<1>2. node' = [node EXCEPT ![x] = row]
  BY <1>1 DEF RowsOK
<1>3. row.there = TRUE /\ row.parent = node[x].parent /\ row.path = node[x].path
  BY <1>1, RowFields DEF Using
<1> QED
  BY <1>2, <1>3, OneRowSteady

LEMMA InsertedTree ==
    ASSUME TreeOK, ~stale => Laid(node), NEW x \in Nodes, NEW p, NEW path, NEW name,
           NEW code, NEW key, Inserted(x, p, path, name, code, key),
           IsDirectory(node, p), path = ChildPath(node, p)
    PROVE  ~stale => Laid(node')
<1> SUFFICES ASSUME ~stale PROVE Laid(node')
  OBVIOUS
<1>1. PICK row : row = Row(p, path, name, IF x \in Files THEN 1 ELSE 0)
  OBVIOUS
<1>2. row.parent = p /\ row.path = path /\ row.there
  BY <1>1, RowFields
<1>3. x \notin used /\ node' = [node EXCEPT ![x] = row]
  BY <1>1 DEF Inserted
<1>4. ~node[x].there
  BY <1>3 DEF TreeOK
<1>5. PICK rows : rows = node
  OBVIOUS
<1>6. PICK after : after = node'
  OBVIOUS
<1>7. \A y \in Nodes : after[y] = IF y = x THEN row ELSE rows[y]
  BY <1>3, <1>5, <1>6 DEF TreeOK, RowsOK
<1>8. /\ Laid(rows) /\ ~rows[x].there /\ IsDirectory(rows, p)
      /\ path = ChildPath(rows, p)
  BY <1>4, <1>5
<1>9. Laid(after)
  BY <1>2, <1>7, <1>8, InsertedLaid
<1> QED
  BY <1>6, <1>9

LEMMA RemovedTree ==
    ASSUME ~stale => Laid(node), NEW ids, Removed(ids),
           ~stale => \A y \in Nodes : node[y].there /\ y \notin ids =>
                        node[y].parent \notin ids
    PROVE  ~stale => Laid(node')
<1> SUFFICES ASSUME ~stale PROVE Laid(node')
  OBVIOUS
<1>1. PICK rows : rows = node
  OBVIOUS
<1>2. PICK after : after = node'
  OBVIOUS
<1>3. \A y \in Nodes : after[y] = IF y \in ids THEN Absent ELSE rows[y]
  BY <1>1, <1>2 DEF Removed
<1>4. Laid(after)
  BY <1>1, <1>3, RemovedLaid
<1> QED
  BY <1>2, <1>4

(* The directory, and then the file in it.                                 *)
LEMMA ImportedTree ==
    ASSUME Shape, Laid(node), NEW e \in Editors, CommitImport(e), Fits(editor[e])
    PROVE  Laid(node')
<1>1. PICK plan : plan = editor[e]
  OBVIOUS
<1>2. plan.op = "import" /\ plan.dir \in Dirs /\ plan.node \in Files
  BY <1>1 DEF CommitImport, Shape, PlansOK, PlanOK
<1>3. PICK d, f, p, path :
         d = plan.dir /\ f = plan.node /\ p = plan.parent /\ path = plan.path
  OBVIOUS
<1>4. /\ d \in Nodes /\ f \in Nodes /\ d # f /\ d \in Dirs /\ d # Root
      /\ d \notin used /\ f \notin used
  BY <1>1, <1>2, <1>3, NamesAssumption DEF CommitImport, Nodes
<1>5. PICK rows : rows = node
  OBVIOUS
<1>6. /\ Laid(rows) /\ ~rows[d].there /\ ~rows[f].there
      /\ IsDirectory(rows, p) /\ path = ChildPath(rows, p)
  <2>1. IsDirectory(node, plan.parent) /\ plan.path = ChildPath(node, plan.parent)
    BY <1>1, <1>2 DEF Fits
  <2>2. ~node[d].there /\ ~node[f].there
    BY <1>4 DEF Shape, TreeOK
  <2> QED
    BY <1>3, <1>5, <2>1, <2>2
<1>7. PICK name, way : name = New /\ way = Append(path, d)
  OBVIOUS
<1>8. PICK dir : dir = Row(p, path, name, 0)
  OBVIOUS
<1>9. PICK row : row = Row(d, way, name, 1)
  OBVIOUS
<1>10. /\ dir.there /\ dir.parent = p /\ dir.path = path
      /\ row.there /\ row.parent = d /\ row.path = Append(path, d)
  <2>1. dir.there = TRUE /\ dir.parent = p /\ dir.path = path
    BY <1>8, RowFields
  <2>2. row.there = TRUE /\ row.parent = d /\ row.path = way
    BY <1>9, RowFields
  <2> QED
    BY <1>7, <2>1, <2>2
<1>11. PICK mid : mid = [y \in Nodes |-> IF y = d THEN dir ELSE rows[y]]
  OBVIOUS
<1>12. \A y \in Nodes : mid[y] = IF y = d THEN dir ELSE rows[y]
  BY <1>11
<1>13. Laid(mid)
  BY <1>4, <1>6, <1>10, <1>12, InsertedLaid
<1>14. PICK after : after = node'
  OBVIOUS
<1>15. \A y \in Nodes : after[y] = IF y = f THEN row ELSE mid[y]
  <2>1. node' = [node EXCEPT ![d] = dir, ![f] = row]
    BY <1>1, <1>3, <1>8, <1>9, <1>7 DEF CommitImport
  <2> QED
    BY <1>4, <1>5, <1>12, <1>14, <2>1 DEF Shape, TreeOK, RowsOK
<1>16. /\ ~mid[f].there /\ IsDirectory(mid, d)
       /\ Append(path, d) = ChildPath(mid, d)
  BY <1>4, <1>6, <1>10, <1>12 DEF IsDirectory, ChildPath
<1>17. Laid(after)
  BY <1>4, <1>10, <1>13, <1>15, <1>16, InsertedLaid
<1> QED
  BY <1>14, <1>17

(* An editor has read the tree.                                            *)
LEMMA PlannedTree ==
    ASSUME Shape, TreeInv, NEW e \in Editors, NEW plan,
           editor' = [editor EXCEPT ![e] = plan], node' = node, stale' = stale,
           fresh' \subseteq fresh \union {e},
           ~stale /\ e \in fresh' => Fits(plan)
    PROVE  TreeInv'
<1>1. \A i \in Editors : editor'[i] = IF i = e THEN plan ELSE editor[i]
  BY DEF Shape, PlansOK
<1>2. ASSUME NEW i \in Editors, i \in fresh', ~stale
      PROVE  Fits(editor[i])'
  <2>1. CASE i = e
    BY <1>1, <1>2, <2>1 DEF Fits
  <2>2. CASE i # e
    <3>1. editor'[i] = editor[i] /\ Fits(editor[i])
      BY <1>1, <1>2, <2>2 DEF TreeInv
    <3> QED
      BY <3>1 DEF Fits
  <2> QED
    BY <2>1, <2>2
<1> QED
  BY <1>2 DEF TreeInv

LEMMA DecideTree ==
    ASSUME Shape, TreeInv, NEW e \in Editors, Decide(e)
    PROVE  TreeInv'
<1>1. ~stale => Laid(node)
  BY DEF TreeInv
<1>2. ASSUME NEW plan, Decided(e, plan), ~stale => Fits(plan)
      PROVE  TreeInv'
  <2>1. /\ editor' = [editor EXCEPT ![e] = plan] /\ node' = node
        /\ stale' = stale /\ fresh' = fresh \union {e}
    BY <1>2 DEF Decided, tree
  <2> QED
    BY <1>2, <2>1, PlannedTree
<1>3. ASSUME NEW x \in Nodes, NEW p \in Places, DecideCreate(e, x, p)
      PROVE  TreeInv'
  <2>1. PICK path : path = ChildPath(node, p)
    OBVIOUS
  <2>2. PICK plan : plan = [op |-> "create", node |-> x, parent |-> p, path |-> path]
    OBVIOUS
  <2>3. Decided(e, plan) /\ IsDirectory(node, p)
    BY <1>3, <2>1, <2>2 DEF DecideCreate
  <2>4. plan.op = "create" /\ plan.parent = p /\ plan.path = path
    BY <2>2
  <2>5. Fits(plan)
    BY <2>1, <2>3, <2>4 DEF Fits
  <2> QED
    BY <1>2, <2>3, <2>5
<1>4. ASSUME NEW x \in Nodes, NEW p \in Places, DecideMove(e, x, p)
      PROVE  TreeInv'
  <2>1. PICK path : path = ChildPath(node, p)
    OBVIOUS
  <2>2. PICK others \in {{}, {y \in Nodes : node[y].there /\ node[y].parent = p}} :
           Decided(e, [op |-> "move", items |-> others \union {x}, parent |-> p,
                       path |-> path])
    BY <1>4, <2>1 DEF DecideMove
  <2>3. PICK items : items = others \union {x}
    OBVIOUS
  <2>4. PICK plan : plan = [op |-> "move", items |-> items, parent |-> p, path |-> path]
    OBVIOUS
  <2>5. Decided(e, plan)
    BY <2>2, <2>3, <2>4
  <2>6. /\ plan.op = "move" /\ plan.items = items
        /\ plan.parent = p /\ plan.path = path
    BY <2>4
  <2>7. MayPut(node, x, p)
    BY <1>4 DEF DecideMove, MayMove, MayPut
  <2>8. items \in SUBSET Nodes /\ x \in items
    BY <2>2, <2>3
  <2>9. \A y \in items \ {x} : node[y].there /\ node[y].parent = p
    BY <2>2, <2>3
  <2>10. Fits(plan)
    BY <2>1, <2>6, <2>7, <2>8, <2>9 DEF Fits
  <2> QED
    BY <1>2, <2>5, <2>10
<1>5. ASSUME NEW f \in Files, DecideUpdate(e, f)
      PROVE  TreeInv'
  <2>1. PICK label, code : label = node[f].label
                           /\ code = versions[f][node[f].current].code
    OBVIOUS
  <2>2. PICK sends, plan :
           /\ plan = [op |-> "update", node |-> f, sends |-> sends,
                      label |-> label, code |-> code]
           /\ Decided(e, plan)
    BY <1>5, <2>1 DEF DecideUpdate
  <2>3. plan.op = "update"
    BY <2>2
  <2>4. Fits(plan)
    BY <2>3 DEF Fits
  <2> QED
    BY <1>2, <2>2, <2>4
<1>6. ASSUME NEW x \in Nodes, DecideDelete(e, x)
      PROVE  TreeInv'
  <2>1. PICK ids : ids = Below(x) \union {x}
    OBVIOUS
  <2>2. PICK plan : plan = [op |-> "delete", ids |-> ids]
    OBVIOUS
  <2>3. Decided(e, plan) /\ node[x].there
    BY <1>6, <2>1, <2>2 DEF DecideDelete
  <2>4. plan.op = "delete" /\ plan.ids = ids
    BY <2>2
  <2>5. ~stale => \A y \in Nodes : node[y].there /\ y \notin ids =>
                     node[y].parent \notin ids
    BY <1>1, <2>1, <2>3, BelowIsClosed
  <2>6. ~stale => Fits(plan)
    BY <2>4, <2>5 DEF Fits
  <2> QED
    BY <1>2, <2>3, <2>6
<1>7. ASSUME NEW d \in Dirs, NEW f \in Files, NEW p \in Places,
             DecideImport(e, d, f, p)
      PROVE  TreeInv'
  <2>1. PICK path, number : path = ChildPath(node, p) /\ number = Len(versions[f]) + 1
    OBVIOUS
  <2>2. CASE Decided(e, [op |-> "overwrite", node |-> f, number |-> number])
    <3>1. PICK plan : plan = [op |-> "overwrite", node |-> f, number |-> number]
      OBVIOUS
    <3>2. plan.op = "overwrite"
      BY <3>1
    <3>3. Fits(plan)
      BY <3>2 DEF Fits
    <3> QED
      BY <1>2, <2>2, <3>1, <3>3
  <2>3. CASE /\ Decided(e, [op |-> "import", dir |-> d, node |-> f, parent |-> p,
                            path |-> path])
             /\ IsDirectory(node, p)
    <3>1. PICK plan : plan = [op |-> "import", dir |-> d, node |-> f, parent |-> p,
                              path |-> path]
      OBVIOUS
    <3>2. plan.op = "import" /\ plan.parent = p /\ plan.path = path
      BY <3>1
    <3>3. Fits(plan)
      BY <2>1, <2>3, <3>2 DEF Fits
    <3> QED
      BY <1>2, <2>3, <3>1, <3>3
  <2> QED
    BY <1>7, <2>1, <2>2, <2>3 DEF DecideImport
<1> QED
  BY <1>3, <1>4, <1>5, <1>6, <1>7 DEF Decide

LEMMA RereadTree ==
    ASSUME Shape, TreeInv, NEW e \in Editors, Reread(e)
    PROVE  TreeInv'
<1>1. node' = node /\ stale' = stale /\ fresh' = fresh
  BY DEF Reread, tree
<1>2. PICK plan : plan = editor[e]
  OBVIOUS
<1>3. ~stale /\ e \in fresh => Laid(node) /\ Fits(plan)
  BY <1>2 DEF TreeInv
<1>4. CASE plan.op = "move"
  <2>1. PICK paths : paths = Paths(plan.items, plan.parent, plan.path)
    OBVIOUS
  <2>2. PICK next : next = [op |-> "moving", items |-> plan.items,
                            parent |-> plan.parent, paths |-> paths]
    OBVIOUS
  <2>3. editor' = [editor EXCEPT ![e] = next]
    BY <1>2, <1>4, <2>1, <2>2 DEF Reread
  <2>4. /\ next.op = "moving" /\ next.items = plan.items
        /\ next.parent = plan.parent /\ next.paths = paths
    BY <2>2
  <2>5. ASSUME ~stale, e \in fresh
        PROVE  Laid(Shifted(node, plan.items, plan.parent, paths))
    <3>1. /\ plan.path = ChildPath(node, plan.parent) /\ plan.items \in SUBSET Nodes
          /\ \E x \in plan.items :
                /\ MayPut(node, x, plan.parent)
                /\ \A y \in plan.items \ {x} :
                      node[y].there /\ node[y].parent = plan.parent
      BY <1>3, <1>4, <2>5 DEF Fits
    <3>2. PICK x \in plan.items :
             /\ MayPut(node, x, plan.parent)
             /\ \A y \in plan.items \ {x} :
                   node[y].there /\ node[y].parent = plan.parent
      BY <3>1
    <3>3. x \in Nodes /\ Laid(node) /\ IsTree(node)
      BY <1>3, <2>5, <3>1, TreeRows DEF Shape, TreeOK
    <3>4. Laid(Shifted(node, plan.items, plan.parent,
                       Paths(plan.items, plan.parent, ChildPath(node, plan.parent))))
      BY <3>1, <3>2, <3>3, MovedLaid
    <3> QED
      BY <2>1, <3>1, <3>4
  <2>6. ~stale /\ e \in fresh => Fits(next)
    BY <2>4, <2>5 DEF Fits
  <2> QED
    BY <1>1, <2>3, <2>6, PlannedTree
<1>5. CASE plan.op = "update"
  <2>1. PICK current : current = node[plan.node].current
    OBVIOUS
  <2>2. PICK next : next = [op |-> "updating", node |-> plan.node, sends |-> plan.sends,
                            label |-> plan.label, code |-> plan.code,
                            current |-> current]
    OBVIOUS
  <2>3. editor' = [editor EXCEPT ![e] = next]
    BY <1>2, <1>5, <2>1, <2>2 DEF Reread
  <2>4. next.op = "updating"
    BY <2>2
  <2>5. Fits(next)
    BY <2>4 DEF Fits
  <2> QED
    BY <1>1, <2>3, <2>5, PlannedTree
<1> QED
  BY <1>2, <1>4, <1>5 DEF Reread

(* A file gets another current version.                                    *)
LEMMA NewCurrentTree ==
    ASSUME Shape, TreeInv, NEW f \in Files, NEW code, NEW key,
           NewCurrent(f, code, key), node[f].there, stale => stale', fresh' \subseteq fresh,
           \A e \in Editors : editor'[e] = editor[e] \/ editor'[e] = Idle
    PROVE  TreeInv'
<1>1. PICK v : v = Len(versions[f]) + 1
  OBVIOUS
<1>2. f \in Nodes /\ node' = [node EXCEPT ![f] = Using(@, v)]
  BY <1>1 DEF NewCurrent, Nodes
<1>3. RowsOK
  BY DEF Shape, TreeOK
<1>4. SamePlaces(node, node')
  BY <1>2, <1>3, UsingSteady
<1> QED
  BY <1>4, SteadyTree

LEMMA CommitTree ==
    ASSUME Shape, TreeInv, NEW e \in Editors, Commit(e)
    PROVE  TreeInv'
<1>1. RowsOK /\ TreeOK
  BY DEF Shape, TreeOK
<1>2. PICK plan : plan = editor[e] /\ PlanOK(plan)
  BY DEF Shape, PlansOK
<1>3. \A i \in Editors : editor'[i] = editor[i] \/ editor'[i] = Idle
  BY DEF Commit, Shape, PlansOK
<1>4. ASSUME stale' = (stale \/ e \notin fresh), Reshaped,
             ~stale /\ Laid(node) /\ Fits(plan) => Laid(node')
      PROVE  TreeInv'
  <2>1. ~stale' => Laid(node')
    BY <1>2, <1>4 DEF TreeInv
  <2> QED
    BY <1>4, <2>1, ReshapedTree DEF Reshaped
<1>5. ASSUME CommitCreate(e), stale' = (stale \/ e \notin fresh)
      PROVE  TreeInv'
  <2>1. PICK typed :
           Inserted(plan.node, plan.parent, plan.path, typed, New, Unkeyed)
    BY <1>2, <1>5 DEF CommitCreate
  <2>2. plan.op = "create" /\ plan.node \in Nodes /\ Reshaped
    BY <1>2, <1>5 DEF CommitCreate, PlanOK
  <2>3. ASSUME ~stale, Laid(node), Fits(plan)
        PROVE  Laid(node')
    <3>1. IsDirectory(node, plan.parent) /\ plan.path = ChildPath(node, plan.parent)
      BY <2>2, <2>3 DEF Fits
    <3> QED
      BY <1>1, <2>1, <2>2, <2>3, <3>1, InsertedTree
  <2> QED
    BY <1>4, <1>5, <2>2, <2>3
<1>6. ASSUME CommitMove(e), stale' = (stale \/ e \notin fresh)
      PROVE  TreeInv'
  <2>1. /\ plan.op = "moving" /\ Reshaped
        /\ node' = Shifted(node, plan.items, plan.parent, plan.paths)
    BY <1>2, <1>6 DEF CommitMove
  <2>2. Fits(plan) => Laid(node')
    BY <2>1 DEF Fits
  <2> QED
    BY <1>4, <1>6, <2>1, <2>2
<1>7. ASSUME CommitDelete(e), stale' = (stale \/ e \notin fresh)
      PROVE  TreeInv'
  <2>1. plan.op = "delete" /\ Removed(plan.ids) /\ Reshaped
    BY <1>2, <1>7 DEF CommitDelete
  <2>2. ASSUME ~stale, Laid(node), Fits(plan)
        PROVE  Laid(node')
    <3>1. \A y \in Nodes : node[y].there /\ y \notin plan.ids =>
             node[y].parent \notin plan.ids
      BY <2>1, <2>2 DEF Fits
    <3> QED
      BY <2>1, <2>2, <3>1, RemovedTree
  <2> QED
    BY <1>4, <1>7, <2>1, <2>2
<1>8. ASSUME CommitImport(e), stale' = (stale \/ e \notin fresh)
      PROVE  TreeInv'
  <2>1. Reshaped
    BY <1>8 DEF CommitImport
  <2>2. Laid(node) /\ Fits(plan) => Laid(node')
    BY <1>2, <1>8, ImportedTree
  <2> QED
    BY <1>4, <1>8, <2>1, <2>2
<1>9. ASSUME CommitUpdate(e), stale' = stale, fresh' \subseteq fresh
      PROVE  TreeInv'
  <2>1. PICK f \in Files : f = plan.node
    BY <1>2, <1>9 DEF CommitUpdate, PlanOK
  <2>2. PICK typed :
           node' = [node EXCEPT ![f] =
                 Labelled(@, IF plan.sends = "name" THEN typed ELSE plan.label)]
    BY <1>2, <1>9, <2>1 DEF CommitUpdate
  <2>3. PICK name : name = IF plan.sends = "name" THEN typed ELSE plan.label
    OBVIOUS
  <2>4. /\ f \in Nodes /\ node[f].there
        /\ node' = [node EXCEPT ![f] = Labelled(@, name)]
    BY <1>2, <1>9, <2>1, <2>2, <2>3 DEF CommitUpdate, Nodes
  <2>5. SamePlaces(node, node')
    BY <1>1, <2>4, RelabelledSteady
  <2> QED
    BY <1>3, <1>9, <2>4, <2>5, SteadyTree
<1>10. ASSUME CommitOverwrite(e), stale' = stale, fresh' \subseteq fresh
       PROVE  TreeInv'
  <2>1. PICK f \in Files : f = plan.node
    BY <1>2, <1>10 DEF CommitOverwrite, PlanOK
  <2>2. CASE node[f].there /\ NewCurrent(f, New, Unkeyed)
    <3>1. PICK code : code = New
      OBVIOUS
    <3> QED
      BY <1>3, <1>10, <2>2, <3>1, NewCurrentTree
  <2>3. CASE UNCHANGED tree
    <3>1. SamePlaces(node, node')
      BY <2>3 DEF tree, SamePlaces
    <3> QED
      BY <1>3, <1>10, <3>1, SteadyTree
  <2> QED
    BY <1>2, <1>10, <2>1, <2>2, <2>3 DEF CommitOverwrite
<1> QED
  BY <1>5, <1>6, <1>7, <1>8, <1>9, <1>10 DEF Commit

LEMMA ApplyTree ==
    ASSUME Shape, TreeInv, NEW r \in Requests, Apply(r)
    PROVE  TreeInv'
<1>1. RowsOK /\ TreeOK
  BY DEF Shape, TreeOK
<1>2. ~stale => Laid(node)
  BY DEF TreeInv
<1>3. PICK f \in Files : f = request[r].node
  BY ReadyIsItem DEF Apply, IsItem
<1>4. stale' = stale /\ editor' = editor /\ Carry(r)
  BY DEF Apply
<1>5. f \in Nodes
  BY DEF Nodes
<1>6. PICK name : name = Own(r)
  OBVIOUS
<1>7. PICK p : p = request[r].parent
  OBVIOUS
<1>8. CASE /\ Inserted(f, p, ChildPath(node, p), name, name, r)
           /\ IsDirectory(node, p) /\ Reshaped
  <2>1. PICK path : path = ChildPath(node, p)
    OBVIOUS
  <2>2. ~stale => Laid(node')
    BY <1>1, <1>2, <1>5, <1>8, <2>1, InsertedTree
  <2> QED
    BY <1>4, <1>8, <2>2, ReshapedTree DEF Reshaped
<1>9. CASE AsExpected(r) /\ NewCurrent(f, name, r) /\ UNCHANGED fresh
  <2>1. node[f].there
    BY <1>3, <1>9 DEF AsExpected, AtPath
  <2> QED
    BY <1>4, <1>9, <2>1, NewCurrentTree
<1>10. CASE /\ AsExpected(r) /\ UNCHANGED fresh
            /\ node' = [node EXCEPT ![f] = Labelled(@, name)]
  <2>1. node[f].there
    BY <1>3, <1>10 DEF AsExpected, AtPath
  <2>2. SamePlaces(node, node')
    BY <1>1, <1>5, <1>10, <2>1, RelabelledSteady
  <2> QED
    BY <1>4, <1>10, <2>2, SteadyTree
<1>11. CASE Removed({f}) /\ Reshaped
  <2>1. ~stale => \A y \in Nodes : node[y].there /\ y \notin {f} =>
                     node[y].parent \notin {f}
    <3>1. f \notin Dirs /\ f # Root
      BY <1>5, NamesAssumption
    <3>2. ~stale => \A y \in Nodes : node[y].there =>
             node[y].parent = Root \/ node[y].parent \in Dirs
      BY <1>2 DEF Laid, Sound, Placed, IsDirectory
    <3> QED
      BY <3>1, <3>2
  <2>2. PICK ids : ids = {f}
    OBVIOUS
  <2>3. ~stale => Laid(node')
    BY <1>2, <1>11, <2>1, <2>2, RemovedTree
  <2> QED
    BY <1>4, <1>11, <2>3, ReshapedTree DEF Reshaped
<1> QED
  BY <1>3, <1>4, <1>6, <1>7, <1>8, <1>9, <1>10, <1>11 DEF Carry

LEMMA TreeStays ==
    ASSUME Shape, TreeInv, [Next]_vars
    PROVE  TreeInv'
<1>1. RowsOK
  BY DEF Shape, TreeOK
<1>2. SamePlaces(node, node)
  BY DEF SamePlaces
<1>3. ASSUME NEW e \in Editors, GiveUp(e)
      PROVE  TreeInv'
  <2>1. /\ node' = node /\ stale' = stale /\ fresh' \subseteq fresh
        /\ editor' = [editor EXCEPT ![e] = Idle]
    BY <1>3 DEF GiveUp, tree
  <2>2. \A i \in Editors : editor'[i] = editor[i] \/ editor'[i] = Idle
    BY <2>1 DEF Shape, PlansOK
  <2> QED
    BY <1>2, <2>1, <2>2, SteadyTree
<1>4. ASSUME NEW x \in Nodes, Rename(x)
      PROVE  TreeInv'
  <2>1. PICK name : node' = [node EXCEPT ![x] = Labelled(@, name)]
    BY <1>4 DEF Rename
  <2>2. node[x].there /\ stale' = stale /\ fresh' = fresh /\ editor' = editor
    BY <1>4 DEF Rename, editors
  <2>3. SamePlaces(node, node')
    BY <1>1, <2>1, <2>2, RelabelledSteady
  <2> QED
    BY <2>2, <2>3, SteadyTree
<1>5. ASSUME NEW f \in Files, UseVersion(f)
      PROVE  TreeInv'
  <2>1. PICK v : node' = [node EXCEPT ![f] = Using(@, v)]
    BY <1>5 DEF UseVersion
  <2>2. /\ f \in Nodes /\ node[f].there
        /\ stale' = stale /\ fresh' = fresh /\ editor' = editor
    BY <1>5 DEF UseVersion, editors, Nodes
  <2>3. SamePlaces(node, node')
    BY <1>1, <2>1, <2>2, UsingSteady
  <2> QED
    BY <2>2, <2>3, SteadyTree
<1>6. CASE UNCHANGED <<node, editor, fresh, stale>>
  BY <1>2, <1>6, SteadyTree
<1>7. ASSUME NEW f \in Files, CreateVersion(f)
      PROVE  UNCHANGED <<node, editor, fresh, stale>>
  BY <1>7 DEF CreateVersion, editors
<1>8. ASSUME NEW r \in Requests, Prepare(r) \/ Repeat(r)
      PROVE  UNCHANGED <<node, editor, fresh, stale>>
  BY <1>8 DEF Prepare, PrepareProject, PrepareItem, PrepareFile, PrepareVersion,
              Preparing, Repeat, tree, editors
<1>9. ASSUME \/ ReadRevision \/ ReadNodes \/ ReadVersions \/ CheckRevision
             \/ Record \/ EndPacking \/ UNCHANGED vars
      PROVE  UNCHANGED <<node, editor, fresh, stale>>
  BY <1>9 DEF ReadRevision, ReadNodes, ReadVersions, CheckRevision, Record,
              EndPacking, Packing, tree, editors, vars
<1> QED
  BY <1>3, <1>4, <1>5, <1>6, <1>7, <1>8, <1>9, DecideTree, RereadTree, CommitTree,
     ApplyTree DEF Next

LEMMA InitTree == Init => TreeInv
<1> SUFFICES ASSUME Init PROVE TreeInv
  OBVIOUS
<1>1. PICK old :
         node = [x \in Nodes |->
                   IF x \in old
                   THEN Row(Root, <<>>, <<0, x>>, IF x \in Files THEN 1 ELSE 0)
                   ELSE Absent]
  BY DEF Init
<1>2. ASSUME NEW x \in Nodes, node[x].there
      PROVE  Placed(node, x) /\ node[x].path \in Seq(Nodes)
  <2>1. x \in old
    BY <1>1, <1>2 DEF Absent
  <2>2. node[x].parent = Root /\ node[x].path = <<>>
    BY <1>1, <2>1, RowFields
  <2> QED
    BY <2>2, EmptySeq DEF Placed, IsDirectory, ChildPath
<1> QED
  BY <1>2 DEF TreeInv, Laid, Sound, Init

(* Deletions and moves with all that lies below, imports and change sets,   *)
(* each read and written in separate steps, leave parents that exist and    *)
(* paths that agree with them, unless a creation, a move, a deletion or an  *)
(* import was decided on a tree that has changed since.                     *)
THEOREM CodebookTreeIsSound == Spec => []TreeIsSound
<1>1. Init => TreeInv
  BY InitTree
<1>2. Inv /\ TreeInv /\ [Next]_vars => TreeInv'
  BY TreeStays DEF Inv
<1>3. TreeInv => TreeIsSound
  BY DEF TreeInv, TreeIsSound, Laid
<1> QED
  BY <1>1, <1>2, <1>3, AlwaysInv, PTL DEF Spec

=============================================================================
