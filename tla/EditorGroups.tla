--------------------------- MODULE EditorGroups ---------------------------
(***************************************************************************)
(* The arithmetic behind split editors (lib/editorGroups.ts): pure         *)
(* functions over a sequence of groups, each with the files it shows in    *)
(* tab order and the one on top.  A group is [id, paths, active].          *)
(***************************************************************************)
EXTENDS Naturals, Sequences, SequencesExt

CONSTANT None   \* no file on top

GroupIndex(groups, g) == SelectInSeq(groups, LAMBDA x : x.id = g)
PathIndex(paths, p)   == SelectInSeq(paths, LAMBDA x : x = p)
Shown(groups)         == UNION {ToSet(groups[i].paths) : i \in DOMAIN groups}

NewGroup(g) == [id |-> g, paths |-> <<>>, active |-> None]

\* Whatever slid into the slot of the tab that went, then its left neighbour.
NeighbourOf(paths, index) ==
    IF index \in DOMAIN paths THEN paths[index]
    ELSE IF index - 1 \in DOMAIN paths THEN paths[index - 1] ELSE None

\* The tab a peek takes the place of: the first preview of the group it opens in.
PreviewSlot(group, p, pin, previews) ==
    IF pin \/ p \in ToSet(group.paths) THEN 0
    ELSE SelectInSeq(group.paths, LAMBDA x : x \in previews)

\* A preview that was taken the place of goes from the registry at once.
EvictedAnyway(p, next) == {p}

\* A preview that was taken the place of goes from the registry, unless another
\* group shows it too.
Evicted(p, next) == {p} \ Shown(next)

\* A file opens in exactly one group.
OpenInGroups(groups, target, p, pin, previews) ==
    LET found == GroupIndex(groups, target)
        t     == IF found = 0 THEN 1 ELSE found
        slot  == PreviewSlot(groups[t], p, pin, previews)
        paths == IF p \in ToSet(groups[t].paths) THEN groups[t].paths
                 ELSE IF slot = 0 THEN Append(groups[t].paths, p)
                 ELSE ReplaceAt(groups[t].paths, slot, p)
        next  == [groups EXCEPT ![t] = [@ EXCEPT !.paths = paths, !.active = p]]
    IN  [groups  |-> next,
         evicted |-> IF slot = 0 THEN {} ELSE Evicted(groups[t].paths[slot], next)]

\* Only the file on top crosses over, to a new group on the right.
SplitGroups(groups, g, new) ==
    LET i == GroupIndex(groups, g) IN
    InsertAt(groups, i + 1, [id |-> new, paths |-> <<groups[i].active>>, active |-> groups[i].active])

\* A filter in the code: a group has one tab of a file at most (StripIsSound).
WithoutTab(group, p) ==
    LET paths == RemoveFirst(group.paths, p) IN
    [group EXCEPT !.paths = paths,
                  !.active = IF @ = p THEN NeighbourOf(paths, PathIndex(group.paths, p)) ELSE @]

\* An emptied group folds away, unless it is the last one.  A filter in the code:
\* a close or a move empties one group at most.
Fold(groups) ==
    LET empty == SelectInSeq(groups, LAMBDA x : x.paths = <<>>) IN
    IF Len(groups) > 1 /\ empty # 0 THEN RemoveAt(groups, empty) ELSE groups

CloseTabInGroups(groups, g, p) ==
    LET i == GroupIndex(groups, g) IN
    IF i = 0 \/ p \notin ToSet(groups[i].paths) THEN groups
    ELSE Fold([groups EXCEPT ![i] = WithoutTab(@, p)])

\* A tab goes to an insertion point, whatever the target shows already.
InsertTabAgain(paths, p, at) == InsertAt(paths, at, p)

\* The insertion point is taken as counted without the tab; splice clamps it.
InsertTabUncounted(paths, p, at) ==
    LET without == RemoveFirst(paths, p)
    IN  InsertAt(without, IF at > Len(without) THEN Len(without) + 1 ELSE at, p)

\* A tab goes to an insertion point, counted with the tab still in its place.
InsertTab(paths, p, at) ==
    LET without == RemoveFirst(paths, p)
        current == PathIndex(paths, p)
        slot    == IF current # 0 /\ at > current THEN at - 1 ELSE at
    IN  InsertAt(without, slot, p)

\* Along its own strip, or into another group, which may show the file already.
MoveTabInGroups(groups, g, p, target, at) ==
    LET i == GroupIndex(groups, g)
        j == GroupIndex(groups, target)
        moved == [groups[j] EXCEPT !.paths = InsertTab(@, p, at), !.active = p]
    IN  CASE i # j -> Fold([groups EXCEPT ![i] = WithoutTab(@, p), ![j] = moved])
          [] i = j /\ moved.paths = groups[j].paths -> groups
          [] OTHER -> [groups EXCEPT ![j] = moved]

\* A whole group goes, and the focus to its left neighbour.
CloseGroupInGroups(groups, g) ==
    LET i    == GroupIndex(groups, g)
        rest == RemoveAt(groups, i)
    IN  [groups   |-> rest,
         focus    |-> rest[IF i > 1 THEN i - 1 ELSE 1].id,
         orphaned |-> ToSet(groups[i].paths) \ Shown(rest)]

=============================================================================
