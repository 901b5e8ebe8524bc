---------------------------- MODULE EditorTabs ----------------------------
(***************************************************************************)
(* The editor (components/editor/EditorView.tsx): a registry of open files *)
(* that every group shows tabs of, the reads and writes under way for      *)
(* them, and the one dialog that asks about unsaved edits.  The files are  *)
(* everybody's: other programs write to them, and the watcher announces    *)
(* it.  The dialog covers the editor, not the keyboard's shortcuts nor the *)
(* sidebar; and nobody waits for a read to end.                            *)
(*                                                                         *)
(* Left out: a file that is moved in the explorer, how a tab is shown, and *)
(* the refresh of the repository's status behind a save (RepoScreen).      *)
(***************************************************************************)
EXTENDS EditorGroups, Functions

CONSTANTS
    Projects,   \* the projects, each with its own files
    Paths,      \* relative paths: two projects may have the same one
    Texts,      \* what a file may hold
    Blank,      \* the text of a tab that is still being read
    Message,    \* the text of a tab whose file could not be read
    GroupIds,   \* bound: groups at a time, and one in the dialog's memory
    MaxCalls,   \* bound: reads and writes under way
    Faulty      \* whether reads and writes may fail

ASSUME EditorTabsAssumption ==
    /\ None \notin Paths \cup Projects
    /\ Blank \notin Texts /\ Message \notin Texts /\ Blank # Message
    /\ MaxCalls \in Nat /\ Faulty \in BOOLEAN

VARIABLES
    project,   \* the project on screen
    groups,
    focus,     \* activeGroupId
    tabs,      \* the registry: path -> tab
    calls,     \* reads and writes under way
    dialog,    \* what the dialog asks about
    held       \* what each file of the project has held since it came on screen

strip == <<groups, focus>>
vars  == <<project, strip, tabs, calls, dialog, held>>

NoDialog == [about |-> "none"]
Dirty(p) == tabs[p].content # tabs[p].original
Previews == {p \in DOMAIN tabs : tabs[p].preview}
Group(g) == groups[GroupIndex(groups, g)]
Ids(seq) == {seq[i].id : i \in DOMAIN seq}

\* A group's id is never used again: it is unlike any that someone remembers.
Remembered ==
    CASE dialog.about = "tab"   -> {dialog.group}
      [] dialog.about = "group" -> Ids(dialog.rest)
      [] OTHER                  -> {}
Fresh == GroupIds \ (Ids(groups) \cup Remembered)

Init ==
    /\ project \in Projects
    /\ \E g \in GroupIds : groups = <<NewGroup(g)>> /\ focus = g
    /\ tabs = <<>> /\ calls = {} /\ dialog = NoDialog
    /\ \E disk \in [Paths -> Texts] : held = [p \in Paths |-> {disk[p]}]

-----------------------------------------------------------------------------
(* Reads and writes.                                                        *)

\* Files are read or written, each by a call of its own: `turn` tells those under
\* way apart.  `stale` is history, that the project has changed since.
Ask(kind, asked, text) ==
    \E n \in 1 .. MaxCalls :
        /\ \A c \in calls : c.kind = kind /\ c.path \in asked => c.turn # n
        /\ calls' = calls \cup
              {[kind |-> kind, project |-> project, path |-> p, text |-> text,
                pc |-> "sent", turn |-> n, stale |-> FALSE] : p \in asked}
        /\ Cardinality(calls') <= MaxCalls

\* The backend reads a file, and may fail.  Other programs may have put back
\* whatever it has held before, or anything while it was out of sight.
Read(c) ==
    /\ c.kind \in {"open", "reload"} /\ c.pc = "sent"
    /\ \E text \in (IF c.project = project THEN held[c.path] ELSE Texts) \cup (IF Faulty THEN {Message} ELSE {}) :
         calls' = (calls \ {c}) \cup {[c EXCEPT !.text = text, !.pc = "answered"]}
    /\ UNCHANGED <<project, strip, tabs, dialog, held>>

\* The backend writes a file.
Write(c) ==
    /\ c.kind = "save" /\ c.pc = "sent"
    /\ held' = IF c.project = project THEN [held EXCEPT ![c.path] = @ \cup {c.text}] ELSE held
    /\ calls' = (calls \ {c}) \cup {[c EXCEPT !.pc = "answered"]}
    /\ UNCHANGED <<project, strip, tabs, dialog>>

\* Or fails to: the tab stays as it is.
WriteFails(c) ==
    /\ Faulty /\ c.kind = "save" /\ c.pc = "sent"
    /\ calls' = calls \ {c}
    /\ UNCHANGED <<project, strip, tabs, dialog, held>>

\* A tab's `stray` is history too, that a stale call left its original.  The
\* first read of a file, or the message that there is none, fills its tab.
Opened(tab, c) ==
    [tab EXCEPT !.content = c.text, !.original = c.text, !.loading = FALSE, !.stray = c.stale]

\* A reload replaces what the tab shows.
ReloadedAnyway(tab, c) ==
    IF c.text # Message
    THEN [tab EXCEPT !.content = c.text, !.original = c.text, !.stray = c.stale] ELSE tab

\* A reload yields to whatever has been typed by the time it is back.
Reloaded(tab, c) ==
    IF tab.content = tab.original /\ c.text # Message
    THEN [tab EXCEPT !.content = c.text, !.original = c.text, !.stray = c.stale] ELSE tab

\* Whatever the tab holds by now counts as saved.
SavedNow(tab, c) == [tab EXCEPT !.original = tab.content, !.stray = c.stale]

\* What was written counts as saved, and nothing typed since.
Saved(tab, c) == [tab EXCEPT !.original = c.text, !.stray = c.stale]

\* An answer lands on the tab of its path, if there is one by then.
Land(c) ==
    /\ c.pc = "answered" /\ calls' = calls \ {c}
    /\ tabs' = IF c.path \notin DOMAIN tabs THEN tabs
               ELSE [tabs EXCEPT ![c.path] = CASE c.kind = "open"   -> Opened(@, c)
                                               [] c.kind = "reload" -> Reloaded(@, c)
                                               [] c.kind = "save"   -> Saved(@, c)]
    /\ UNCHANGED <<project, strip, dialog, held>>

\* The watcher says that something has changed: every tab without edits is read
\* again.
FsChanged ==
    /\ Ask("reload", {p \in DOMAIN tabs : ~tabs[p].loading /\ ~Dirty(p)}, Blank)
    /\ UNCHANGED <<project, strip, tabs, dialog, held>>

-----------------------------------------------------------------------------
(* Opening.                                                                 *)

NewTab(pin) ==
    [content |-> Blank, original |-> Blank, loading |-> TRUE, preview |-> ~pin, stray |-> FALSE]

\* The registry after a file is opened and others are evicted.
Registered(p, pin, evicted) ==
    LET kept == DOMAIN tabs \ evicted IN
    [q \in kept \cup {p} |->
       IF q \notin kept THEN NewTab(pin)
       ELSE [tabs[q] EXCEPT !.preview = @ /\ ~(q = p /\ pin)]]

\* A peek takes the preview's place in the focused group; a preview that another
\* group shows stays in the registry.
OpenFile(p, pin) ==
    LET outcome == OpenInGroups(groups, focus, p, pin, Previews) IN
    /\ groups' = outcome.groups
    /\ tabs' = Registered(p, pin, outcome.evicted)
    /\ Ask("open", {p} \ DOMAIN tabs, Blank)
    /\ UNCHANGED <<project, focus, dialog, held>>

\* Editing promotes a peek.
Typed(tab, text) == [tab EXCEPT !.content = text, !.preview = FALSE]

Type(p, text) ==
    /\ dialog = NoDialog
    /\ p \in DOMAIN tabs /\ ~tabs[p].loading
    /\ \E i \in DOMAIN groups : groups[i].active = p
    /\ tabs' = [tabs EXCEPT ![p] = Typed(@, text)]
    /\ UNCHANGED <<project, strip, calls, dialog, held>>

Pin(p) ==
    /\ dialog = NoDialog
    /\ p \in DOMAIN tabs /\ tabs' = [tabs EXCEPT ![p].preview = FALSE]
    /\ UNCHANGED <<project, strip, calls, dialog, held>>

\* Nothing to do for a tab without edits.
Save(p) ==
    /\ \E i \in DOMAIN groups : groups[i].active = p
    /\ p \in DOMAIN tabs /\ Dirty(p)
    /\ Ask("save", {p}, tabs[p].content)
    /\ UNCHANGED <<project, strip, tabs, dialog, held>>

-----------------------------------------------------------------------------
(* The strip.                                                               *)

Select(g, p) ==
    /\ p \in ToSet(Group(g).paths)
    /\ groups' = [groups EXCEPT ![GroupIndex(groups, g)].active = p] /\ focus' = g
    /\ UNCHANGED <<project, tabs, calls, dialog, held>>

DropTab(g, p, target, at) ==
    /\ dialog = NoDialog /\ p \in ToSet(Group(g).paths)
    /\ groups' = MoveTabInGroups(groups, g, p, target, at) /\ focus' = target
    /\ UNCHANGED <<project, tabs, calls, dialog, held>>

Split(g) ==
    /\ Group(g).active # None
    /\ \E new \in Fresh : groups' = SplitGroups(groups, g, new) /\ focus' = new
    /\ UNCHANGED <<project, tabs, calls, dialog, held>>

\* Out of every group means out of the registry.
Drop(g, p) ==
    LET next == CloseTabInGroups(groups, g, p) IN
    /\ groups' = next
    /\ focus' = IF focus \in Ids(next) THEN focus ELSE next[1].id
    /\ tabs' = IF p \in Shown(next) THEN tabs ELSE Restrict(tabs, DOMAIN tabs \ {p})

\* The last view of a file with edits is not closed without a question.
CloseTab(g, p) ==
    /\ p \in ToSet(Group(g).paths) /\ p \in DOMAIN tabs
    /\ IF Dirty(p) /\ \A i \in DOMAIN groups : p \in ToSet(groups[i].paths) => groups[i].id = g
       THEN dialog' = [about |-> "tab", group |-> g, path |-> p] /\ UNCHANGED <<strip, tabs>>
       ELSE Drop(g, p) /\ UNCHANGED dialog
    /\ UNCHANGED <<project, calls, held>>

\* The group goes, and what it showed alone stays in the registry.
DropGroupAlone(rest, to) == groups' = rest /\ focus' = to /\ UNCHANGED tabs

\* What a group shows alone closes with it.
DropGroup(rest, to) ==
    /\ groups' = rest /\ focus' = to
    /\ tabs' = Restrict(tabs, DOMAIN tabs \cap Shown(rest))

CloseGroup(g) ==
    LET outcome == CloseGroupInGroups(groups, g)
        unsaved == {p \in outcome.orphaned \cap DOMAIN tabs : Dirty(p)}
    IN  /\ dialog = NoDialog /\ Len(groups) > 1
        /\ IF unsaved # {}
           THEN /\ dialog' = [about |-> "group", rest |-> outcome.groups, focus |-> outcome.focus]
                /\ UNCHANGED <<strip, tabs>>
           ELSE DropGroup(outcome.groups, outcome.focus) /\ UNCHANGED dialog
        /\ UNCHANGED <<project, calls, held>>

\* The dialog is answered.  A tab is looked for anew, a group's remains are those
\* of the moment of the question.
Answer(ok) ==
    /\ dialog # NoDialog /\ dialog' = NoDialog
    /\ CASE ~ok                   -> UNCHANGED <<strip, tabs>>
         [] ok /\ dialog.about = "tab"   -> Drop(dialog.group, dialog.path)
         [] ok /\ dialog.about = "group" -> DropGroup(dialog.rest, dialog.focus)
    /\ UNCHANGED <<project, calls, held>>

\* Another project: its files are none of those open.
ShowProject(pr) ==
    /\ pr # project /\ project' = pr
    /\ \E g \in GroupIds \ Remembered : groups' = <<NewGroup(g)>> /\ focus' = g
    /\ tabs' = <<>>
    /\ \E disk \in [Paths -> Texts] : held' = [p \in Paths |-> {disk[p]}]
    /\ calls' = {[c EXCEPT !.stale = TRUE] : c \in calls}
    /\ UNCHANGED dialog

-----------------------------------------------------------------------------

Next ==
    \/ \E c \in calls : Read(c) \/ Write(c) \/ WriteFails(c) \/ Land(c)
    \/ FsChanged
    \/ \E p \in Paths : \/ \E pin \in BOOLEAN : OpenFile(p, pin)
                        \/ \E text \in Texts : Type(p, text)
                        \/ Pin(p) \/ Save(p)
    \/ \E g \in Ids(groups) :
         \/ \E p \in Paths : Select(g, p) \/ CloseTab(g, p)
         \/ \E p \in Paths, target \in Ids(groups) :
              \E at \in 1 .. Len(Group(target).paths) + 1 : DropTab(g, p, target, at)
         \/ Split(g) \/ CloseGroup(g)
    \/ \E ok \in BOOLEAN : Answer(ok)
    \/ \E pr \in Projects : ShowProject(pr)

Spec == Init /\ [][Next]_vars

-----------------------------------------------------------------------------
(* What is to hold.                                                         *)

AnyText == Texts \cup {Blank, Message}
Tab     == [content : AnyText, original : AnyText, loading : BOOLEAN, preview : BOOLEAN,
            stray : BOOLEAN]

TypeOK ==
    /\ project \in Projects
    /\ Len(groups) > 0
    /\ \A i \in DOMAIN groups :
         /\ groups[i].id \in GroupIds /\ groups[i].active \in Paths \cup {None}
         /\ ToSet(groups[i].paths) \subseteq Paths
    /\ focus \in GroupIds
    /\ DOMAIN tabs \subseteq Paths /\ \A p \in DOMAIN tabs : tabs[p] \in Tab
    /\ \A c \in calls :
         c \in [kind : {"open", "reload", "save"}, project : Projects, path : Paths,
                text : AnyText, pc : {"sent", "answered"},
                turn : 1 .. MaxCalls, stale : BOOLEAN]
    /\ dialog.about \in {"none", "tab", "group"}
    /\ held \in [Paths -> SUBSET AnyText]

\* The strip makes sense after whatever was opened, split, dragged or closed: a
\* file has one tab per group, the tab on top is one of them, no group is empty
\* next to another, and the focus is on a group that exists.
StripIsSound ==
    /\ focus \in Ids(groups) /\ Cardinality(Ids(groups)) = Len(groups)
    /\ \A i \in DOMAIN groups :
         LET group == groups[i] IN
         /\ Cardinality(ToSet(group.paths)) = Len(group.paths)
         /\ IF group.paths = <<>> THEN group.active = None /\ Len(groups) = 1
            ELSE group.active \in ToSet(group.paths)

\* A dragged tab, which is on top of the group that has the focus now, lands where
\* it was dropped: behind the tabs that were left of the insertion point and before
\* the others, which keep their order (moveTabInGroups).
DropsWhereAimed ==
    [][UNCHANGED <<project, tabs, calls, dialog, held>> =>
       \A g \in Ids(groups), target \in Ids(groups) \cap {focus'},
          p \in Paths \cap {Group(focus).active'} :
       \A at \in 1 .. Len(Group(target).paths) + 1 :
          DropTab(g, p, target, at) =>
             LET before == Group(target).paths
                 after  == Group(focus).paths'
             IN /\ RemoveFirst(after, p) = RemoveFirst(before, p)
                /\ {after[k] : k \in 1 .. PathIndex(after, p) - 1} =
                      {before[k] : k \in 1 .. at - 1} \ {p}]_vars

\* No file is kept that no group shows (closeTab, closeGroup, an evicted preview).
NothingIsKeptUnseen == DOMAIN tabs \subseteq Shown(groups)

\* A tab that is shown keeps its file.  A path is shown without one only when a
\* group's close, answered late, brings it back (closeGroup), and from then on.
NoTabLosesItsFile ==
    [][\A p \in Shown(groups') \ DOMAIN tabs' :
          \/ p \in Shown(groups) \ DOMAIN tabs
          \/ p \notin Shown(groups) /\ dialog.about = "group" /\ Answer(TRUE)]_vars

\* A tab without the unsaved mark shows what its own file has held, or says that
\* it could not be read, whatever reads, reloads and saves of this project end in
\* whatever order: nothing typed goes unmarked (save).
UnmarkedIsSaved ==
    \A p \in DOMAIN tabs :
        ~Dirty(p) /\ ~tabs[p].loading /\ ~tabs[p].stray /\ tabs[p].content # Message
            => tabs[p].content \in held[p]

\* Unsaved edits stay in their tab until the user types something else, agrees to
\* lose some, leaves the project, or a read that was to open the file comes back:
\* no reload, no save, no peek, no drag, no closing of another view takes them.
\* A tab that is still a peek has none.
OnlyAnOpenTakesEdits ==
    [][\A p \in DOMAIN tabs :
         Dirty(p) /\ ~tabs[p].preview =>
            \/ p \in DOMAIN tabs' /\ tabs'[p].content = tabs[p].content
            \/ \E text \in Texts : Type(p, text)
            \/ \E c \in calls : c.kind = "open" /\ c.path = p /\ Land(c)
            \/ Answer(TRUE) \/ \E pr \in Projects : ShowProject(pr)]_vars

(* What the code says of itself and does not do.                            *)

\* "Re-read after the (awaited) confirm - groups can have moved on while the
\* modal was up" is closeTab's; closeGroup puts back the groups of before.  So
\* registry and strips disagree, whatever "every open file, once" says of it.
RegistryIsWhatIsShown == DOMAIN tabs = Shown(groups)

\* "So the editor never paints one repo's tabs against another's tree": but a
\* read of the project that was left fills a tab of the next one.
UnmarkedIsTheFiles ==
    \A p \in DOMAIN tabs :
        ~Dirty(p) /\ ~tabs[p].loading /\ tabs[p].content # Message
            => tabs[p].content \in held[p]

\* "The user's own edit wins until they save or discard it": but not over a
\* second read of a file that was closed and opened again during the first.
EditsAreKept ==
    [][\A p \in DOMAIN tabs :
         Dirty(p) => \/ p \in DOMAIN tabs' /\ tabs'[p].content = tabs[p].content
                     \/ \E text \in Texts : Type(p, text)
                     \/ Answer(TRUE) \/ \E pr \in Projects : ShowProject(pr)]_vars

=============================================================================
