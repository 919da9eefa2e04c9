----------------------------- MODULE Duplicates -----------------------------
(***************************************************************************)
(* Duplicate copies (delryn-library dedup.rs, the store's dups.rs,         *)
(* app/dup_scan.rs and dup_resolve.rs): a thread reads every book's table  *)
(* of contents, books whose contents agree are linked, linked books form   *)
(* groups, and the resolver proposes which copies of a group to delete.    *)
(***************************************************************************)
EXTENDS Integers, Sequences, SequencesExt, FiniteSets, FiniteSetsExt

CONSTANTS
    Copies,       \* the books, in the order of the library
    About,        \* book -> what keep_score reads of it
    Contents,     \* book -> the distinctive labels of its contents
    Unreadable,   \* books the scan's thread dies reading
    TocMin,       \* TOC_MIN_LABELS, and TOC_MIN_SHARED
    MaxDf,        \* a label on more books than this tells nothing
    Linkings,     \* what earlier scans may have left in dup_links
    DupStrokes    \* bound: keys of one behaviour

Copy == ToSet(Copies)
(* keep_score: what the reader did with a copy counts most.               *)
Bit(b) == IF b THEN 1 ELSE 0
KeepScore(a) ==
    Bit(a.favorite) * 100000 + a.rating * 10000 + a.pct * 100 + Bit(~a.converted) * 5000
        + a.format * 1000 + a.meta * 200 + a.size

ASSUME DuplicatesAssumption ==
    /\ Copies \in Seq(Copy) /\ IsInjective(Copies) /\ Unreadable \subseteq Copy
    /\ DOMAIN About = Copy /\ DOMAIN Contents = Copy
    /\ \A c \in Copy : KeepScore(About[c]) \in Int
    /\ {TocMin, MaxDf} \subseteq Nat \ {0} /\ DupStrokes \in Nat
    /\ \A ls \in Linkings : ls \subseteq Copy \X Copy

VARIABLES
    held, there,  \* rows of the library, and files still there
    links,        \* dup_links
    dismissed,    \* dismissed_dups: ignored groups
    originals,    \* config.dup_converted_delete
    resolver,     \* the overlay: closed, the groups with their checks, or the ignored ones
    deleting,     \* pending_confirm: the paths asked about
    toc,          \* the scan: closed, or books to read and books read
    auto,         \* ghost: the checks are auto-select's own
    dupKeys

dupVars == <<held, there, links, dismissed, originals, resolver, deleting, toc, auto, dupKeys>>

NoOverlay == [kind |-> "closed"]
Place(c) == CHOOSE i \in DOMAIN Copies : Copies[i] = c

----------------------------------------------------------------------------
(* duplicate_groups_with_links: union-find over the links.  The rank and   *)
(* the path compression only shorten the chains.                           *)
Root(parent, c) ==
    LET root[x \in Copy] == IF parent[x] = x THEN x ELSE root[parent[x]] IN root[c]
(* (mutant: the book is hung, not its root)                                *)
UnionBook(parent, a, b) == [parent EXCEPT ![b] = Root(parent, a)]
Union(parent, a, b) == [parent EXCEPT ![Root(parent, b)] = Root(parent, a)]
Edges == {l \in links : l[1] \in held /\ l[2] \in held}
Hang(l) == [p \in [Copy -> Copy] |-> Union(p, l[1], l[2])]
Forest(es) ==
    LET forest[s \in SUBSET es] ==
            IF s = {} THEN [c \in Copy |-> c]
            ELSE LET l == CHOOSE l \in s : TRUE IN Hang(l)[forest[s \ {l}]]
    IN forest[es]
Groups ==
    LET tree == Forest(Edges)
    IN {g \in {{d \in held : Root(tree, d) = Root(tree, c)} : c \in held} : Cardinality(g) > 1}
Offered == Groups \ dismissed

(* auto_select: the copy of a group with the best score stays, the last of *)
(* the best on a tie.                                                      *)
Eligible(g) ==
    LET plain == {c \in g : ~About[c].converted} IN IF originals /\ plain # {} THEN plain ELSE g
BestOf(g) ==
    CHOOSE c \in Eligible(g) : \A d \in Eligible(g) :
        \/ KeepScore(About[c]) > KeepScore(About[d])
        \/ KeepScore(About[c]) = KeepScore(About[d]) /\ Place(c) >= Place(d)
(* (mutant: every copy below the best score, converted ones always)        *)
AutoSelectConverted(gs) ==
    UNION {{c \in g : About[c].converted \/ c # BestOf(g)} : g \in gs}
AutoSelect(gs) == UNION {g \ {BestOf(g)} : g \in gs}

(* content_link_candidates.                                                *)
Candidates(ids) ==
    LET df(l) == Cardinality({c \in ids : l \in Contents[c]})
        known[c \in ids] == {l \in Contents[c] : df(l) <= MaxDf}
        shared(a, b) == Cardinality(known[a] \cap known[b])
        least(a, b) == Min({Cardinality(known[a]), Cardinality(known[b])})
    IN {l \in ids \X ids :
            /\ Place(l[1]) < Place(l[2]) /\ least(l[1], l[2]) >= TocMin
            /\ shared(l[1], l[2]) >= TocMin
            /\ 100 * shared(l[1], l[2]) >= 85 * least(l[1], l[2])}

DupInit ==
    /\ held = Copy /\ there = Copy /\ dismissed = {}
    /\ links \in Linkings
    /\ originals \in BOOLEAN /\ resolver = NoOverlay /\ deleting = {}
    /\ toc = NoOverlay /\ auto = FALSE /\ dupKeys = 0

----------------------------------------------------------------------------
DupKey == dupKeys < DupStrokes /\ dupKeys' = dupKeys + 1
Idle == deleting = {}

(* open_dup_resolve, over what the library now holds.                      *)
OverlayBuilt ==
    LET gs == Offered'
    IN /\ resolver' = IF gs = {} THEN NoOverlay
                      ELSE [kind |-> "groups", groups |-> gs, checked |-> AutoSelect(gs)]
       /\ auto' = (gs # {})
OpenResolver ==
    /\ DupKey /\ Idle /\ resolver = NoOverlay
    /\ UNCHANGED <<held, there, links, dismissed, originals, deleting, toc>>
    /\ OverlayBuilt
Checks(s) ==
    /\ DupKey /\ Idle /\ resolver.kind = "groups"
    /\ resolver' = [resolver EXCEPT !.checked = s]
    /\ auto' = (s = AutoSelect(resolver.groups))
    /\ UNCHANGED <<held, there, links, dismissed, originals, deleting, toc>>
Toggle(c) ==
    /\ resolver.kind = "groups" /\ c \in UNION resolver.groups
    /\ Checks(SymDiff(resolver.checked, {c}))
CloseDups ==
    /\ DupKey /\ Idle /\ resolver # NoOverlay /\ resolver' = NoOverlay /\ auto' = FALSE
    /\ UNCHANGED <<held, there, links, dismissed, originals, deleting, toc>>
(* `n`: ignored for good, and the overlay built again.                     *)
Ignores(g) == dismissed \cup {g}
Ignore(g) ==
    /\ DupKey /\ Idle /\ resolver.kind = "groups" /\ g \in resolver.groups
    /\ UNCHANGED <<held, there, links, originals, deleting, toc>>
    /\ dismissed' = Ignores(g) /\ OverlayBuilt
(* `d`, its question and trash_paths: a row goes with its file, or where   *)
(* the file had gone before.                                               *)
AskDelete ==
    /\ DupKey /\ Idle /\ resolver.kind = "groups" /\ resolver.checked # {}
    /\ deleting' = resolver.checked
    /\ UNCHANGED <<held, there, links, dismissed, originals, resolver, toc, auto>>
Delete(moved) ==
    /\ DupKey /\ ~Idle /\ moved \subseteq deleting \cap there
    /\ there' = there \ moved
    /\ held' = held \ (moved \cup (deleting \ there))
    /\ deleting' = {} /\ UNCHANGED <<links, dismissed, originals, toc>>
    /\ OverlayBuilt
KeepAll ==
    /\ DupKey /\ ~Idle /\ deleting' = {}
    /\ UNCHANGED <<held, there, links, dismissed, originals, resolver, toc, auto>>

(* The ignored-groups manager: `I`, `u`, `C`.                              *)
OpenIgnored ==
    /\ DupKey /\ Idle /\ dismissed # {} /\ resolver' = [kind |-> "ignored"] /\ auto' = FALSE
    /\ UNCHANGED <<held, there, links, dismissed, originals, deleting, toc>>
Restore(gs) ==
    /\ DupKey /\ Idle /\ resolver.kind = "ignored" /\ gs # {}
    /\ dismissed' = dismissed \ gs
    /\ resolver' = IF dismissed' = {} THEN NoOverlay ELSE resolver
    /\ UNCHANGED <<held, there, links, originals, deleting, toc, auto>>
PreferOriginals ==
    /\ DupKey /\ Idle /\ resolver = NoOverlay /\ originals' = ~originals
    /\ UNCHANGED <<held, there, links, dismissed, resolver, deleting, toc, auto>>

(* `R`: the scan's thread, and poll_dup_scan when its channel closes.      *)
StartTocScan ==
    /\ DupKey /\ Idle /\ resolver = NoOverlay /\ toc = NoOverlay /\ held # {}
    /\ toc' = [kind |-> "reading", todo |-> held, read |-> {}]
    /\ UNCHANGED <<held, there, links, dismissed, originals, resolver, deleting, auto>>
ReadContents ==
    /\ toc.kind = "reading" /\ toc.todo # {}
    /\ LET c == CHOOSE x \in toc.todo : \A y \in toc.todo : Place(x) <= Place(y) IN
       toc' = IF c \in Unreadable THEN [toc EXCEPT !.todo = {}]
              ELSE [toc EXCEPT !.todo = @ \ {c},
                               !.read = @ \cup ({c} \cap there)]
    /\ UNCHANGED <<held, there, links, dismissed, originals, resolver, deleting, auto, dupKeys>>
FinishScan ==
    /\ toc.kind = "reading" /\ toc.todo = {} /\ toc' = NoOverlay
    /\ links' = Candidates(toc.read)
    /\ UNCHANGED <<held, there, dismissed, originals, resolver, deleting, auto, dupKeys>>

(* A file goes away outside of the program; a library scan prunes its row. *)
LoseFile(c) ==
    /\ c \in there /\ there' = there \ {c}
    /\ DupKey
    /\ UNCHANGED <<held, links, dismissed, originals, resolver, deleting, toc, auto>>
PruneRow(c) ==
    /\ c \in held \ there /\ held' = held \ {c}
    /\ UNCHANGED <<there, links, dismissed, originals, resolver, deleting, toc, auto, dupKeys>>

DupNext ==
    \/ OpenResolver \/ CloseDups \/ AskDelete \/ KeepAll \/ OpenIgnored \/ PreferOriginals
    \/ Checks({}) \/ Checks(AutoSelect(resolver.groups))
    \/ \E c \in Copy : Toggle(c) \/ LoseFile(c) \/ PruneRow(c)
    \/ \E g \in SUBSET Copy : Ignore(g) \/ Delete(g)
    \/ \E gs \in {dismissed} \cup {{g} : g \in dismissed} : Restore(gs)
    \/ StartTocScan \/ ReadContents \/ FinishScan
DupSpec == DupInit /\ [][DupNext]_dupVars

----------------------------------------------------------------------------
DupTypeOK ==
    /\ {held, there} \subseteq SUBSET Copy /\ links \subseteq Copy \X Copy
    /\ dismissed \subseteq SUBSET Copy /\ deleting \subseteq Copy
    /\ resolver.kind = "groups" => resolver.checked \subseteq UNION resolver.groups

(* The union-find gives the connected components of the links among the    *)
(* books still held, the singletons left out.                              *)
Linked(s) == \A l \in links : {l[1], l[2]} \subseteq held => (l[1] \in s <=> l[2] \in s)
Components ==
    {g \in SUBSET held : /\ Cardinality(g) > 1 /\ Linked(g)
                         /\ \A s \in SUBSET g : Linked(s) => s \in {{}, g}}
GroupsAreComponents == Groups = Components

(* The proposal spares exactly one copy of each group.                     *)
OneSpared ==
    auto => \A g \in resolver.groups : Cardinality(g \ resolver.checked) = 1

(* Deleting what was proposed never loses a work whose files were all      *)
(* there: a copy keeps its row and its file, however many of the moves     *)
(* fail, and whatever was pruned or rescanned since the overlay opened.    *)
WorkSurvives ==
    [][(auto /\ deleting # {} /\ deleting' = {}) =>
         \A g \in resolver.groups : g \subseteq there => g \cap held' \cap there' # {}]_dupVars

(* An ignored group is not offered again while it is ignored.              *)
IgnoredStayAway == resolver.kind = "groups" => resolver.groups \cap dismissed = {}

(* What the overlay offers is the duplicates: whole groups, none that is   *)
(* ignored, and a proposal that spares a copy of each.                     *)
ResolverSound == GroupsAreComponents /\ OneSpared /\ IgnoredStayAway

(* dup_resolve.rs keep_score: "Engagement dominates so a copy you've       *)
(* read/rated/favourited is never auto-deleted".                           *)
Engaged(c) == About[c].favorite \/ About[c].rating > 0 \/ About[c].pct > 0
EngagedIsKept ==
    auto => \A g \in resolver.groups : \A c \in g \cap resolver.checked :
                Engaged(c) => \A d \in g \ resolver.checked : Engaged(d)

(* As WorkSurvives, where some of the files had gone before.               *)
LastFileSurvives ==
    [][(auto /\ deleting # {} /\ deleting' = {}) =>
         \A g \in resolver.groups : g \cap there # {} => g \cap there' # {}]_dupVars
=============================================================================
