------------------------------- MODULE Store -------------------------------
(***************************************************************************)
(* The logical databases of a Notebook file and the operations of          *)
(* NotebookSession::Impl that read and write them inside one transaction.  *)
(* Blocks are kept by identifier; the ordering of Entries is kept twice,   *)
(* by (parent, rank) and by child; Pages are found by name or by date.     *)
(* Ranks count in units of the gap rewriteContainment leaves (2^32).       *)
(***************************************************************************)
EXTENDS Outline

CONSTANT MaxIds             \* bound: Blocks ever created

ASSUME MaxIdsAssumption == MaxIds \in Nat \ {0}

BlockIds == 1 .. MaxIds

EmptyStore ==
    [blocks |-> <<>>,       \* identifier -> Page or Entry record
     byParent |-> <<>>,     \* <<parent, rank>> -> child
     byChild |-> <<>>,      \* child -> <<parent, rank>>
     pages |-> <<>>,        \* <<kind, name or date>> -> Page
     revision |-> 0]

EntryBlock(e) == [kind |-> "entry", text |-> e.text, updated |-> e.updated]
PageBlock(kind, key, now) == [kind |-> kind, key |-> key, updated |-> now]
IsPage(s, b) == b \in DOMAIN s.blocks /\ s.blocks[b].kind # "entry"
IsEntry(s, b) == b \in DOMAIN s.blocks /\ s.blocks[b].kind = "entry"

PageIds(s) == {b \in DOMAIN s.blocks : IsPage(s, b)}
EntryIds(s) == {b \in DOMAIN s.blocks : IsEntry(s, b)}
NamedPages(s) == {p \in PageIds(s) : s.blocks[p].kind = "named"}
PageKey(page) == <<page.kind, page.key>>

\* The children of a Block, as a cursor meets them in the order of their ranks.
ChildrenOf(s, b) ==
    LET upTo[r \in 0 .. MaxIds] ==
            IF r = 0 THEN <<>>
            ELSE IF <<b, r>> \in DOMAIN s.byParent
                 THEN Append(upTo[r - 1], s.byParent[<<b, r>>])
                 ELSE upTo[r - 1]
    IN  upTo[MaxIds]

\* A Page with its entries in preorder; a snapshot of it is what history keeps.
Absent == [id |-> 0, page |-> PageBlock("none", "none", 0), entries |-> <<>>]

EntryRead(s, p, b) ==
    [id |-> b, text |-> s.blocks[b].text, updated |-> s.blocks[b].updated,
     parent |-> IF s.byChild[b][1] = p THEN TopLevel ELSE s.byChild[b][1]]

\* The stack of Blocks still to be read begins with the children of the Page; the
\* next one is read and replaced by its children.  The code keeps each one's parent on
\* the stack, refuses a Block that byChild places elsewhere and one it meets twice:
\* here the parent is read from byChild and no more than MaxIds Blocks are read.
LoadOutline(s, p) ==
    LET read[left \in 0 .. MaxIds] ==
            [pending \in Seq(BlockIds) |->
                IF left = 0 \/ pending = <<>> THEN <<>>
                ELSE <<EntryRead(s, p, Head(pending))>>
                         \o read[left - 1][ChildrenOf(s, Head(pending)) \o Tail(pending)]]
    IN  [id |-> p, page |-> s.blocks[p], entries |-> read[MaxIds][ChildrenOf(s, p)]]

LoadOutlineForDate(s, date) ==
    IF <<"journal", date>> \in DOMAIN s.pages
    THEN LoadOutline(s, s.pages[<<"journal", date>>])
    ELSE Absent

\* The Page an Entry is on, up its chain of parents.
PageOf(s, e) ==
    LET page[b \in DOMAIN s.blocks] == IF IsPage(s, b) THEN b ELSE page[s.byChild[b][1]]
    IN  page[e]

\* A database g in which the records of f have been written.
Over(f, g) == [k \in DOMAIN f \cup DOMAIN g |-> IF k \in DOMAIN f THEN f[k] ELSE g[k]]

\* Where rewriteContainment puts the entries of an outline: ranks 1, 2, ... below
\* each parent.
Placements(o) ==
    [b \in Ids(o.entries) |->
        LET i == PositionOf(o.entries, b)
            parent == o.entries[i].parent
        IN  <<IF parent = TopLevel THEN o.id ELSE parent,
              Cardinality({k \in 1 .. i : o.entries[k].parent = parent})>>]

CanEraseContainment(s, ids) ==
    /\ ids \subseteq DOMAIN s.byChild
    /\ \A b, c \in ids : /\ s.byChild[b] \in DOMAIN s.byParent
                         /\ s.byChild[b] = s.byChild[c] => b = c

EraseContainment(s, ids) ==
    [s EXCEPT !.byParent = Restrict(@, DOMAIN @ \ {s.byChild[b] : b \in ids}),
              !.byChild = Restrict(@, DOMAIN @ \ ids)]

\* Both indexes are written with storeNoOverwrite.
CanWriteContainment(s, o) ==
    /\ Ids(o.entries) \cap DOMAIN s.byChild = {}
    /\ Range(Placements(o)) \cap DOMAIN s.byParent = {}

WriteContainment(s, o) ==
    LET at == Placements(o)
    IN  [s EXCEPT !.byChild = Over(at, @),
                  !.byParent = Over([k \in Range(at) |-> CHOOSE b \in DOMAIN at : at[b] = k], @)]

WriteEntries(s, o) ==
    [s EXCEPT !.blocks =
        Over([b \in Ids(o.entries) |-> EntryBlock(o.entries[PositionOf(o.entries, b)])], @)]

WritePage(s, o) == [s EXCEPT !.blocks = Over([b \in {o.id} |-> o.page], @)]
IndexPage(s, o) == [s EXCEPT !.pages = Over([k \in {PageKey(o.page)} |-> o.id], @)]
UnindexPage(s, o) == [s EXCEPT !.pages = Restrict(@, DOMAIN @ \ {PageKey(o.page)})]
DeleteBlocks(s, ids) == [s EXCEPT !.blocks = Restrict(@, DOMAIN @ \ ids)]

\* Faulty: no container is stamped.
Untouched(o, containers, now) == o

\* The containers whose ordered children changed get the time of the command.
Touch(o, containers, now) ==
    [o EXCEPT !.page.updated = IF TopLevel \in containers THEN now ELSE @,
              !.entries = [i \in DOMAIN @ |->
                  IF @[i].id \in containers THEN [@[i] EXCEPT !.updated = now] ELSE @[i]]]

\* An edit of one Page: its Blocks are written, the vanished ones deleted, and
\* the ordering of all its entries rewritten.
CanReplace(s, before, after) ==
    /\ CanEraseContainment(s, Ids(before.entries))
    /\ CanWriteContainment(EraseContainment(s, Ids(before.entries)), after)

\* Faulty: the vanished entries keep their Blocks.
ReplaceKeepingGone(s, before, after) ==
    LET erased == EraseContainment(s, Ids(before.entries))
    IN  WriteContainment(WriteEntries(WritePage(erased, after), after), after)

Replace(s, before, after) ==
    LET erased == EraseContainment(s, Ids(before.entries))
        gone == Ids(before.entries) \ Ids(after.entries)
    IN  WriteContainment(WriteEntries(WritePage(DeleteBlocks(erased, gone), after), after),
                         after)

\* Faulty: the name or date still leads to the Page that is gone.
RemovePageStillIndexed(s, o) ==
    DeleteBlocks(EraseContainment(s, Ids(o.entries)), Ids(o.entries) \cup {o.id})

\* A Page with all its entries leaves the store, or enters it.
RemovePage(s, o) ==
    UnindexPage(DeleteBlocks(EraseContainment(s, Ids(o.entries)), Ids(o.entries) \cup {o.id}), o)

CanInsertPage(s, o) == PageKey(o.page) \notin DOMAIN s.pages /\ CanWriteContainment(s, o)
InsertPage(s, o) ==
    WriteContainment(WriteEntries(IndexPage(WritePage(s, o), o), o), o)

Committed(s) == [s EXCEPT !.revision = @ + 1]
-----------------------------------------------------------------------------
\* What the databases hold when the Pages of a Notebook are those of A, a function
\* from identifiers to outlines: the Blocks, both orderings, the Pages by their keys.
EntriesOf(A) == UNION {Ids(A[p].entries) : p \in DOMAIN A}

BlocksAre(s, A) ==
    /\ DOMAIN s.blocks = DOMAIN A \cup EntriesOf(A)
    /\ \A p \in DOMAIN A :
          /\ s.blocks[p] = A[p].page
          /\ \A i \in DOMAIN A[p].entries :
                s.blocks[A[p].entries[i].id] = EntryBlock(A[p].entries[i])
PlacesAre(s, A) ==
    /\ DOMAIN s.byChild = EntriesOf(A)
    /\ \A p \in DOMAIN A : \A b \in Ids(A[p].entries) : s.byChild[b] = Placements(A[p])[b]
    /\ DOMAIN s.byParent = {s.byChild[b] : b \in EntriesOf(A)}
    /\ \A b \in EntriesOf(A) : s.byParent[s.byChild[b]] = b
KeysAre(s, A) ==
    /\ DOMAIN s.pages = {PageKey(A[p].page) : p \in DOMAIN A}
    /\ \A p \in DOMAIN A : s.pages[PageKey(A[p].page)] = p

IsDatabase(f) == f = [k \in DOMAIN f |-> f[k]]
IsStore(s) ==
    /\ s = [blocks |-> s.blocks, byParent |-> s.byParent, byChild |-> s.byChild,
            pages |-> s.pages, revision |-> s.revision]
    /\ IsDatabase(s.blocks) /\ IsDatabase(s.byParent)
    /\ IsDatabase(s.byChild) /\ IsDatabase(s.pages)
    /\ s.revision \in Nat
Holds(s, A) == IsStore(s) /\ BlocksAre(s, A) /\ PlacesAre(s, A) /\ KeysAre(s, A)

\* ADR-0023: the two orderings agree, and every Entry is on exactly one Page.
PageRooted(s) ==
    /\ \A k \in DOMAIN s.byParent : /\ s.byParent[k] \in DOMAIN s.byChild
                                   /\ s.byChild[s.byParent[k]] = k
    /\ \A b \in DOMAIN s.byChild : /\ s.byChild[b] \in DOMAIN s.byParent
                                  /\ s.byParent[s.byChild[b]] = b
    /\ DOMAIN s.byChild = EntryIds(s)
    /\ \A p \in PageIds(s) : InPreorder(LoadOutline(s, p).entries)
    /\ EntryIds(s) = UNION {Ids(LoadOutline(s, p).entries) : p \in PageIds(s)}
    /\ \A p, q \in PageIds(s) : p # q =>
          Ids(LoadOutline(s, p).entries) \cap Ids(LoadOutline(s, q).entries) = {}

\* A Page is found by exactly the name or date it bears, and by no other.
PagesIndexed(s) ==
    /\ \A p \in PageIds(s) : PageKey(s.blocks[p]) \in DOMAIN s.pages
                             /\ s.pages[PageKey(s.blocks[p])] = p
    /\ \A k \in DOMAIN s.pages : IsPage(s, s.pages[k]) /\ PageKey(s.blocks[s.pages[k]]) = k
=============================================================================
