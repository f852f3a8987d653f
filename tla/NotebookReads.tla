---------------------------- MODULE NotebookReads ----------------------------
(***************************************************************************)
(* Reading an open Notebook while it changes.  Every commit rebuilds the   *)
(* databases derived from the texts; the reads answer from them, from the  *)
(* Page indexes and from the Blocks.  Long answers come in batches: the    *)
(* caller hands back a continuation cursor, which is good for one revision *)
(* only.  Reads of one batch take one snapshot, except the occurrences of  *)
(* one source, which are put together in five critical sections.           *)
(***************************************************************************)
EXTENDS Notebook, QueryEvaluation

CONSTANTS BatchSize,        \* sources, results or nodes in a batch (100 in the code)
          OccurrenceBatch,  \* occurrences in a batch (3 in the code)
          Requests          \* what the caller may ask for

ASSUME BatchAssumption == BatchSize \in Nat \ {0} /\ OccurrenceBatch \in Nat \ {0}

\* A parent in the hierarchy is given by its bytes.
ASSUME RequestsAssumption ==
    \A request \in Requests : request.kind = "children" => request.target \in Seq(Nat)

VARIABLES derived,          \* the databases rebuildSemanticReferenceIndexes writes
          reader            \* a caller in the middle of an enumeration

readVars == <<store, history, clock, issued, session, derived, reader>>

\* The Named Page with a name, 0 without one.
PageByName(s, name) ==
    IF <<"named", name>> \in DOMAIN s.pages THEN s.pages[<<"named", name>>] ELSE 0

\* The links of a text, resolved; the keys of referencesByTarget.
ResolvedLinks(s, text) ==
    {[at |-> i, name |-> text[i], target |-> PageByName(s, text[i])] : i \in PageLinks(text)}
LinkKey(link) ==
    IF link.target # 0 THEN <<"resolvedPage", link.target>> ELSE <<"unresolvedPage", link.name>>
BlockKey(s, b) == <<IF b \in DOMAIN s.blocks THEN "resolvedBlock" ELSE "missingBlock", b>>

\* referencesBySource, referencesByTarget and propertiesByBlock, from scratch.
Rebuilt(s) ==
    LET text(e) == s.blocks[e].text
        links == [e \in EntryIds(s) |-> ResolvedLinks(s, text(e))]
    IN  [links |-> links,
         sources |-> UNION {{Append(LinkKey(link), e) : link \in links[e]}
                            \cup {Append(BlockKey(s, References[text(e)[i]]), e) :
                                     i \in BlockReferences(text(e))} : e \in EntryIds(s)},
         properties |-> [e \in EntryIds(s) |-> Properties(text(e))]]

SourcesOf(kind, target) == {k[3] : k \in {q \in derived.sources : q[1] = kind /\ q[2] = target}}
-----------------------------------------------------------------------------
\* The path from an Entry's Page down to it, and the ranks along it.
Path(s, e) ==
    LET from[b \in DOMAIN s.blocks] ==
            IF IsPage(s, b) THEN <<>> ELSE Append(from[s.byChild[b][1]], b)
    IN  from[e]
Ranks(s, e) == [i \in DOMAIN Path(s, e) |-> s.byChild[Path(s, e)[i]][2]]

\* Pages with the newest source first; on one Page the sources in their order.
SourceOrder(s, sources) ==
    LET newest(p) == Max({s.blocks[e].updated : e \in {d \in sources : PageOf(s, d) = p}})
        before(a, b) ==
            LET p == PageOf(s, a) q == PageOf(s, b)
            IN  CASE p = q -> Precedes(Ranks(s, a), Ranks(s, b))
                  [] p # q /\ newest(p) = newest(q) -> p < q
                  [] OTHER -> newest(p) > newest(q)
    IN  InOrder(sources, before)

\* readLinkedReferences and readPagePreviewSources: everything they may return.
LinkedReferences(s, target) ==
    SourceOrder(s, (IF target \in NamedPages(s) THEN SourcesOf("resolvedPage", target) ELSE {})
                   \cup SourcesOf("resolvedBlock", target))
PagePreviewSources(s, name) == SourceOrder(s, SourcesOf("unresolvedPage", name))

\* The row of a Block: its Properties come from their database, its place in a
\* Journal Page from the outline.
Row(s, d, b) ==
    LET entry == IsEntry(s, b)
        p == IF entry THEN PageOf(s, b) ELSE b
        page == s.blocks[p]
        entries == LoadOutline(s, p).entries
    IN  [type |-> IF entry THEN "entry" ELSE "page", kind |-> page.kind,
         name |-> IF page.kind = "named" THEN page.key ELSE "",
         date |-> IF page.kind = "journal" THEN page.key ELSE "",
         text |-> IF entry THEN s.blocks[b].text ELSE <<>>, updated |-> s.blocks[b].updated,
         parent |-> IF entry THEN s.byChild[b][1] ELSE 0,
         properties |-> IF entry THEN d.properties[b] ELSE {},
         order |-> IF entry /\ page.kind = "journal" THEN PositionOf(entries, b) ELSE 0]
Rows(s, d) == [b \in DOMAIN s.blocks |-> Row(s, d, b)]

\* evaluateQuery without its batches: the rows a parsed text asks for, up to its
\* limit, and none when it does not parse.
Parsed(text) == [query |-> ParseQuery(text), predicates |-> Predicates(text)]
UpTo(limit, all) == IF limit = 0 \/ Len(all) < limit THEN all ELSE SubSeq(all, 1, limit)
Answer(s, d, parsed, self) ==
    IF parsed.query.ok
    THEN UpTo(parsed.query.limit, Evaluate(parsed.query, parsed.predicates, self, Rows(s, d)))
    ELSE <<>>
-----------------------------------------------------------------------------
\* The Page hierarchy, on the bytes of names.
PageSpellings(s) == {Spelling[s.blocks[p].key] : p \in NamedPages(s)}
HierarchyPrefix(parent) == IF parent = <<>> THEN <<>> ELSE Append(parent, Slash)
HierarchyNameHasChildren(s, name) == \E n \in PageSpellings(s) : IsPrefix(Append(name, Slash), n)
HierarchyNodeExists(s, name) == name \in PageSpellings(s) \/ HierarchyNameHasChildren(s, name)

\* Faulty: a scan that continues takes the segment it continues from again.
TakesRepeated(found, segment, lastSegment) ==
    segment # <<>> /\ (found = <<>> \/ segment # Last(found))

\* The scan takes a segment that differs from the one it took before and comes
\* after the one the last batch ended with.
Takes(found, segment, lastSegment) ==
    /\ segment # <<>>
    /\ found = <<>> \/ segment # Last(found)
    /\ Precedes(lastSegment, segment)

\* What follows the prefix in a name, up to the next slash.
Segment(prefix, name) ==
    LET slashes == {i \in Len(prefix) + 1 .. Len(name) : name[i] = Slash}
    IN  SubSeq(name, Len(prefix) + 1, IF slashes = {} THEN Len(name) ELSE Min(slashes) - 1)

\* readHierarchyChildren, without its bound: the names below the parent in byte
\* order, from the last segment on, and the segments taken of them.
ReadHierarchyChildren(s, parent, lastSegment) ==
    LET prefix == HierarchyPrefix(parent)
        names == InOrder({n \in PageSpellings(s) :
                                 IsPrefix(prefix, n) /\ ~Precedes(n, prefix \o lastSegment)},
                              Precedes)
        upTo[i \in 0 .. Len(names)] ==
            IF i = 0 THEN <<>>
            ELSE LET found == upTo[i - 1]
                     segment == Segment(prefix, names[i])
                 IN  IF Takes(found, segment, lastSegment) THEN Append(found, segment) ELSE found
    IN  upTo[Len(names)]
-----------------------------------------------------------------------------
\* The whole answer to a request for sources or results.
Listing(s, request) ==
    CASE request.kind = "linked" -> LinkedReferences(s, request.target)
      [] request.kind = "preview" -> PagePreviewSources(s, request.target)
      [] request.kind = "query" -> Answer(s, derived, Parsed(s.blocks[request.target].text), request.target)

\* The reads that fail: no such Block, no Entry, a name that has its Page by now.
Readable(s, request) ==
    CASE request.kind \in {"linked", "occurrences"} -> request.target \in DOMAIN s.blocks
      [] request.kind = "query" -> IsEntry(s, request.target)
      [] request.kind = "preview" -> PageByName(s, request.target) = 0
      [] request.kind = "children" -> TRUE

\* A batch of an answer from an offset, or of a hierarchy level from a segment, and
\* where the next one starts; there is no next one when next is "end".
OffsetBatch(all, offset, size) ==
    LET end == Min({Len(all), offset + size})
    IN  [items |-> SubSeq(all, offset + 1, end), more |-> end < Len(all), next |-> end]
ChildrenBatch(s, parent, lastSegment) ==
    LET all == ReadHierarchyChildren(s, parent, lastSegment)
        items == SubSeq(all, 1, Min({Len(all), BatchSize}))
    IN  [items |-> items, more |-> Len(all) > BatchSize,
         next |-> IF items = <<>> THEN lastSegment ELSE Last(items)]

Batch(s, request, from) ==
    IF request.kind = "children" THEN ChildrenBatch(s, request.target, from)
    ELSE OffsetBatch(Listing(s, request), from, BatchSize)

Resting == [at |-> "resting"]
Start(request) == IF request.kind = "children" THEN <<>> ELSE 0

\* The reader has a part of an answer and a cursor, or all of it.
Received(request, got, batch, revision) ==
    [at |-> IF batch.more THEN "paging" ELSE "done", request |-> request,
     got |-> got \o batch.items, next |-> batch.next, revision |-> revision]

ReadFirst(request) ==
    /\ reader = Resting /\ session.open
    /\ request.kind # "occurrences" /\ Readable(store, request)
    /\ reader' = Received(request, <<>>, Batch(store, request, Start(request)), session.revision)
    /\ UNCHANGED <<vars, derived>>

\* Faulty: a cursor of an earlier revision is taken.
CursorDecodes(revision) == session.open

\* A cursor is good for the revision it was given at.
CursorIsCurrent(revision) == session.open /\ revision = session.revision

\* Cursors of Queries and of hierarchy levels say what they continue; callers keep the
\* other ones apart.
NamesRequest(kind) == kind \in {"query", "children"}

\* Faulty: the cursor of another Query or level is taken.
ContinuesAny(request) == CursorIsCurrent(reader.revision)

\* A cursor continues the answer it was given with, and no other one.
Continues(request) ==
    /\ CursorIsCurrent(reader.revision)
    /\ NamesRequest(request.kind) => request = reader.request

\* The cursor is handed back with its request, or by mistake with one like it.
ReadNext(request) ==
    /\ reader.at = "paging" /\ request.kind # "occurrences"
    /\ \/ request = reader.request
       \/ request.kind = reader.request.kind /\ NamesRequest(request.kind)
    /\ Continues(request) /\ Readable(store, request)
    /\ reader' = Received(request, IF request = reader.request THEN reader.got ELSE <<>>,
                          Batch(store, request, reader.next), session.revision)
    /\ UNCHANGED <<vars, derived>>

\* linkedReferenceOccurrences: current, locateBlock, pageLinks, blockReferences and
\* current again, each under the mutex on its own.  In between the call keeps whether
\* its target is a Named Page, and the occurrences found so far.
Collecting(r, at, named, found) ==
    [at |-> at, request |-> r.request, got |-> r.got, next |-> r.next,
     revision |-> r.revision, named |-> named, found |-> found]

AskOccurrences(request) ==
    LET begin == [request |-> request, got |-> <<>>, next |-> 0, revision |-> session.revision]
    IN  /\ request.kind = "occurrences" /\ session.open
        /\ \/ reader = Resting /\ reader' = Collecting(begin, "asked", FALSE, {})
           \/ /\ reader.at = "paging" /\ reader.request = request
              /\ CursorIsCurrent(reader.revision)
              /\ reader' = Collecting(reader, "asked", FALSE, {})
        /\ UNCHANGED <<vars, derived>>

LocateTarget ==
    /\ reader.at = "asked" /\ session.open /\ Readable(store, reader.request)
    /\ reader' = Collecting(reader, "located", reader.request.target \in NamedPages(store), {})
    /\ UNCHANGED <<vars, derived>>

ReadSourceLinks ==
    /\ reader.at = "located" /\ session.open /\ IsEntry(store, reader.request.source)
    /\ reader' = Collecting(reader, "linked", reader.named,
                            {link.at : link \in {l \in derived.links[reader.request.source] :
                                           reader.named /\ l.target = reader.request.target}})
    /\ UNCHANGED <<vars, derived>>

ReadSourceReferences ==
    LET source == reader.request.source
        text == store.blocks[source].text
    IN  /\ reader.at = "linked" /\ session.open /\ IsEntry(store, source)
        /\ reader' = Collecting(reader, "referred", reader.named,
                                reader.found \cup
                                    {i \in BlockReferences(text) :
                                        References[text[i]] = reader.request.target
                                        /\ reader.request.target \in DOMAIN store.blocks})
        /\ UNCHANGED <<vars, derived>>

AnswerOccurrences ==
    /\ reader.at = "referred"
    /\ reader.revision = session.revision /\ reader.next <= Cardinality(reader.found)
    /\ reader' = Received(reader.request, reader.got,
                          OffsetBatch(InOrder(reader.found, <), reader.next, OccurrenceBatch),
                          reader.revision)
    /\ UNCHANGED <<vars, derived>>

\* An error, and a stale cursor: the caller gives up, and may start over.
GiveUp ==
    /\ reader.at # "resting"
    /\ reader' = Resting
    /\ UNCHANGED <<vars, derived>>

\* Whatever commits rebuilds the derived databases in its transaction.
Write ==
    /\ Next
    /\ derived' = IF store'.revision # store.revision THEN Rebuilt(store') ELSE derived
    /\ UNCHANGED reader

ReadsInit == Init /\ derived = Rebuilt(store) /\ reader = Resting

ReadsNext ==
    \/ Write
    \/ \E request \in Requests : ReadFirst(request) \/ ReadNext(request) \/ AskOccurrences(request)
    \/ LocateTarget \/ ReadSourceLinks \/ ReadSourceReferences
    \/ AnswerOccurrences \/ GiveUp

ReadsSpec == ReadsInit /\ [][ReadsNext]_readVars
-----------------------------------------------------------------------------
\* Position i of an Entry's text mentions a Block, by its name or by reference.
MentionsBlock(s, e, i, b) ==
    LET text == s.blocks[e].text
    IN  \/ i \in PageLinks(text) /\ b \in NamedPages(s) /\ s.blocks[b].key = text[i]
        \/ i \in BlockReferences(text) /\ References[text[i]] = b

IsDistinct(q) == \A i, k \in DOMAIN q : q[i] = q[k] => i = k

\* ADR-0016: sources stand together by Page, the Page with the newest source first,
\* and on a Page as its outline has them.
InSourceOrder(s, q) ==
    LET page(i) == PageOf(s, q[i])
        place(i) == PositionOf(LoadOutline(s, page(i)).entries, q[i])
        newest(i) == Max({s.blocks[q[k]].updated : k \in {j \in DOMAIN q : page(j) = page(i)}})
    IN  \A i, k \in DOMAIN q : i < k =>
            /\ page(i) = page(k) => /\ place(i) < place(k)
                                    /\ \A j \in i .. k : page(j) = page(i)
            /\ newest(i) >= newest(k)

\* What the batches of a request must add up to.
IsWhole(s, request, got) ==
    LET sources == {e \in EntryIds(s) :
                      \E i \in DOMAIN s.blocks[e].text : MentionsBlock(s, e, i, request.target)}
        previewed == {e \in EntryIds(s) :
                        \E i \in PageLinks(s.blocks[e].text) : s.blocks[e].text[i] = request.target}
    IN  CASE request.kind = "linked" ->
                Range(got) = sources /\ IsDistinct(got) /\ InSourceOrder(s, got)
          [] request.kind = "preview" ->
                Range(got) = previewed /\ IsDistinct(got) /\ InSourceOrder(s, got)
          [] request.kind = "query" ->
                got = Answer(s, derived, Parsed(s.blocks[request.target].text), request.target)
          [] request.kind = "occurrences" ->
                got = InOrder({i \in DOMAIN s.blocks[request.source].text :
                                      MentionsBlock(s, request.source, i, request.target)}, <)
          [] OTHER -> TRUE

\* Whatever commits between two batches, or between two critical sections of one
\* call, and whatever other Query a cursor is handed to, an enumeration that ends without
\* an error has given every source, result or occurrence of one revision once and in order.
EnumerationsAreWhole ==
    reader.at = "done" /\ reader.revision = store.revision =>
        IsWhole(store, reader.request, reader.got)

\* The segments below a parent under which a look-up by name finds something.
NodesBelow(s, parent) ==
    LET prefix == HierarchyPrefix(parent)
        starts(n) == {SubSeq(n, Len(prefix) + 1, k) : k \in Len(prefix) + 1 .. Len(n)}
    IN  {x \in UNION {starts(n) : n \in {m \in PageSpellings(s) : IsPrefix(prefix, m)}} :
            Slash \notin Range(x) /\ HierarchyNodeExists(s, prefix \o x)}

\* Where two names first differ, none goes on with a slash and the other one with a
\* byte below it.
SlashSortsFirst ==
    \A x, y \in {Spelling[name] : name \in Names} :
        \A k \in DOMAIN x \cap DOMAIN y :
            (\A i \in 1 .. k - 1 : x[i] = y[i]) /\ x[k] = Slash => y[k] >= Slash

\* ADR-0024: a level of the Page hierarchy lists, in byte order and once each, the
\* nodes that a look-up by name finds directly below the parent; the batches so far
\* list the first ones of them.
ListingAgreesWithLookup ==
    reader.at \in {"paging", "done"} /\ reader.request.kind = "children"
            /\ reader.revision = store.revision =>
        LET nodes == InOrder(NodesBelow(store, reader.request.target), Precedes)
        IN  IsPrefix(reader.got, nodes) /\ (reader.at = "done" => reader.got = nodes)

\* Every one-predicate Query on a name or a reference, parsed.
QueryOn(tokens) == <<"{{query", " ", "(", "where", " ">> \o tokens \o <<")", "}}">>
RelationQueries ==
    [r \in Relations \cup {"in-page-subtree"} |-> [anchor \in AnchorTokens |->
        Parsed(QueryOn(<<"(", r, " ", anchor, ")">>))]]
ReferenceQueries == [anchor \in AnchorTokens |-> Parsed(QueryOn(<<anchor>>))]

\* The Named Pages found by opening two levels of the hierarchy below a name.
PagesBelow(s, name) ==
    LET children(x) == {HierarchyPrefix(x) \o c : c \in Range(ReadHierarchyChildren(s, x, <<>>))}
        open(nodes, depth) == nodes \cup UNION {children(x) : x \in nodes}
    IN  {p \in NamedPages(s) : Spelling[s.blocks[p].key] \in
            FoldLeft(open, {Spelling[name]}, <<1, 2>>)}

AgreeWithReads(s, relation, reference) ==
    LET linked(kind, target) == SourcesOf(kind, target)
    IN  /\ \A name \in Names :
              LET p == PageByName(s, name)
              IN  /\ relation["page-links-to"][name] =
                         IF p = 0 THEN {} ELSE linked("resolvedPage", p)
                  /\ reference[name] =
                         IF p = 0 THEN linked("unresolvedPage", name) ELSE linked("resolvedPage", p)
                  /\ relation["descendant-of"][name] =
                         IF p = 0 THEN {} ELSE Ids(LoadOutline(s, p).entries)
                  /\ relation["in-page-subtree"][name] \cap PageIds(s) = PagesBelow(s, name)
        /\ \A token \in DOMAIN References :
              LET b == References[token]
              IN  b \in DOMAIN s.blocks =>
                    /\ relation["block-references"][token] = linked("resolvedBlock", b)
                    /\ relation["child-of"][token] = Range(ChildrenOf(s, b))
                    /\ IsEntry(s, b) =>
                          relation["ancestor-of"][token] =
                              ({PageOf(s, b)} \cup Range(Path(s, b))) \ {b}

\* The evaluator, which resolves names and references from the rows, answers as the
\* reads that use the derived databases, the containment and the hierarchy.
QueriesAgreeWithReads ==
    LET answers(parsed) == Range(Answer(store, derived, parsed, 0))
    IN  reader = Resting =>
            AgreeWithReads(store,
                [r \in DOMAIN RelationQueries |-> [anchor \in AnchorTokens |->
                    answers(RelationQueries[r][anchor])]],
                [anchor \in AnchorTokens |-> answers(ReferenceQueries[anchor])])

\* Queries whose answers may only grow when a name comes to be mentioned more often.
IsMonotone(parsed) ==
    LET reached[i \in DOMAIN parsed.predicates] ==
            {parsed.predicates[i].kind}
                \cup UNION {reached[j] : j \in parsed.predicates[i].operands}
    IN  parsed.query.ok /\ reached[parsed.query.where] \subseteq
            Relations \cup {"reference", "and", "or", "all", "type", "page-context"}
Unlimited(parsed) == [parsed EXCEPT !.query.limit = 0]

KeepsAnswers(e, before, after) ==
    IsMonotone(before) =>
        /\ after.query = before.query
        /\ Range(Answer(store, derived, Unlimited(before), e)) \subseteq
               Range(Answer(store', derived', Unlimited(after), e))

\* ADR-0025: a rename rewrites the anchors of the Queries with the links, so that none
\* loses a Block it answered with (subtrees apart: descendants keep their old names).
RenameKeepsQueries ==
    [][ \A p \in NamedPages(store) \cap Kept :
          Commanded /\ PageKey(store.blocks[p]) # PageKey(store'.blocks[p]) =>
              \A e \in EntryIds(store) :
                  KeepsAnswers(e, Parsed(store.blocks[e].text), Parsed(store'.blocks[e].text))
      ]_readVars
=============================================================================
