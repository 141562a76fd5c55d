----------------------------- MODULE AdminQueries -----------------------------
(***************************************************************************)
(* What the console's endpoints answer from a table notes and its          *)
(* snapshots (src/store/admin_store.rs, and the downloads of               *)
(* src/admin_api.rs).  Each query holds the mutex of the store while it    *)
(* reads, so an answer is a function of one state of the database.         *)
(*                                                                         *)
(* An answer names notes and snapshots; the columns copied from them, the  *)
(* headers and the Markdown around a note's content are left out.          *)
(***************************************************************************)
EXTENDS NoteChanges, SequencesExt

CONSTANTS
    Blank,        \* a search, category or id that is empty after trim()
    CategoryOf,   \* the category of each body, trimmed
    FoundBy,      \* the bodies whose title or content is LIKE each search
    TitleOf,      \* the title of each body, a sequence of characters
    IdOf,         \* the characters of each note id
    LowerCase,    \* the ASCII letters and digits, with the lower case of each
    Digits,       \* the characters of the numbers 2, 3, ...
    MaxPageSize,  \* 200
    MaxOffset,    \* i64::MAX
    Refused       \* an answer that is an error: 404 Not Found, 400 Bad Request

ASSUME QueriesAssumption ==
    /\ Bodies \subseteq DOMAIN CategoryOf /\ Bodies \subseteq DOMAIN TitleOf
    /\ \A search \in DOMAIN FoundBy : FoundBy[search] \subseteq Bodies
    /\ MaxPageSize \in Nat \ {0}
    /\ MaxOffset \in Nat

\* The characters that titles, ids and numbers are written with.
Characters ==
    {"-"} \cup Range(LowerCase)
          \cup UNION {Range(text) : text \in Range(TitleOf) \cup Range(IdOf) \cup Range(Digits)}

ASSUME TextsAssumption ==
    /\ \A body \in Bodies : TitleOf[body] \in Seq(Characters)
    /\ \A n \in NoteIds : IdOf[n] \in Seq(Characters)
    /\ DOMAIN Digits \subseteq Nat /\ IsFiniteSet(DOMAIN Digits) /\ IsInjective(Digits)
    /\ \A k \in DOMAIN Digits : Digits[k] \in Seq(Characters)
    /\ Blank \notin NoteIds
    /\ Refused \notin [file: Seq(Characters), row: Row]

-----------------------------------------------------------------------------
(* Overview *)

IsDeleted(row) == row.change.deleted # NotDeleted

\* The counts are aggregates of one SELECT, without latest_snapshot_at.
Overview(notes) ==
    [latestRevision |-> CurrentRevision(notes),
     noteCount      |-> Cardinality(DOMAIN notes),
     deletedCount   |-> Cardinality({n \in DOMAIN notes : IsDeleted(notes[n])}),
     categoryCount  |->
         Cardinality({CategoryOf[notes[n].change.body] : n \in DOMAIN notes} \ {Blank})]

-----------------------------------------------------------------------------
(* ORDER BY *)

\* The pairs of members of S of which the first comes before the second.
OrderOf(S, Before(_, _)) == {pair \in S \X S : Before(pair[1], pair[2])}

\* The members of S in a total order: the place of each says how many come before it.
OrderBy(S, order) ==
    [i \in 1 .. Cardinality(S) |->
        CHOOSE x \in S : Cardinality({y \in S : <<y, x>> \in order}) = i - 1]

-----------------------------------------------------------------------------
(* The list of notes *)

NoteStateFilter == {"all", "active", "deleted"}

NoteListQuery ==
    [search: DOMAIN FoundBy \cup {Blank}, category: {CategoryOf[b] : b \in Bodies} \cup {Blank},
     state: NoteStateFilter]

\* Mutant of Matches: a deleted note is still active.
MatchesDeletedToo(row, query) ==
    /\ query.search # Blank => row.change.body \in FoundBy[query.search]
    /\ query.category # Blank => CategoryOf[row.change.body] = query.category
    /\ query.state = "deleted" => IsDeleted(row)

\* The WHERE of both SELECTs; normalize_optional has made blank filters NULL.
Matches(row, query) ==
    /\ query.search # Blank => row.change.body \in FoundBy[query.search]
    /\ query.category # Blank => CategoryOf[row.change.body] = query.category
    /\ query.state = "active" => ~IsDeleted(row)
    /\ query.state = "deleted" => IsDeleted(row)

\* Mutant of Precedes: ORDER BY revision ASC.
PrecedesOldestFirst(p, q) == p.revision < q.revision

\* ORDER BY revision DESC, updated_at DESC, id ASC
Precedes(p, q) ==
    \/ p.revision > q.revision
    \/ p.revision = q.revision /\ p.updated > q.updated
    \/ p.revision = q.revision /\ p.updated = q.updated /\ p.note < q.note

\* All that a query finds, as the ids in the order of the list.
Listing(notes, query) ==
    LET Key(n) == [note |-> n, revision |-> notes[n].revision,
                   updated |-> notes[n].change.updated]
        found == {n \in DOMAIN notes : Matches(notes[n], query)}
    IN  OrderBy(found, OrderOf(found, LAMBDA m, n : Precedes(Key(m), Key(n))))

\* Mutant of Offset: pages are counted from 0.
OffsetFromZero(page, size) == page * size

Offset(page, size) == Min({(page - 1) * size, MaxOffset})

\* The page and its size are brought into their ranges, then LIMIT and OFFSET.
NoteListPage(notes, query, askedPage, askedSize) ==
    LET page    == Max({askedPage, 1})
        size    == Min({Max({askedSize, 1}), MaxPageSize})
        listing == Listing(notes, query)
        first   == Offset(page, size) + 1
    IN  [page |-> page, pageSize |-> size, total |-> Len(listing),
         notes |-> SubSeq(listing, first, Min({first + size - 1, Len(listing)}))]

-----------------------------------------------------------------------------
(* One note *)

NoteDetail(notes, n) == IF n \in DOMAIN notes THEN notes[n] ELSE Refused

\* Mutant of NoteHistory: ORDER BY revision ASC.
NoteHistoryOldestFirst(snapshots, n) ==
    LET history == {s \in snapshots : s.note = n}
    IN  OrderBy(history, OrderOf(history, LAMBDA s, t : s.revision < t.revision))

\* ORDER BY revision DESC, then snapshot_id, which no two of one revision need.
NoteHistory(snapshots, n) ==
    LET history == {s \in snapshots : s.note = n}
    IN  OrderBy(history, OrderOf(history, LAMBDA s, t : s.revision > t.revision))

-----------------------------------------------------------------------------
(* Markdown files *)

\* One character more of the title: letters and digits in lower case, one dash
\* for any run of separators, nothing for others.
StemWith(stem, ch) ==
    IF ch \in DOMAIN LowerCase THEN Append(stem, LowerCase[ch])
    ELSE IF ch \in {" ", "-", "_"} /\ (stem = <<>> \/ Last(stem) # "-") THEN Append(stem, "-")
    ELSE stem

\* trim_matches('-')
TrimDashes(stem) ==
    LET kept == {i \in DOMAIN stem : stem[i] # "-"}
    IN  IF kept = {} THEN <<>> ELSE SubSeq(stem, Min(kept), Max(kept))

\* A title of which nothing is left gives the note's id.
SanitizeFileStem(title, id) ==
    LET stem == TrimDashes(FoldLeft(StemWith, <<>>, title))
    IN  IF stem = <<>> THEN id ELSE stem

\* The name of a note's file, without the extension md that all have.
MarkdownFile(notes, n) ==
    LET title == TitleOf[notes[n].change.body]
    IN  SanitizeFileStem(IF \A i \in DOMAIN title : title[i] = " " THEN IdOf[n] ELSE title, IdOf[n])

MarkdownDownload(notes, n) ==
    IF n \in DOMAIN notes THEN [file |-> MarkdownFile(notes, n), row |-> notes[n]] ELSE Refused

-----------------------------------------------------------------------------
(* An archive of several *)

\* Mutant of NormalizeArchiveNoteIds: repetitions stay.
NormalizeBlanksOnly(ids) == SelectSeq(ids, LAMBDA id : id # Blank)

\* The ids asked for, in their order, without blank ones and repetitions.
NormalizeArchiveNoteIds(ids) ==
    FoldLeft(LAMBDA kept, id : IF id = Blank \/ id \in Range(kept) THEN kept ELSE Append(kept, id),
             <<>>, ids)

Suffixed(file, k) == file \o <<"-">> \o Digits[k]

\* The first of file, file-2, file-3, ... that no entry has.
UniqueArchiveFileName(file, used) ==
    IF file \notin used THEN file
    ELSE Suffixed(file, Min({k \in DOMAIN Digits : Suffixed(file, k) \notin used}))

\* The names of the entries for the downloads.
BuildNotesArchive(downloads) ==
    FoldLeft(LAMBDA names, d : Append(names, UniqueArchiveFileName(d.file, Range(names))),
             <<>>, downloads)

\* No archive of nothing, and none where one note is missing.  Each note is read
\* under the mutex by itself; here no push falls between two of them.
NotesArchive(notes, ids) ==
    LET kept == NormalizeArchiveNoteIds(ids)
        downloads == [i \in DOMAIN kept |-> MarkdownDownload(notes, kept[i])]
    IN  IF kept = <<>> \/ Refused \in Range(downloads) THEN Refused
        ELSE BuildNotesArchive(downloads)

=============================================================================
