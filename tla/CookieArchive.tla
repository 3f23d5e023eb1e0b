--------------------------- MODULE CookieArchive ---------------------------
(***************************************************************************)
(* Reading an uploaded archive of browser sessions.  The entries of the    *)
(* ZIP directory are checked in order, those that are no session files are *)
(* passed over, and each session file becomes an item with a session or    *)
(* with the code of what is wrong with it.                                 *)
(*                                                                         *)
(* Names, bytes and addresses are abstracted to what the checks ask of     *)
(* them; sizes are counted in units of which the limits are multiples.     *)
(***************************************************************************)
EXTENDS Integers, FiniteSets, Sequences, SequencesExt

CONSTANTS
    Archives,         \* the archives that may be uploaded
    MaxEntries,       \* MAX_ENTRIES
    MaxEntrySize,     \* MAX_ENTRY_BYTES
    MaxExpandedSize,  \* MAX_UNCOMPRESSED_BYTES
    MaxRatio,         \* MAX_COMPRESSION_RATIO
    MaxCookies        \* how many live cookies an entry may hold

\* What is asked of a cookie, and of an entry: its suffix, sizes and flags in
\* the directory of the ZIP, and what its JSON is or lacks.
ArchiveCookies ==
    [name : {"token", "data", "other"}, domain : {"site", "subdomain"},
     expired : BOOLEAN, wellFormed : BOOLEAN]

ArchiveEntries ==
    [path : {"root", "folder", "deep", "unsafe"}, suffix : {"json", "zip", "other"},
     directory : BOOLEAN, resourceFork : BOOLEAN, link : BOOLEAN, encrypted : BOOLEAN,
     size : Nat, packed : Nat,
     document : {"object", "noJson", "wrongUrl", "noCookies"}, cookies : Seq(ArchiveCookies)]

ASSUME ArchiveLimits ==
    /\ {MaxEntries, MaxEntrySize, MaxExpandedSize, MaxRatio, MaxCookies} \subseteq Nat
    /\ Archives \subseteq Seq(ArchiveEntries)

VARIABLE archive

ArchiveInit == archive \in Archives

-----------------------------------------------------------------------------

\* The code of the first check that raises, given <<raises, code>> in order.
FirstFault(checks) ==
    LET k == SelectInSeq(checks, LAMBDA check : check[1]) IN
    IF k = 0 THEN "none" ELSE checks[k][2]

IsBomb(e) == e.size > 0 /\ (e.packed = 0 \/ e.size > MaxRatio * e.packed)

\* Directories, other files and resource forks are no session files.
IsIgnored(e) == e.directory \/ e.suffix # "json" \/ e.resourceFork

\* Mutant of EntryFault: what is ignored is not checked either.
EntryFaultOfSessions(e) ==
    IF IsIgnored(e) THEN "none"
    ELSE FirstFault(<< <<e.path = "unsafe", "ARCHIVE_UNSAFE_PATH">>,
                       <<e.link, "ARCHIVE_SYMLINK_ENTRY">>,
                       <<e.encrypted, "ARCHIVE_ENCRYPTED_ENTRY">>,
                       <<IsBomb(e), "ARCHIVE_COMPRESSION_RATIO">>,
                       <<e.path = "deep", "ARCHIVE_UNSAFE_PATH">>,
                       <<e.size > MaxEntrySize, "ARCHIVE_ENTRY_TOO_LARGE">> >>)

\* The body of the loop of _validate_archive_entries.
EntryFault(e) ==
    FirstFault(<< <<e.path = "unsafe", "ARCHIVE_UNSAFE_PATH">>,
                  <<e.link, "ARCHIVE_SYMLINK_ENTRY">>,
                  <<e.encrypted, "ARCHIVE_ENCRYPTED_ENTRY">>,
                  <<IsBomb(e), "ARCHIVE_COMPRESSION_RATIO">>,
                  <<e.suffix = "zip", "ARCHIVE_NESTED_ARCHIVE">>,
                  <<~IsIgnored(e) /\ e.path = "deep", "ARCHIVE_UNSAFE_PATH">>,
                  <<~IsIgnored(e) /\ e.size > MaxEntrySize, "ARCHIVE_ENTRY_TOO_LARGE">> >>)

\* Where the session files are.
SessionFiles(entries) == {k \in DOMAIN entries : ~IsIgnored(entries[k])}

Expanded(entries) == SumFunctionOnSet([k \in DOMAIN entries |-> entries[k].size], DOMAIN entries)

\* _validate_archive_entries: ignored entries count as entries and as size.
ArchiveFault(entries) ==
    LET k == SelectInSeq(entries, LAMBDA e : EntryFault(e) # "none")
        fault == IF k = 0 THEN "none" ELSE EntryFault(entries[k])
    IN
    FirstFault(<< <<entries = <<>>, "ARCHIVE_EMPTY">>,
                  <<Len(entries) > MaxEntries, "ARCHIVE_TOO_MANY_ENTRIES">>,
                  <<fault # "none", fault>>,
                  <<Expanded(entries) > MaxExpandedSize, "ARCHIVE_EXPANDED_TOO_LARGE">>,
                  <<SessionFiles(entries) = {}, "ARCHIVE_NO_JSON_ENTRIES">> >>)

-----------------------------------------------------------------------------
(* One session file: _parse_item.                                          *)

\* _normalized_cookie drops an expired cookie before it looks at the rest.
Live(e) == {i \in DOMAIN e.cookies : ~e.cookies[i].expired}

Names(e) == {e.cookies[i].name : i \in Live(e)}

\* _parse_item, _renewal_session_from_payload
SessionFault(e) ==
    FirstFault(<< <<e.document = "noJson", "ENTRY_JSON_INVALID">>,
                  <<e.document = "wrongUrl", "ENTRY_URL_INVALID">>,
                  <<e.document = "noCookies", "ENTRY_COOKIES_INVALID">>,
                  <<\E i \in Live(e) : ~e.cookies[i].wellFormed, "COOKIE_ENTRY_INVALID">>,
                  <<Cardinality(Live(e)) > MaxCookies, "COOKIE_COUNT_EXCEEDED">>,
                  <<\E i, j \in Live(e) : i # j /\ e.cookies[i] = e.cookies[j], "COOKIE_DUPLICATE_KEY">>,
                  <<"token" \notin Names(e), "COOKIE_SESSION_TOKEN_MISSING">>,
                  <<"data" \notin Names(e), "COOKIE_SESSION_DATA_MISSING">> >>)

\* parse_cookie_import_archive: the items of an archive that is accepted.
ParsedItems(entries) ==
    [k \in SessionFiles(entries) |-> [file |-> entries[k], error |-> SessionFault(entries[k])]]

-----------------------------------------------------------------------------
(* Properties.                                                             *)

Unsafe(e) ==
    e.path = "unsafe" \/ e.link \/ e.encrypted \/ IsBomb(e) \/ e.suffix = "zip"

(* "Keep the safety checks for every entry so an ignored entry cannot      *)
(* bypass the archive boundary": an archive is accepted only if none of    *)
(* its entries, ignored or not, is unsafe and all of them together are     *)
(* small; and what is then staged as a session can still log in.           *)
ArchiveBoundaryHolds ==
    ArchiveFault(archive) = "none" =>
      /\ \A e \in ToSet(archive) : ~Unsafe(e)
      /\ Len(archive) <= MaxEntries /\ Expanded(archive) <= MaxExpandedSize
      /\ SessionFiles(archive) # {}
      /\ \A k \in SessionFiles(archive) :
           LET parsed == ParsedItems(archive)[k] IN
           parsed.error = "none" =>
             \A name \in {"token", "data"} :
               \E c \in ToSet(parsed.file.cookies) :
                 c.name = name /\ c.wellFormed /\ ~c.expired
=============================================================================
