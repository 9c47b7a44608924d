---------------------------- MODULE RunnerFiles ----------------------------
(***************************************************************************)
(* The files of a chat on its runner: transfers, and listings and          *)
(* searches.                                                               *)
(***************************************************************************)
EXTENDS Integers, Sequences, FiniteSets, SequencesExt

-----------------------------------------------------------------------------
(***************************************************************************)
(* The files of a chat on its runner, as the backend writes and reads them *)
(* over the connection: whole files, replaced or written in place, lines   *)
(* appended, uploads under a free name, and a reader that can seek and     *)
(* opens a new stream where it needs one.  The agent works on the same     *)
(* files; it shows here as one more writer.                                *)
(*                                                                         *)
(* A file is a sequence of parts; the data of a writer has PartsOf parts.  *)
(* A directory entry names an inode, and an open file stays the inode it   *)
(* was opened as.                                                          *)
(***************************************************************************)

CONSTANTS Writers, Twins, MaxNames, MaxSeeks

VARIABLES
    entries,    \* the inode each name stands for
    inodes,     \* the parts of each inode
    writer,     \* where each writer is
    reader,     \* the reader of the first name
    stored      \* the uploads that were acknowledged: name and data
fileVars == <<entries, inodes, writer, reader, stored>>

PartsOf == 2
WriteKinds == {"replace", "overwrite", "append", "put", "remove"}
None == 0
Hole == <<"hole", 0>>

\* The names of the directory: those of the files, and the temporary one of each writer.
File(n) == <<"file", n>>
Temp(w) == <<"temp", w>>
Names == {File(n) : n \in 1..MaxNames} \cup {Temp(w) : w \in Writers}

\* The data of a writer: some have the same.
Part(w, i) == <<IF w \in Twins THEN "same" ELSE w, i>>
Data(w) == [i \in 1..PartsOf |-> Part(w, i)]

\* A file that was there before.
Old == <<<<"old", 1>>, <<"old", 2>>>>

Closed == [open |-> FALSE, pos |-> 0, size |-> 0, inode |-> None, off |-> 0, buf |-> <<>>, seeks |-> 0, got |-> <<>>]

TransferInit ==
    /\ \/ entries = [n \in Names |-> None] /\ inodes = <<>>
       \/ entries = [n \in Names |-> IF n = File(1) THEN 1 ELSE None] /\ inodes = <<Old>>
    /\ writer = [w \in Writers |-> [at |-> "idle", kind |-> "remove", name |-> File(1), inode |-> None, copied |-> 0]]
    /\ reader = Closed /\ stored = {}

NewInode(n) == /\ inodes' = Append(inodes, <<>>) /\ entries' = [entries EXCEPT ![n] = Len(inodes) + 1]
Open(w, kind, n, i) == writer' = [writer EXCEPT ![w] = [at |-> "open", kind |-> kind, name |-> n, inode |-> i, copied |-> 0]]
Done(w) == writer' = [writer EXCEPT ![w].at = "done"]

\* writeBeneath of a file that is to be replaced: a file of its own, beside it.
BeginReplace(w) ==
    /\ writer[w].at = "idle"
    /\ NewInode(Temp(w)) /\ Open(w, "replace", Temp(w), Len(inodes) + 1)
    /\ UNCHANGED <<reader, stored>>

\* WriteFile with SkipIfUnchanged: the data are the ones the file has.
SkipUnchanged(w) ==
    /\ writer[w].at = "idle" /\ entries[File(1)] # None
    /\ inodes[entries[File(1)]] = Data(w)
    /\ Done(w)
    /\ UNCHANGED <<entries, inodes, reader, stored>>

\* writeBeneath in place, and appendBeneath: the file is opened, the first cuts it.
BeginInPlace(w, kind) ==
    /\ writer[w].at = "idle" /\ kind \in {"overwrite", "append"}
    /\ LET i == entries[File(1)] IN
       IF i = None THEN NewInode(File(1)) /\ Open(w, kind, File(1), Len(inodes) + 1)
       ELSE /\ Open(w, kind, File(1), i)
            /\ inodes' = IF kind = "overwrite" THEN [inodes EXCEPT ![i] = <<>>] ELSE inodes
            /\ UNCHANGED entries
    /\ UNCHANGED <<reader, stored>>

\* The name of an upload: the first one that is free.
MayTake(n) == entries[File(n)] = None /\ \A m \in 1..n-1 : entries[File(m)] # None

\* PutAttachment: the file is created under the first free name.
BeginPut(w) ==
    /\ writer[w].at = "idle"
    /\ \E n \in 1..MaxNames : MayTake(n) /\ NewInode(File(n)) /\ Open(w, "put", File(n), Len(inodes) + 1)
    /\ UNCHANGED <<reader, stored>>

\* PutAttachment: too many names are taken.
PutRefused(w) ==
    /\ writer[w].at = "idle" /\ ~\E n \in 1..MaxNames : MayTake(n)
    /\ Done(w)
    /\ UNCHANGED <<entries, inodes, reader, stored>>

\* removeBeneath of a file.
RemoveFile(w) ==
    /\ writer[w].at = "idle" /\ entries[File(1)] # None
    /\ entries' = [entries EXCEPT ![File(1)] = None] /\ Done(w)
    /\ stored' = {s \in stored : s.name # File(1)}
    /\ UNCHANGED <<inodes, reader>>

\* A part written where the descriptor stands.
WrittenAt(s, i, part) == [k \in 1..(IF i > Len(s) THEN i ELSE Len(s)) |-> IF k = i THEN part ELSE IF k <= Len(s) THEN s[k] ELSE Hole]

\* io.Copy: the next part arrives from the backend and is written.
Copy(w) ==
    LET i == writer[w].inode  k == writer[w].copied + 1 IN
    /\ writer[w].at = "open" /\ k <= PartsOf
    /\ \/ writer[w].kind = "append" /\ inodes' = [inodes EXCEPT ![i] = @ \o Data(w)] /\ writer' = [writer EXCEPT ![w].copied = PartsOf]
       \/ writer[w].kind # "append" /\ inodes' = [inodes EXCEPT ![i] = WrittenAt(@, k, Part(w, k))] /\ writer' = [writer EXCEPT ![w].copied = k]
    /\ UNCHANGED <<entries, reader, stored>>

\* The file a failed writer removes: the temporary one, the upload; the file itself only
\* when the data are too large.
RemovedOnFailure(kind, tooLarge) == kind \in {"replace", "put"} \/ (kind = "overwrite" /\ tooLarge)

\* The connection breaks, or the data are too large.
Fail(w, tooLarge) ==
    /\ writer[w].at = "open" /\ writer[w].kind # "append" /\ writer[w].copied < PartsOf
    /\ entries' = IF RemovedOnFailure(writer[w].kind, tooLarge) THEN [entries EXCEPT ![writer[w].name] = None] ELSE entries
    /\ stored' = IF RemovedOnFailure(writer[w].kind, tooLarge) THEN {s \in stored : s.name # writer[w].name} ELSE stored
    /\ Done(w)
    /\ UNCHANGED <<inodes, reader>>

\* Mutant: the new file takes the place of the old one before all of it is written.
MayRenameEarly(w) == TRUE

\* The rename follows the last part.
MayRename(w) == writer[w].copied = PartsOf

\* The rest of writeBeneath, appendBeneath and PutAttachment: a replacement takes the
\* place of the file, an upload is acknowledged with its name.
Finish(w) ==
    /\ writer[w].at = "open" /\ (IF writer[w].kind = "replace" THEN MayRename(w) ELSE writer[w].copied = PartsOf)
    /\ \/ /\ writer[w].kind = "replace"
          /\ entries' = [entries EXCEPT ![File(1)] = writer[w].inode, ![Temp(w)] = None]
          /\ stored' = {s \in stored : s.name # File(1)}
       \/ /\ writer[w].kind = "put" /\ UNCHANGED entries
          /\ stored' = stored \cup (IF entries[writer[w].name] = writer[w].inode THEN {[name |-> writer[w].name, by |-> w]} ELSE {})
       \/ writer[w].kind \in {"overwrite", "append"} /\ stored' = {s \in stored : s.name # File(1)} /\ UNCHANGED entries
    /\ Done(w)
    /\ UNCHANGED <<inodes, reader>>

-----------------------------------------------------------------------------
\* openRanged and sendFile: the header gives the size, the stream is at the start.
OpenReader ==
    /\ ~reader.open /\ entries[File(1)] # None
    /\ LET i == entries[File(1)] IN
       reader' = [reader EXCEPT !.open = TRUE, !.pos = 0, !.size = Len(inodes[i]), !.inode = i, !.off = 0, !.buf = <<>>]
    /\ UNCHANGED <<entries, inodes, writer, stored>>

\* The offset of a stream opened again.
StartsAt(pos) == pos

\* Read, without a stream: the file is opened again by its name, where the reader is.
Reopen ==
    /\ reader.open /\ reader.inode = None /\ reader.pos < reader.size
    /\ LET i == entries[File(1)] IN
       /\ i # None /\ StartsAt(reader.pos) <= Len(inodes[i])
       /\ reader' = [reader EXCEPT !.inode = i, !.off = StartsAt(reader.pos)]
    /\ UNCHANGED <<entries, inodes, writer, stored>>

\* Read: a chunk of one or more parts is received.
Receive ==
    /\ reader.open /\ reader.inode # None /\ reader.buf = <<>> /\ reader.pos < reader.size
    /\ \E n \in 1..(Len(inodes[reader.inode]) - reader.off) :
          reader' = [reader EXCEPT !.off = @ + n, !.buf = [k \in 1..n |-> <<reader.inode, reader.off + k, inodes[reader.inode][reader.off + k]>>]]
    /\ UNCHANGED <<entries, inodes, writer, stored>>

\* Read: a part of the buffer is delivered.
Deliver ==
    /\ reader.open /\ reader.buf # <<>> /\ reader.pos < reader.size
    /\ reader' = [reader EXCEPT !.pos = @ + 1, !.buf = Tail(@),
                                !.got = Append(@, [at |-> reader.pos + 1, inode |-> Head(reader.buf)[1], index |-> Head(reader.buf)[2]])]
    /\ UNCHANGED <<entries, inodes, writer, stored>>

\* drop forgets what was received.
DroppedBuffer(b) == <<>>

\* The stream ends before the size of the header, or breaks; or the reader moves.
Drop ==
    /\ reader.open /\ reader.inode # None
    /\ reader' = [reader EXCEPT !.inode = None, !.buf = DroppedBuffer(@)]
    /\ UNCHANGED <<entries, inodes, writer, stored>>
Seek(p) ==
    /\ reader.open /\ reader.seeks < MaxSeeks /\ p # reader.pos
    /\ reader' = [reader EXCEPT !.inode = None, !.buf = DroppedBuffer(@), !.pos = p, !.seeks = @ + 1]
    /\ UNCHANGED <<entries, inodes, writer, stored>>

TransferNext ==
    \/ \E w \in Writers :
          \/ BeginReplace(w) \/ SkipUnchanged(w) \/ BeginPut(w) \/ PutRefused(w) \/ RemoveFile(w) \/ Copy(w) \/ Finish(w)
          \/ \E k \in {"overwrite", "append"} : BeginInPlace(w, k)
          \/ \E b \in BOOLEAN : Fail(w, b)
    \/ OpenReader \/ Reopen \/ Receive \/ Deliver \/ Drop
    \/ \E p \in 0..PartsOf : Seek(p)

TransferSpec == TransferInit /\ [][TransferNext]_fileVars

-----------------------------------------------------------------------------
\* The writers that have an inode open, or had.
InPlace(i) == \E w \in Writers : writer[w].inode = i /\ writer[w].kind \in {"overwrite", "append", "put"}

\* Under the name of the file there is never half of a replacement: unless somebody writes
\* it in place, it is the whole data of one writer (writeBeneath).
ReplacedWhole ==
    LET i == entries[File(1)] IN
    i # None => InPlace(i) \/ inodes[i] \in {Old} \cup {Data(w) : w \in Writers}

\* An upload that was acknowledged with a name is found under it, with its own data, until
\* somebody replaces, writes or removes the file of that name: no other upload has taken
\* it (PutAttachment).
UploadsKept ==
    \A s \in stored :
        /\ entries[s.name] # None
        /\ (\A w \in Writers : writer[w].kind \in {"overwrite", "append"} => writer[w].inode # entries[s.name])
           => inodes[entries[s.name]] = Data(s.by)

\* When all writers have ended, successfully or not, no temporary file is left.
NoTempLeft == (\A w \in Writers : writer[w].at \in {"idle", "done"}) => \A w \in Writers : entries[Temp(w)] = None

\* Wherever the reader has moved and however often its stream was opened again, what it
\* delivers as the part at a position is the part at that position of the file it has open
\* (remoteReader).
ReadsInPlace == \A k \in 1..Len(reader.got) : reader.got[k].at = reader.got[k].index

-----------------------------------------------------------------------------
(***************************************************************************)
(* The listing of a directory of a chat, page by page, while the agent     *)
(* works in it, and the search for files over the directories of the chat. *)
(*                                                                         *)
(* Names are numbers in the order of the strings.  Every page is read from *)
(* the directory as it then is: between two pages the runner keeps only    *)
(* the token, the last entry of the page before.                           *)
(***************************************************************************)

CONSTANTS MaxName, Limit, MaxChanges, MaxFiles, SearchLimits

VARIABLES
    dir,        \* what each name of the directory is
    listing,    \* the listing in progress
    stable,     \* the entries that have not changed since it began
    changes,
    found       \* the last search: what there was and what it found
listVars == <<dir, listing, stable, changes, found>>

Entries == 1..MaxName
Kinds == {"dir", "file"}
Absent == "absent"
Idle == [of |-> "none", token |-> <<>>, got |-> <<>>]

ListingInit ==
    /\ dir \in [Entries -> Kinds \cup {Absent}]
    /\ listing = Idle /\ stable = {} /\ changes = 0
    /\ found = <<>>

rank(kind) == IF kind = "dir" THEN 0 ELSE 1

\* Directories come before files, names in order.
afterToken(e, tok) == tok = <<>> \/ (IF rank(e.kind) # rank(tok[1].kind) THEN rank(e.kind) > rank(tok[1].kind) ELSE e.name > tok[1].name)

\* Subdirs: the directories by name alone.
Subdir(e, tok) == e.kind = "dir" /\ (tok = <<>> \/ e.name > tok[1].name)

\* What a page of the tree and one of the subdirectories may hold, after the token.
Items(of, tok) ==
    {e \in [name : Entries, kind : Kinds] :
        /\ dir[e.name] = e.kind
        /\ IF of = "tree" THEN afterToken(e, tok) ELSE Subdir(e, tok)}
Sorted(items) == SetToSortSeq(items, LAMBDA a, b : rank(a.kind) < rank(b.kind) \/ (a.kind = b.kind /\ a.name < b.name))

\* tokenOf the last entry of a page that is not the last one.
Token(items) == <<items[Limit]>>

\* The listing begins.
Begin(of) ==
    /\ listing.of = "none" /\ found = <<>>
    /\ listing' = [of |-> of, token |-> <<>>, got |-> <<>>]
    /\ stable' = {n \in Entries : dir[n] # Absent}
    /\ UNCHANGED <<dir, changes, found>>

\* Tree and Subdirs for one page, and the loop of the backend over the pages.
Page ==
    LET items == Sorted(Items(listing.of, listing.token))
        page == SubSeq(items, 1, IF Len(items) < Limit THEN Len(items) ELSE Limit)
    IN  /\ listing.of \in {"tree", "subdirs"}
        /\ listing' = [of |-> IF Len(items) > Limit THEN listing.of ELSE "done " \o listing.of,
                       token |-> IF Len(items) > Limit THEN Token(items) ELSE <<>>,
                       got |-> listing.got \o page]
        /\ UNCHANGED <<dir, stable, changes, found>>

\* The agent creates, removes or replaces an entry.
Change(n, kind) ==
    /\ listing.of \in {"tree", "subdirs"} /\ changes < MaxChanges /\ dir[n] # kind
    /\ dir' = [dir EXCEPT ![n] = kind] /\ stable' = stable \ {n} /\ changes' = changes + 1
    /\ UNCHANGED <<listing, found>>

-----------------------------------------------------------------------------
(* The search.  A file is its inode and whether its path holds the query.  *)
\* Trees share inodes (links, one directory within another), and one file may not match.
Tree(n, first, other) == [i \in 1..n |-> [inode |-> first + i, match |-> i # other]]
Trees(max) == {Tree(n, first, other) : n \in 0..max, first \in 0..2, other \in 0..1}
InodesOf(s) == {s[i].inode : i \in DOMAIN s}

\* walk and scan: of the files in their order each inode is looked at once, until max
\* of them are hits.
FirstSeen(s, visited) == {i \in DOMAIN s : s[i].inode \notin visited /\ \A j \in 1..i-1 : s[j].inode # s[i].inode}
Hits(s, visited, max) ==
    {i \in FirstSeen(s, visited) : s[i].match /\ Cardinality({j \in FirstSeen(s, visited) : j < i /\ s[j].match}) < max}
Visited(s, visited, max) ==
    visited \cup {s[i].inode : i \in {i \in DOMAIN s : max > 0 /\ Cardinality({j \in Hits(s, visited, max) : j < i}) < max}}

\* A quarter of the limit is kept for the temporary directory, if there is one.
WorkspaceLimit(limit, tmp) == IF tmp # <<>> THEN limit - limit \div 4 ELSE limit

\* Search over the workspace, the temporary directory and that of the session; <<>> is
\* a directory that is not there.  The overlap of the first two is the other case.
Search(ws, tmp, sess, limit, overlap) ==
    LET wl == IF overlap THEN limit ELSE WorkspaceLimit(limit, tmp)
        h1 == Hits(ws, {}, wl)
        v1 == Visited(ws, {}, wl)
        rest == limit - Cardinality(h1)
        h2 == IF overlap THEN {} ELSE Hits(tmp, v1, rest)
        v2 == IF overlap THEN v1 ELSE Visited(tmp, v1, rest)
        h3 == Hits(sess, v2, rest - Cardinality(h2))
    IN  /\ found = <<>> /\ listing.of = "none"
        /\ found' = <<[ws |-> ws, tmp |-> tmp, sess |-> sess, limit |-> limit, overlap |-> overlap,
                       hits |-> <<h1, h2, h3>>]>>
        /\ UNCHANGED <<dir, listing, stable, changes>>

ListingNext ==
    \/ \E of \in {"tree", "subdirs"} : Begin(of)
    \/ Page
    \/ \E n \in Entries, k \in Kinds \cup {Absent} : Change(n, k)
    \/ /\ found = <<>> /\ listing.of = "none" /\ \A n \in Entries : dir[n] = Absent
       /\ \E ws, tmp \in Trees(MaxFiles), sess \in Trees(1), l \in SearchLimits, b \in BOOLEAN : Search(ws, tmp, sess, l, b)

ListingSpec == ListingInit /\ [][ListingNext]_listVars

-----------------------------------------------------------------------------
Times(n) == Cardinality({i \in DOMAIN listing.got : listing.got[i].name = n})

\* However the directory changes between two pages, an entry that is there all the time is
\* listed once, and a subdirectory listing holds just the directories (Tree, Subdirs).
StableListedOnce ==
    /\ listing.of = "done tree" => \A n \in stable : Times(n) = 1
    /\ listing.of = "done subdirs" => \A n \in stable : Times(n) = (IF dir[n] = "dir" THEN 1 ELSE 0)

\* The tree is in its order also across pages: a token never leads backwards.
PagesInOrder ==
    \A i, j \in DOMAIN listing.got : i < j =>
        LET a == listing.got[i]  b == listing.got[j] IN
        rank(a.kind) < rank(b.kind) \/ (a.kind = b.kind /\ a.name < b.name)

\* A search finds no file twice and no more than its limit; and when the workspace alone
\* could fill the limit, the temporary directory still gets a quarter of it (Search).
SearchShares ==
    found # <<>> =>
        LET f == found[1]
            tmpHits == {i \in FirstSeen(f.tmp, InodesOf(f.ws)) : f.tmp[i].match}
        IN  /\ Cardinality(f.hits[1]) + Cardinality(f.hits[2]) + Cardinality(f.hits[3]) <= f.limit
            /\ Cardinality({f.ws[i].inode : i \in f.hits[1]} \cup {f.tmp[i].inode : i \in f.hits[2]} \cup {f.sess[i].inode : i \in f.hits[3]})
               = Cardinality(f.hits[1]) + Cardinality(f.hits[2]) + Cardinality(f.hits[3])
            /\ ~f.overlap => Cardinality(f.hits[2]) >= (IF Cardinality(tmpHits) < f.limit \div 4 THEN Cardinality(tmpHits) ELSE f.limit \div 4)
=============================================================================
