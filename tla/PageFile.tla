------------------------------ MODULE PageFile ------------------------------
(***************************************************************************)
(* The data file: DatabaseFile (storage/) with the pages it reads and      *)
(* writes, Database::initializeStorage, which gives it its header page,    *)
(* and IntegrityScanner, which looks at that page.                         *)
(*                                                                         *)
(* A page is three parts of the file: its PageHeader, the front of its     *)
(* payload (what HeaderPageLayout::isValid reads) and the rest.  A write   *)
(* that fails, a crash in the middle of one and a resize leave any number  *)
(* of parts.  A read that meets the end of the file is no error to         *)
(* readBytes(): it leaves the bytes it did not get as they were, and it    *)
(* leaves eofbit and failbit on the stream, where only an open clears      *)
(* failbit.  The bytes of a PageHeader that was not read are indeterminate.*)
(*                                                                         *)
(* writePage() ends by writing a payload larger than the stream's buffer,  *)
(* which goes to the operating system at once; so between two calls        *)
(* nothing is held back, and a process that dies leaves the file as it is. *)
(***************************************************************************)
EXTENDS Integers, Sequences

CONSTANTS
    PageIds,    \* ids of the pages that are read and written, from 0
    Marks,      \* contents a page may be given (generation and payload)
    MaxParts    \* bound: the file's length, in parts

\* HeaderPage::create(): the only payload its layout's isValid() accepts.
Root == "root"

ASSUME PageFileAssumption ==
    0 \in PageIds /\ PageIds \subseteq Nat /\ Root \notin Marks /\ MaxParts \in Nat

VARIABLES
    disk,       \* the file: [exists, parts]
    stream,     \* stream_: [open, fail, eof]
    size,       \* size_, in parts
    torn,       \* observer: a write failed since size_ was taken from the file
    stored,     \* observer: what the file should hold of each page
    last        \* observer: the last call

fileVars == <<disk, stream, size, torn, stored, last>>

PageParts == 3

\* A part: a page type (in a header) and a mark.  A file's hole is all zeros.
Zero == <<"Invalid", "zero">>

Headers == {"Data", "Header"} \X (Marks \cup {Root})

\* PageHeader::isValid(): the magic number, and a type other than Invalid.
IsValid(h) == h[1] # "Invalid"

PageOf(type, mark) == <<<<type, mark>>, <<"payload", mark>>, <<"payload", mark>>>>

HeaderPage == PageOf("Header", Root)

\* The pages that are written: the data pages, and the file's header page.
Pages == {PageOf("Data", m) : m \in Marks} \cup {HeaderPage}

\* What an observer expects of a page nobody wrote, and of one that was cut.
Nothing == <<>>
Broken == <<Zero>>

\* Mutant of Position: a page takes up only its payload.
PositionByPayload(id) == id * (PageParts - 1)

Position(id) == id * PageParts

Length == Len(disk.parts)

Closed == [open |-> FALSE, fail |-> FALSE, eof |-> FALSE]
Good == [open |-> TRUE, fail |-> FALSE, eof |-> FALSE]

\* The file with the parts ps from pos on; a write behind the end leaves zeros.
Put(parts, pos, ps) ==
    [i \in 1 .. IF pos + Len(ps) > Len(parts) THEN pos + Len(ps) ELSE Len(parts) |->
        IF i \in pos + 1 .. pos + Len(ps) THEN ps[i - pos]
        ELSE IF i <= Len(parts) THEN parts[i] ELSE Zero]

\* fs::resize_file(): cut, or filled up with zeros.
Cut(parts, n) == [i \in 1 .. n |-> IF i <= Len(parts) THEN parts[i] ELSE Zero]

Report(call, id, ok, page) == last' = [call |-> call, id |-> id, ok |-> ok, page |-> page]

Answer(call, ok) == Report(call, 0, ok, <<>>)

-----------------------------------------------------------------------------
\* open(): an existing file is opened as it is, whatever create says.
OpenFails(create) == stream.open \/ (~ create /\ ~ disk.exists)

Opened == /\ disk' = [disk EXCEPT !.exists = TRUE]
          /\ stream' = Good
          /\ size' = Length
          /\ torn' = FALSE

Open(create) ==
    /\ Answer("open", ~ OpenFails(create))
    /\ IF OpenFails(create) THEN UNCHANGED <<disk, stream, size, torn>> ELSE Opened
    /\ UNCHANGED stored

\* close(), and the destructor; a process that dies closes its files too.
Close ==
    /\ Answer("close", TRUE)
    /\ stream' = Closed
    /\ size' = IF stream.open THEN 0 ELSE size
    /\ UNCHANGED <<disk, torn, stored>>

\* flush(), sync(): nothing is pending, the stream's state is the answer.
Flush ==
    /\ Answer("flush", stream.open /\ ~ stream.fail)
    /\ UNCHANGED <<disk, stream, size, torn, stored>>

\* seek(): seekg clears eofbit, and a stream with failbit does not move.
Seeks == stream.open /\ ~ stream.fail

\* The stream a seek leaves behind.
Sought == [stream EXCEPT !.eof = FALSE]

\* fs::resize_file() to n parts, on what the pages are expected to be.
Resized(n) ==
    /\ disk' = [disk EXCEPT !.parts = Cut(disk.parts, n)]
    /\ size' = n
    /\ torn' = FALSE
    /\ stored' = [id \in PageIds |->
                    IF stored[id] = Nothing \/ Position(id) >= n THEN Nothing
                    ELSE IF Position(id) + PageParts <= n THEN stored[id] ELSE Broken]

\* resize(): closed, cut or grown, opened again.
Resize(n) ==
    /\ Answer("resize", stream.open)
    /\ IF stream.open THEN stream' = Good /\ Resized(n)
       ELSE UNCHANGED <<disk, stream, size, torn, stored>>

\* resize() fails: the file is resized and cannot be opened again, or it cannot
\* be resized, and then is opened again if it can be.  size_ is not read anew.
ResizeFails(n) ==
    /\ stream.open
    /\ Answer("resize", FALSE)
    /\ \/ stream' = Closed /\ Resized(n)
       \/ stream' \in {Closed, Good} /\ UNCHANGED <<disk, size, torn, stored>>

-----------------------------------------------------------------------------
\* The k parts at pos that the file has.
Have(pos, k) == pos + k <= Length

\* readPage(): the header read (any value if the file ends before it), and the
\* payload into a fresh page of zeros.  Once the stream has failed at the end,
\* the second readBytes() reads nothing and answers success.
PageRead(id, h) ==
    [i \in 1 .. PageParts |->
        IF i = 1 THEN h
        ELSE IF Have(Position(id), i) THEN disk.parts[Position(id) + i] ELSE Zero]

HeaderRead(id) == IF Have(Position(id), 1) THEN {disk.parts[Position(id) + 1]}
                  ELSE Headers \cup {Zero}

\* The stream after the parts up to k of the page were asked for.
AfterRead(id, k) == IF Have(Position(id), k) THEN Sought
                    ELSE [stream EXCEPT !.fail = TRUE, !.eof = TRUE]

ReadPage(id) ==
    /\ UNCHANGED <<disk, size, torn, stored>>
    /\ \/ /\ ~ Seeks
          /\ Report("read", id, FALSE, <<>>)
          /\ stream' = IF stream.open THEN Sought ELSE stream
       \/ /\ Seeks
          /\ \E h \in HeaderRead(id) :
                IF IsValid(h)
                THEN /\ Report("read", id, TRUE, PageRead(id, h))
                     /\ stream' = AfterRead(id, PageParts)
                ELSE /\ Report("read", id, FALSE, <<>>)
                     /\ stream' = AfterRead(id, 1)

\* writePage(): header, then payload.  All parts of the page reach the file.
WriteWorks(id, page) ==
    /\ disk' = [disk EXCEPT !.parts = Put(disk.parts, Position(id), page)]
    /\ size' = IF Position(id) + PageParts > size THEN Position(id) + PageParts ELSE size
    /\ stream' = Sought

WritePage(id, page) ==
    /\ Position(id) + PageParts <= MaxParts
    /\ Report("write", id, Seeks, page)
    /\ IF Seeks
       THEN /\ WriteWorks(id, page)
            /\ stored' = [stored EXCEPT ![id] = page]
            /\ UNCHANGED torn
       ELSE /\ stream' = IF stream.open THEN Sought ELSE stream
            /\ UNCHANGED <<disk, size, torn, stored>>

\* The device stops after some parts.  The header went to the stream's buffer,
\* so size_ counts it in any case; the process goes on with a failed stream.
WriteTears(id, page, k) ==
    /\ Position(id) + PageParts <= MaxParts
    /\ Seeks
    /\ k \in 0 .. PageParts - 1
    /\ Report("write", id, FALSE, page)
    /\ disk' = [disk EXCEPT !.parts =
                    IF k = 0 THEN @ ELSE Put(@, Position(id), SubSeq(page, 1, k))]
    /\ size' = IF Position(id) + 1 > size THEN Position(id) + 1 ELSE size
    /\ torn' = TRUE
    /\ stream' = [Sought EXCEPT !.fail = TRUE]
    /\ stored' = IF k = 0 THEN stored ELSE [stored EXCEPT ![id] = Broken]

-----------------------------------------------------------------------------
\* Mutant of Short: only an empty file is given its header page.
ShortWhenEmpty(length) == length = 0

\* fileSize() < kPageSize
Short(length) == length < PageParts

\* initializeStorage(): open, then the header page if the file is to be
\* created or is too short to have one.  What flush() answers is ignored.
InitializeStorage(create) ==
    /\ Answer("initialize", ~ OpenFails(create))
    /\ IF OpenFails(create) THEN UNCHANGED <<disk, stream, size, torn, stored>>
       ELSE /\ stream' = Good
            /\ torn' = FALSE
            /\ IF create \/ Short(Length)
               THEN /\ disk' = [exists |-> TRUE, parts |-> Put(disk.parts, 0, HeaderPage)]
                    /\ size' = Len(disk'.parts)
                    /\ stored' = [stored EXCEPT ![0] = HeaderPage]
               ELSE Opened /\ UNCHANGED stored

\* initializeStorage(), the header page being torn: the file stays open.
InitializeTears(create, k) ==
    /\ ~ OpenFails(create)
    /\ create \/ Short(Length)
    /\ k \in 0 .. PageParts - 1
    /\ Answer("initialize", FALSE)
    /\ disk' = [exists |-> TRUE,
                parts |-> IF k = 0 THEN disk.parts
                          ELSE Put(disk.parts, 0, SubSeq(HeaderPage, 1, k))]
    /\ size' = IF Length = 0 THEN 1 ELSE Length
    /\ torn' = TRUE
    /\ stream' = [Good EXCEPT !.fail = TRUE]
    /\ stored' = IF k = 0 THEN stored ELSE [stored EXCEPT ![0] = Broken]

\* Mutant of ScanReads: the size of the file is not looked at.
ScanReadsAny == Seeks

\* IntegrityScanner::scan() up to its readPage(0).
ScanReads == Seeks /\ ~ Short(size)

\* HeaderPage::validate(): the front of the payload, and no more.
Validates(page) == page[2][2] = Root

\* scan(): readPage() of page 0, then validate().
Scan ==
    \/ /\ ~ ScanReads
       /\ Answer("scan", FALSE)
       /\ stream' = IF stream.open /\ ~ Short(size) THEN Sought ELSE stream
       /\ UNCHANGED <<disk, size, torn, stored>>
    \/ /\ ScanReads
       /\ \E h \in HeaderRead(0) :
            /\ Report("scan", 0, IsValid(h) /\ Validates(PageRead(0, h)), PageRead(0, h))
            /\ stream' = AfterRead(0, IF IsValid(h) THEN PageParts ELSE 1)
       /\ UNCHANGED <<disk, size, torn, stored>>

-----------------------------------------------------------------------------
FileInit ==
    /\ disk = [exists |-> FALSE, parts |-> <<>>]
    /\ stream = Closed
    /\ size = 0
    /\ torn = FALSE
    /\ stored = [id \in PageIds |-> Nothing]
    /\ last = [call |-> "none", id |-> 0, ok |-> TRUE, page |-> <<>>]

FileNext ==
    \/ \E create \in BOOLEAN : Open(create) \/ InitializeStorage(create)
    \/ \E create \in BOOLEAN, k \in 0 .. PageParts - 1 : InitializeTears(create, k)
    \/ Close
    \/ Flush
    \/ \E n \in 0 .. MaxParts : Resize(n) \/ ResizeFails(n)
    \/ \E id \in PageIds : ReadPage(id)
    \/ \E id \in PageIds, page \in Pages : WritePage(id, page)
    \/ \E id \in PageIds, page \in Pages, k \in 0 .. PageParts - 1 : WriteTears(id, page, k)
    \/ Scan

FileSpec == FileInit /\ [][FileNext]_fileVars

-----------------------------------------------------------------------------
(* Properties                                                              *)

\* Whole(id): all parts of the page are in the file.
Whole(id) == Have(Position(id), PageParts)

\* A page that readPage() accepts and that lies whole in the file is the page
\* the last successful writePage() of it was given, in type, generation and
\* payload, across closing, crashes, short reads and resizes, unless a failed
\* write or a resize has cut that page itself.
ReadsAreWritten ==
    last.call = "read" /\ last.ok /\ Whole(last.id)
        => stored[last.id] \in {last.page, Broken}

\* When scan() accepts a file, and size_ can be trusted, the whole header page
\* is in the file, with a header page's front: the size guard keeps it from
\* judging a header that was never read.
ScanIsSound ==
    last.call = "scan" /\ last.ok /\ ~ torn
        => Whole(0) /\ stored[0] \in {HeaderPage, Broken}

\* A successful initializeStorage() that finds no file, or one shorter than
\* a page (an earlier one crashed while writing the header page), leaves a
\* whole header page and a file that scan() will accept.
OpenHealsHeader ==
    [][last'.call = "initialize" /\ last'.ok /\ Length < PageParts
        => /\ size' >= PageParts /\ stream' = Good
           /\ \A i \in 1 .. PageParts :
                 i \in DOMAIN disk'.parts /\ disk'.parts[i] = HeaderPage[i]]_fileVars

\* Violated by the code: a page is read back only if it lies in the file.  Past
\* the end readPage() judges an uninitialized header.
PastEndRefused == last.call = "read" /\ last.ok => Whole(last.id)

\* Violated by the code: scan() accepts only files that hold a whole header
\* page.  After a torn write and a resize() that fails, size_ is too large.
ScanIsSoundAlways == last.call = "scan" /\ last.ok => Whole(0)
=============================================================================
