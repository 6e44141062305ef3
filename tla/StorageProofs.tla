---------------------------- MODULE StorageProofs ----------------------------
(***************************************************************************)
(* Proofs about the storage manager: the data file, for every set of pages *)
(* and contents and every bound on the length of the file, and the page    *)
(* allocator, for every number of reserved pages, every largest page id and *)
(* every counter width.  The two share no state: the storage manager hands *)
(* ids from the allocator to the file, and each keeps its own promises.    *)
(***************************************************************************)
EXTENDS PageFile, PageAllocator, SequenceTheorems, FiniteSetTheorems, TLAPS

-----------------------------------------------------------------------------
(***************************************************************************)
(* The data file.                                                          *)
(*                                                                         *)
(* What is read back depends on what lies in the file between two calls:   *)
(* the invariant FInv says that it holds every page that should be there,  *)
(* and zeros at the header of a page that should not.  It also says that   *)
(* size_ is the length of the file while no write failed, on which scan()  *)
(* relies.                                                                 *)
(***************************************************************************)

\* The parts a file may have.
AllParts == Headers \cup ({"payload"} \X (Marks \cup {Root})) \cup {Zero}

\* What the file has of a page is what should be stored of it: all its parts,
\* or no header; nothing is known of a page that was torn or cut.
Holds(parts, page, id) ==
    /\ page \in Pages =>
          /\ Position(id) + PageParts <= Len(parts)
          /\ \A i \in 1 .. PageParts : parts[Position(id) + i] = page[i]
    /\ page = Nothing =>
          (Position(id) + 1 <= Len(parts) => parts[Position(id) + 1] = Zero)

FileSound(parts, pages) == \A id \in PageIds : Holds(parts, pages[id], id)

\* The states of the stream, and the files.
Streams == [open : BOOLEAN, fail : BOOLEAN, eof : BOOLEAN]
Files == [exists : BOOLEAN, parts : Seq(AllParts)]

\* The inductive invariant.
FInv ==
    /\ disk \in Files
    /\ stream \in Streams
    /\ stored \in [PageIds -> Pages \cup {Nothing, Broken}]
    /\ FileSound(disk.parts, stored)
    /\ stream.open /\ ~ torn => size = Length

-----------------------------------------------------------------------------
(* Pages, files and streams.                                               *)

\* The states a call leaves the stream in.
LEMMA StreamIs ==
    ASSUME stream \in Streams
    PROVE  /\ Sought \in Streams /\ Sought.open = stream.open
           /\ [Sought EXCEPT !.fail = TRUE] \in Streams
           /\ \A id, k : AfterRead(id, k) \in Streams /\ AfterRead(id, k).open = stream.open
           /\ Closed \in Streams /\ ~ Closed.open
           /\ Good \in Streams /\ [Good EXCEPT !.fail = TRUE] \in Streams
BY DEF Streams, Sought, AfterRead, Closed, Good

\* The file with other parts.
LEMMA FileIs ==
    ASSUME disk \in Files
    PROVE  /\ disk.parts \in Seq(AllParts)
           /\ \A ps \in Seq(AllParts) : /\ [disk EXCEPT !.parts = ps] \in Files
                                         /\ [disk EXCEPT !.parts = ps].parts = ps
           /\ [disk EXCEPT !.exists = TRUE] \in Files
           /\ [disk EXCEPT !.exists = TRUE].parts = disk.parts
BY DEF Files

\* A page has three parts, and its header is no hole: PageHeader::isValid()
\* accepts it.
LEMMA PageIs ==
    ASSUME NEW page \in Pages
    PROVE  page \in Seq(AllParts) /\ Len(page) = PageParts /\ page[1] # Zero
<1>1. PICK type \in {"Data", "Header"}, mark \in Marks \cup {Root} : page = PageOf(type, mark)
  BY DEF Pages, HeaderPage
<1>2. <<type, mark>> \in AllParts /\ <<"payload", mark>> \in AllParts
  BY DEF AllParts, Headers
<1>3. <<type, mark>> # Zero
  BY DEF Zero
<1> QED
  BY <1>1, <1>2, <1>3 DEF PageOf, PageParts

\* Its first parts, which a torn write leaves.
LEMMA FrontIs ==
    ASSUME NEW page \in Pages, NEW k \in 1 .. PageParts - 1
    PROVE  SubSeq(page, 1, k) \in Seq(AllParts) /\ Len(SubSeq(page, 1, k)) = k
BY PageIs DEF PageParts

\* What a write does to the file: the parts written, and zeros in a gap.
LEMMA PutIs ==
    ASSUME NEW parts \in Seq(AllParts), NEW pos \in Nat, NEW ps \in Seq(AllParts)
    PROVE  /\ Put(parts, pos, ps) \in Seq(AllParts)
           /\ Len(Put(parts, pos, ps)) =
                 IF pos + Len(ps) > Len(parts) THEN pos + Len(ps) ELSE Len(parts)
           /\ \A i \in 1 .. Len(Put(parts, pos, ps)) :
                 Put(parts, pos, ps)[i] = IF i \in pos + 1 .. pos + Len(ps) THEN ps[i - pos]
                                          ELSE IF i <= Len(parts) THEN parts[i] ELSE Zero
<1> DEFINE n == IF pos + Len(ps) > Len(parts) THEN pos + Len(ps) ELSE Len(parts)
           Part(i) == IF i \in pos + 1 .. pos + Len(ps) THEN ps[i - pos]
                      ELSE IF i <= Len(parts) THEN parts[i] ELSE Zero
<1>1. n \in Nat /\ Put(parts, pos, ps) = [i \in 1 .. n |-> Part(i)]
  BY DEF Put
<1>2. \A i \in 1 .. n : Part(i) \in AllParts
  <2> TAKE i \in 1 .. n
  <2>1. CASE i \in pos + 1 .. pos + Len(ps)
    BY <2>1
  <2>2. CASE i \notin pos + 1 .. pos + Len(ps) /\ i <= Len(parts)
    BY <2>2
  <2>3. CASE i \notin pos + 1 .. pos + Len(ps) /\ i > Len(parts)
    BY <2>3 DEF AllParts
  <2> QED
    BY <2>1, <2>2, <2>3
<1> HIDE DEF Part, n
<1>3. [i \in 1 .. n |-> Part(i)] \in Seq(AllParts) /\ Len([i \in 1 .. n |-> Part(i)]) = n
  BY <1>1, <1>2
<1>4. \A i \in 1 .. n : [j \in 1 .. n |-> Part(j)][i] = Part(i)
  OBVIOUS
<1> QED
  BY <1>1, <1>3, <1>4 DEF Part, n

\* One part of the file after a write.
LEMMA PutAt ==
    ASSUME NEW parts \in Seq(AllParts), NEW pos \in Nat, NEW ps \in Seq(AllParts),
           NEW i \in 1 .. Len(Put(parts, pos, ps))
    PROVE  Put(parts, pos, ps)[i] = IF i \in pos + 1 .. pos + Len(ps) THEN ps[i - pos]
                                    ELSE IF i <= Len(parts) THEN parts[i] ELSE Zero
BY PutIs

\* What a resize does to it.
LEMMA CutIs ==
    ASSUME NEW parts \in Seq(AllParts), NEW n \in Nat
    PROVE  /\ Cut(parts, n) \in Seq(AllParts) /\ Len(Cut(parts, n)) = n
           /\ \A i \in 1 .. n :
                 Cut(parts, n)[i] = IF i <= Len(parts) THEN parts[i] ELSE Zero
<1>1. \A i \in 1 .. n : (IF i <= Len(parts) THEN parts[i] ELSE Zero) \in AllParts
  BY DEF AllParts
<1> QED
  BY <1>1 DEF Cut

\* A write touches no other page: its parts stay where they are, and the
\* header of a page that is not there stays zero, even in a gap.
LEMMA PutKeepsOthers ==
    ASSUME NEW parts \in Seq(AllParts), NEW ps \in Seq(AllParts), Len(ps) <= PageParts,
           NEW id \in PageIds, NEW other \in PageIds, other # id,
           NEW page, Holds(parts, page, other)
    PROVE  Holds(Put(parts, Position(id), ps), page, other)
<1> DEFINE new == Put(parts, Position(id), ps)
<1>1. Position(id) \in Nat /\ Position(other) \in Nat
  BY PageFileAssumption DEF Position, PageParts
<1>2. \A i \in 1 .. PageParts : Position(other) + i \notin Position(id) + 1 .. Position(id) + Len(ps)
  BY PageFileAssumption DEF Position, PageParts
<1>3. /\ Len(new) \in Nat /\ Len(new) >= Len(parts)
      /\ \A i \in 1 .. PageParts : Position(other) + i <= Len(new) =>
            new[Position(other) + i] = IF Position(other) + i <= Len(parts)
                                       THEN parts[Position(other) + i] ELSE Zero
  <2>1. new \in Seq(AllParts) /\ Len(new) \in Nat /\ Len(new) >= Len(parts)
    BY <1>1, PutIs
  <2>2. ASSUME NEW i \in 1 .. PageParts, Position(other) + i <= Len(new)
        PROVE  new[Position(other) + i] = IF Position(other) + i <= Len(parts)
                                          THEN parts[Position(other) + i] ELSE Zero
    <3>1. Position(other) + i \in 1 .. Len(new)
      BY <1>1, <2>1, <2>2 DEF PageParts
    <3>2. new[Position(other) + i] =
              IF Position(other) + i \in Position(id) + 1 .. Position(id) + Len(ps)
              THEN ps[Position(other) + i - Position(id)]
              ELSE IF Position(other) + i <= Len(parts) THEN parts[Position(other) + i] ELSE Zero
      BY <1>1, <3>1, PutAt
    <3> QED
      BY <1>2, <3>2
  <2> QED
    BY <2>1, <2>2
<1> HIDE DEF new
<1>4. page \in Pages => /\ Position(other) + PageParts <= Len(new)
                        /\ \A i \in 1 .. PageParts : new[Position(other) + i] = page[i]
  BY <1>1, <1>3 DEF Holds, PageParts
<1>5. page = Nothing => (Position(other) + 1 <= Len(new) => new[Position(other) + 1] = Zero)
  BY <1>1, <1>3 DEF Holds, PageParts
<1> QED
  BY <1>4, <1>5 DEF Holds, new

\* A page that was written lies in the file.
LEMMA PutHolds ==
    ASSUME NEW parts \in Seq(AllParts), NEW page \in Pages, NEW id \in PageIds
    PROVE  Holds(Put(parts, Position(id), page), page, id)
<1> DEFINE new == Put(parts, Position(id), page)
<1>1. Position(id) \in Nat
  BY PageFileAssumption DEF Position, PageParts
<1>2. page \in Seq(AllParts) /\ Len(page) = PageParts /\ page # Nothing
  BY PageIs DEF Nothing, PageParts
<1>3. Len(new) \in Nat /\ Position(id) + PageParts <= Len(new)
  <2>1. /\ new \in Seq(AllParts)
        /\ Len(new) = IF Position(id) + Len(page) > Len(parts)
                      THEN Position(id) + Len(page) ELSE Len(parts)
    BY <1>1, <1>2, PutIs
  <2> HIDE DEF new
  <2> QED
    BY <1>1, <1>2, <2>1 DEF PageParts
<1>4. ASSUME NEW i \in 1 .. PageParts PROVE new[Position(id) + i] = page[i]
  <2> DEFINE j == Position(id) + i
  <2>1. /\ j \in 1 .. Len(new) /\ j \in Position(id) + 1 .. Position(id) + Len(page)
        /\ j - Position(id) = i
    BY <1>1, <1>2, <1>3 DEF PageParts
  <2> HIDE DEF j
  <2>2. page \in Seq(AllParts)
    BY <1>2
  <2>3. new[j] = IF j \in Position(id) + 1 .. Position(id) + Len(page)
                 THEN page[j - Position(id)]
                 ELSE IF j <= Len(parts) THEN parts[j] ELSE Zero
    BY <1>1, <2>1, <2>2, PutAt
  <2>4. new[j] = page[i]
    BY <2>1, <2>3
  <2> QED
    BY <2>4 DEF j
<1> QED
  BY <1>2, <1>3, <1>4 DEF Holds

\* The whole file after a page was written, as a whole or in part.
LEMMA WriteSound ==
    ASSUME NEW parts \in Seq(AllParts), NEW id \in PageIds, NEW page \in Pages,
           NEW pages \in [PageIds -> Pages \cup {Nothing, Broken}],
           FileSound(parts, pages)
    PROVE  /\ Put(parts, Position(id), page) \in Seq(AllParts)
           /\ FileSound(Put(parts, Position(id), page), [pages EXCEPT ![id] = page])
           /\ [pages EXCEPT ![id] = page] \in [PageIds -> Pages \cup {Nothing, Broken}]
<1>1. Position(id) \in Nat
  BY PageFileAssumption DEF Position, PageParts
<1>2. page \in Seq(AllParts) /\ Len(page) = PageParts /\ PageParts <= PageParts
  BY PageIs DEF PageParts
<1>3. ASSUME NEW other \in PageIds
      PROVE  Holds(Put(parts, Position(id), page), [pages EXCEPT ![id] = page][other], other)
  <2>1. CASE other = id
    BY <2>1, PutHolds
  <2>2. CASE other # id
    BY <1>2, <2>2, PutKeepsOthers DEF FileSound
  <2> QED
    BY <2>1, <2>2
<1> QED
  BY <1>1, <1>2, <1>3, PutIs DEF FileSound

\* ... or in part.
LEMMA TearSound ==
    ASSUME NEW parts \in Seq(AllParts), NEW id \in PageIds, NEW page \in Pages,
           NEW k \in 1 .. PageParts - 1,
           NEW pages \in [PageIds -> Pages \cup {Nothing, Broken}],
           FileSound(parts, pages)
    PROVE  /\ Put(parts, Position(id), SubSeq(page, 1, k)) \in Seq(AllParts)
           /\ FileSound(Put(parts, Position(id), SubSeq(page, 1, k)),
                        [pages EXCEPT ![id] = Broken])
           /\ [pages EXCEPT ![id] = Broken] \in [PageIds -> Pages \cup {Nothing, Broken}]
<1> DEFINE ps == SubSeq(page, 1, k)
<1>1. Position(id) \in Nat
  BY PageFileAssumption DEF Position, PageParts
<1>2. ps \in Seq(AllParts) /\ Len(ps) <= PageParts
  BY FrontIs DEF PageParts
<1> HIDE DEF ps
<1>3. Broken # Nothing /\ Broken \notin Pages
  BY PageIs DEF Broken, Nothing, PageParts
<1>4. ASSUME NEW other \in PageIds
      PROVE  Holds(Put(parts, Position(id), ps), [pages EXCEPT ![id] = Broken][other], other)
  <2>1. CASE other = id
    BY <1>3, <2>1 DEF Holds
  <2>2. CASE other # id
    BY <1>2, <2>2, PutKeepsOthers DEF FileSound
  <2> QED
    BY <2>1, <2>2
<1> QED
  BY <1>1, <1>2, <1>4, PutIs DEF FileSound, ps

\* A resize leaves each page, or cuts it, or takes it away.
LEMMA ResizeSound ==
    ASSUME NEW n \in Nat, FInv, Resized(n)
    PROVE  /\ disk' \in Files /\ size' = Len(disk'.parts)
           /\ stored' \in [PageIds -> Pages \cup {Nothing, Broken}]
           /\ FileSound(disk'.parts, stored')
<1> DEFINE parts == disk.parts
           new == disk'.parts
<1>1. disk' \in Files /\ new = Cut(parts, n)
  BY FileIs, CutIs DEF Resized, FInv
<1>2. /\ new \in Seq(AllParts) /\ Len(new) = n
      /\ \A i \in 1 .. n : new[i] = IF i <= Len(parts) THEN parts[i] ELSE Zero
  <2>1. parts \in Seq(AllParts)
    BY FileIs DEF FInv
  <2> HIDE DEF parts, new
  <2> QED
    BY <1>1, <2>1, CutIs
<1>3. stored' \in [PageIds -> Pages \cup {Nothing, Broken}]
  BY DEF Resized, FInv
<1>4. ASSUME NEW id \in PageIds PROVE Holds(new, stored'[id], id)
  <2> DEFINE pos == Position(id)
  <2>1. pos \in Nat
    BY PageFileAssumption DEF Position, PageParts
  <2>2. Holds(parts, stored[id], id) /\ Len(parts) \in Nat
    BY FileIs DEF FInv, FileSound
  <2>3. stored'[id] = IF stored[id] = Nothing \/ pos >= n THEN Nothing
                      ELSE IF pos + PageParts <= n THEN stored[id] ELSE Broken
    BY DEF Resized
  <2>4. Broken # Nothing /\ Broken \notin Pages /\ Nothing \notin Pages
    BY PageIs DEF Broken, Nothing, PageParts
  <2>5. CASE stored[id] = Nothing \/ pos >= n
    <3>1. stored'[id] = Nothing
      BY <2>3, <2>5
    <3>2. pos + 1 <= n => new[pos + 1] = Zero
      BY <1>2, <2>1, <2>2, <2>5 DEF Holds
    <3> QED
      BY <1>2, <2>4, <3>1, <3>2 DEF Holds
  <2>6. CASE ~ (stored[id] = Nothing \/ pos >= n) /\ pos + PageParts <= n
    <3>1. stored'[id] = stored[id] /\ stored[id] # Nothing
      BY <2>3, <2>6
    <3>2. ASSUME stored[id] \in Pages, NEW i \in 1 .. PageParts
          PROVE  new[pos + i] = stored[id][i]
      <4>1. pos + PageParts <= Len(parts) /\ parts[pos + i] = stored[id][i]
        BY <2>2, <3>2 DEF Holds
      <4> HIDE DEF pos, parts
      <4>2. pos + i \in 1 .. n /\ pos + i <= Len(parts)
        BY <2>1, <2>2, <2>6, <4>1 DEF PageParts
      <4> QED
        BY <1>2, <4>1, <4>2
    <3> QED
      BY <1>2, <2>6, <3>1, <3>2 DEF Holds
  <2>7. CASE ~ (stored[id] = Nothing \/ pos >= n) /\ ~ (pos + PageParts <= n)
    BY <2>3, <2>4, <2>7 DEF Holds
  <2> QED
    BY <2>5, <2>6, <2>7
<1> QED
  BY <1>1, <1>2, <1>3, <1>4 DEF FileSound, Resized

-----------------------------------------------------------------------------
(* The invariant, one lemma for the actions that change the file, and one  *)
(* for those that do not.                                                  *)

\* A step that leaves the file and what is expected of it.
LEMMA QuietStep ==
    ASSUME FInv, UNCHANGED <<disk, stored>>, stream' \in Streams,
           stream'.open /\ ~ torn' => size' = Length
    PROVE  FInv'
BY DEF FInv, Length

\* open() takes size_ from the file.
LEMMA OpenedStep ==
    ASSUME FInv, Opened, UNCHANGED stored
    PROVE  FInv'
<1>1. disk' \in Files /\ disk'.parts = disk.parts /\ stream' \in Streams
  BY FileIs, StreamIs DEF Opened, FInv
<1> QED
  BY <1>1 DEF FInv, Length, Opened

\* writePage() that succeeds.
LEMMA WriteStep ==
    ASSUME FInv, NEW id \in PageIds, NEW page \in Pages, WritePage(id, page)
    PROVE  FInv'
<1>1. CASE Seeks
  <2> DEFINE new == Put(disk.parts, Position(id), page)
  <2>1. /\ disk' = [disk EXCEPT !.parts = new] /\ stored' = [stored EXCEPT ![id] = page]
        /\ torn' = torn /\ stream' = Sought
        /\ size' = IF Position(id) + PageParts > size THEN Position(id) + PageParts ELSE size
    BY <1>1 DEF WritePage, WriteWorks
  <2>2. new \in Seq(AllParts) /\ FileSound(new, stored')
        /\ stored' \in [PageIds -> Pages \cup {Nothing, Broken}]
    BY <2>1, WriteSound, FileIs DEF FInv
  <2>3. stream'.open /\ ~ torn' => size' = Len(new)
    <3>1. page \in Seq(AllParts) /\ Len(page) = PageParts /\ Position(id) \in Nat
      BY PageIs, PageFileAssumption DEF Position, PageParts
    <3>2. Len(new) = IF Position(id) + Len(page) > Len(disk.parts)
                     THEN Position(id) + Len(page) ELSE Len(disk.parts)
      BY <3>1, PutIs, FileIs DEF FInv
    <3> QED
      BY <2>1, <3>1, <3>2, StreamIs DEF FInv, Length
  <2>4. disk' \in Files /\ disk'.parts = new /\ stream' \in Streams
    BY <2>1, <2>2, FileIs, StreamIs DEF FInv
  <2> QED
    BY <2>2, <2>3, <2>4 DEF FInv, Length
<1>2. CASE ~ Seeks
  <2>1. UNCHANGED <<disk, stored, size, torn>> /\ stream' \in {Sought, stream}
    BY <1>2 DEF WritePage
  <2> QED
    BY <2>1, QuietStep, StreamIs DEF FInv
<1> QED
  BY <1>1, <1>2

\* writePage() that stops half way: size_ is not looked at any more.
LEMMA TearStep ==
    ASSUME FInv, NEW id \in PageIds, NEW page \in Pages, NEW k \in 0 .. PageParts - 1,
           torn', disk' \in Files, stream' \in Streams,
           k = 0 => UNCHANGED stored /\ disk'.parts = disk.parts,
           k # 0 => /\ disk'.parts = Put(disk.parts, Position(id), SubSeq(page, 1, k))
                    /\ stored' = [stored EXCEPT ![id] = Broken]
    PROVE  FInv'
<1>1. CASE k = 0
  BY <1>1 DEF FInv
<1>2. CASE k # 0
  <2>1. k \in 1 .. PageParts - 1
    BY <1>2 DEF PageParts
  <2> QED
    BY <1>2, <2>1, TearSound, FileIs DEF FInv
<1> QED
  BY <1>1, <1>2

\* The parts a torn write leaves are parts of a file.
LEMMA TornIs ==
    ASSUME NEW parts \in Seq(AllParts), NEW id \in PageIds, NEW page \in Pages,
           NEW k \in 0 .. PageParts - 1
    PROVE  (IF k = 0 THEN parts ELSE Put(parts, Position(id), SubSeq(page, 1, k)))
               \in Seq(AllParts)
<1>1. Position(id) \in Nat
  BY PageFileAssumption DEF Position, PageParts
<1>2. CASE k # 0
  <2>1. k \in 1 .. PageParts - 1
    BY <1>2 DEF PageParts
  <2> QED
    BY <1>1, <2>1, FrontIs, PutIs
<1> QED
  BY <1>2

\* initializeStorage(): the file as it is, or with a header page.
LEMMA InitializeStep ==
    ASSUME FInv, NEW create \in BOOLEAN, InitializeStorage(create)
    PROVE  FInv'
<1>1. CASE OpenFails(create)
  BY <1>1, QuietStep DEF FInv, InitializeStorage
<1>2. CASE ~ OpenFails(create) /\ (create \/ Short(Length))
  <2>0. PICK id \in PageIds : id = 0
    BY PageFileAssumption
  <2> DEFINE new == Put(disk.parts, Position(id), HeaderPage)
  <2>1. /\ disk' = [exists |-> TRUE, parts |-> new]
        /\ stored' = [stored EXCEPT ![id] = HeaderPage]
        /\ size' = Len(new) /\ stream' = Good
    BY <1>2, <2>0 DEF InitializeStorage, Position, PageParts
  <2>2. HeaderPage \in Pages
    BY DEF Pages
  <2>3. /\ new \in Seq(AllParts) /\ FileSound(new, stored')
        /\ stored' \in [PageIds -> Pages \cup {Nothing, Broken}]
    BY <2>1, <2>2, WriteSound, FileIs DEF FInv
  <2> HIDE DEF new
  <2>4. disk' \in Files /\ disk'.parts = new /\ stream' \in Streams
    BY <2>1, <2>3, StreamIs DEF Files, FInv
  <2> QED
    BY <2>1, <2>3, <2>4 DEF FInv, Length
<1>3. CASE ~ OpenFails(create) /\ ~ (create \/ Short(Length))
  BY <1>3, OpenedStep DEF InitializeStorage
<1> QED
  BY <1>1, <1>2, <1>3

\* initializeStorage() that is torn.
LEMMA InitializeTearsStep ==
    ASSUME FInv, NEW create \in BOOLEAN, NEW k \in 0 .. PageParts - 1,
           InitializeTears(create, k)
    PROVE  FInv'
<1>1. HeaderPage \in Pages /\ 0 \in PageIds
  BY PageFileAssumption DEF Pages
<1>2. /\ torn'
      /\ k = 0 => UNCHANGED stored /\ disk'.parts = disk.parts
      /\ k # 0 => /\ disk'.parts = Put(disk.parts, Position(0), SubSeq(HeaderPage, 1, k))
                  /\ stored' = [stored EXCEPT ![0] = Broken]
  BY DEF InitializeTears, Position, PageParts
<1>3. disk' \in Files /\ stream' \in Streams
  <2>1. (IF k = 0 THEN disk.parts ELSE Put(disk.parts, Position(0), SubSeq(HeaderPage, 1, k)))
            \in Seq(AllParts)
    BY <1>1, TornIs, FileIs DEF FInv
  <2> QED
    BY <2>1, StreamIs DEF InitializeTears, Files, FInv, Position, PageParts
<1> QED
  BY <1>1, <1>2, <1>3, TearStep

\* resize(), whatever becomes of it.
LEMMA ResizeStep ==
    ASSUME FInv, NEW n \in Nat, Resize(n) \/ ResizeFails(n)
    PROVE  FInv'
<1>1. stream' \in Streams
  BY StreamIs DEF Resize, ResizeFails, FInv
<1>2. CASE Resized(n)
  BY <1>1, <1>2, ResizeSound DEF FInv, Length
<1>3. CASE ~ Resized(n)
  <2>1. UNCHANGED <<disk, size, torn, stored>> /\ (stream'.open => stream.open)
    BY <1>3 DEF Resize, ResizeFails
  <2> QED
    BY <1>1, <2>1, QuietStep DEF FInv
<1> QED
  BY <1>2, <1>3

\* readPage() and scan() leave all but the flags of the stream.
LEMMA ReadStep ==
    ASSUME FInv, Scan \/ \E id \in PageIds : ReadPage(id)
    PROVE  FInv'
<1>1. UNCHANGED <<disk, size, torn, stored>>
  BY DEF Scan, ReadPage
<1>2. stream' \in {stream, Sought} \/ \E id, k : stream' = AfterRead(id, k)
  <2>1. CASE Scan
    BY <2>1 DEF Scan
  <2>2. CASE \E id \in PageIds : ReadPage(id)
    BY <2>2 DEF ReadPage
  <2> QED
    BY <2>1, <2>2
<1>3. stream' \in Streams /\ stream'.open = stream.open
  BY <1>2, StreamIs DEF FInv
<1> QED
  BY <1>1, <1>3, QuietStep DEF FInv

\* Every call keeps FInv.
LEMMA Inductive ==
    ASSUME FInv, [FileNext]_fileVars
    PROVE  FInv'
<1>1. ASSUME NEW create \in BOOLEAN, Open(create) PROVE FInv'
  <2>1. CASE OpenFails(create)
    BY <1>1, <2>1, QuietStep DEF Open, FInv
  <2>2. CASE ~ OpenFails(create)
    BY <1>1, <2>2, OpenedStep DEF Open
  <2> QED
    BY <2>1, <2>2
<1>2. CASE Close
  BY <1>2, QuietStep, StreamIs DEF Close, FInv
<1>3. CASE Flush
  BY <1>3, QuietStep DEF Flush, FInv
<1>4. ASSUME NEW n \in 0 .. MaxParts, Resize(n) \/ ResizeFails(n) PROVE FInv'
  BY <1>4, ResizeStep, PageFileAssumption
<1>5. ASSUME NEW id \in PageIds, NEW page \in Pages, NEW k \in 0 .. PageParts - 1,
             WriteTears(id, page, k)
      PROVE  FInv'
  <2> DEFINE left == IF k = 0 THEN disk.parts
                      ELSE Put(disk.parts, Position(id), SubSeq(page, 1, k))
  <2>0. left \in Seq(AllParts)
    BY TornIs, FileIs DEF FInv
  <2>1. /\ torn'
        /\ k = 0 => UNCHANGED stored /\ disk'.parts = disk.parts
        /\ k # 0 => /\ disk'.parts = Put(disk.parts, Position(id), SubSeq(page, 1, k))
                    /\ stored' = [stored EXCEPT ![id] = Broken]
    <3>1. /\ torn'
          /\ disk' = [disk EXCEPT !.parts = left]
          /\ stored' = IF k = 0 THEN stored ELSE [stored EXCEPT ![id] = Broken]
      BY <1>5 DEF WriteTears
    <3> QED
      BY <2>0, <3>1, FileIs DEF FInv
  <2>2. disk' \in Files /\ stream' \in Streams
    BY <1>5, <2>0, FileIs, StreamIs DEF WriteTears, FInv
  <2> QED
    BY <2>1, <2>2, TearStep
<1>6. CASE UNCHANGED fileVars
  BY <1>6 DEF fileVars, FInv, Length
<1> QED
  BY <1>1, <1>2, <1>3, <1>4, <1>5, <1>6, ReadStep, WriteStep, InitializeStep,
     InitializeTearsStep DEF FileNext

\* The file holds the pages it should, through every sequence of calls,
\* failures and crashes.
THEOREM FileInvariance == FileSpec => []FInv
<1>1. FileInit => FInv
  <2> SUFFICES ASSUME FileInit PROVE FInv
    OBVIOUS
  <2>1. /\ disk \in Files /\ disk.parts = <<>>
        /\ stream \in Streams /\ ~ stream.open
        /\ stored = [id \in PageIds |-> Nothing]
    BY DEF FileInit, Closed, Files, Streams
  <2>2. ASSUME NEW id \in PageIds PROVE Holds(<<>>, Nothing, id)
    <3>1. Nothing \notin Pages
      BY PageIs DEF Nothing, PageParts
    <3>2. Position(id) \in Nat
      BY PageFileAssumption DEF Position, PageParts
    <3> QED
      BY <3>1, <3>2 DEF Holds
  <2> QED
    BY <2>1, <2>2 DEF FInv, FileSound
<1>2. FInv /\ [FileNext]_fileVars => FInv'
  BY Inductive
<1> QED
  BY <1>1, <1>2, PTL DEF FileSpec

-----------------------------------------------------------------------------
(* What is read.                                                           *)

\* A page that lies whole in the file and whose header is accepted is the page
\* that was stored, unless it was torn or cut.
LEMMA WholeReads ==
    ASSUME FInv, NEW id \in PageIds, Whole(id),
           NEW h \in HeaderRead(id), IsValid(h)
    PROVE  stored[id] \in {PageRead(id, h), Broken}
<1> DEFINE pos == Position(id)
           page == stored[id]
<1>1. pos \in Nat /\ disk.parts \in Seq(AllParts) /\ Holds(disk.parts, page, id)
  BY PageFileAssumption, FileIs DEF FInv, FileSound, Position, PageParts
<1>2. Have(pos, 1) /\ Have(pos, 2) /\ Have(pos, 3)
  BY <1>1 DEF Whole, Have, Length, PageParts
<1>3. h = disk.parts[pos + 1] /\ h # Zero
  BY <1>2 DEF HeaderRead, IsValid, Zero
<1>4. page # Nothing
  BY <1>2, <1>3, <1>1 DEF Holds, Have, Length
<1>5. CASE page \in Pages
  <2>1. \A i \in 1 .. 3 : disk.parts[pos + i] = page[i]
    BY <1>1, <1>5 DEF Holds, PageParts
  <2>2. PageRead(id, h) = [i \in 1 .. 3 |-> page[i]]
    <3>1. PageRead(id, h) = [i \in 1 .. 3 |-> IF i = 1 THEN h ELSE disk.parts[pos + i]]
      BY <1>2 DEF PageRead, PageParts
    <3>2. \A i \in 1 .. 3 : (IF i = 1 THEN h ELSE disk.parts[pos + i]) = page[i]
      BY <1>3, <2>1
    <3> QED
      BY <3>1, <3>2
  <2>3. page = [i \in 1 .. 3 |-> page[i]]
    BY <1>5, PageIs DEF PageParts
  <2> QED
    BY <2>2, <2>3
<1> QED
  BY <1>4, <1>5 DEF FInv

\* The call that reports is the one that was made: only readPage() reports a
\* read, only scan() a scan, and only initializeStorage() that it succeeded.
LEMMA ReportsItself ==
    ASSUME FileNext
    PROVE  /\ last'.call = "read" => \E id \in PageIds : ReadPage(id)
           /\ last'.call = "scan" => Scan
           /\ last'.call = "initialize" /\ last'.ok
                 => \E create \in BOOLEAN : InitializeStorage(create)
<1>1. ASSUME NEW create \in BOOLEAN, Open(create)
      PROVE  last'.call = "open"
  BY <1>1 DEF Open, Answer, Report
<1>2. ASSUME NEW create \in BOOLEAN, InitializeStorage(create)
      PROVE  last'.call = "initialize"
  BY <1>2 DEF InitializeStorage, Answer, Report
<1>3. ASSUME NEW create \in BOOLEAN, NEW k \in 0 .. PageParts - 1, InitializeTears(create, k)
      PROVE  last'.call = "initialize" /\ ~ last'.ok
  BY <1>3 DEF InitializeTears, Answer, Report
<1>4. (Close => last'.call = "close") /\ (Flush => last'.call = "flush")
  BY DEF Close, Flush, Answer, Report
<1>5. ASSUME NEW n \in 0 .. MaxParts, Resize(n) \/ ResizeFails(n)
      PROVE  last'.call = "resize"
  BY <1>5 DEF Resize, ResizeFails, Answer, Report
<1>6. ASSUME NEW id \in PageIds, ReadPage(id)
      PROVE  last'.call = "read"
  BY <1>6 DEF ReadPage, Report
<1>7. ASSUME NEW id \in PageIds, NEW page \in Pages, WritePage(id, page)
      PROVE  last'.call = "write"
  BY <1>7 DEF WritePage, Report
<1>8. ASSUME NEW id \in PageIds, NEW page \in Pages, NEW k \in 0 .. PageParts - 1,
             WriteTears(id, page, k)
      PROVE  last'.call = "write"
  BY <1>8 DEF WriteTears, Report
<1>9. Scan => last'.call = "scan"
  BY DEF Scan, Answer, Report
<1> QED
  BY <1>1, <1>2, <1>3, <1>4, <1>5, <1>6, <1>7, <1>8, <1>9 DEF FileNext

\* readPage() gives back what writePage() stored: ReadsAreWritten, for every set
\* of pages and contents.
THEOREM ReadsBack == FileSpec => []ReadsAreWritten
<1>1. FileInit => ReadsAreWritten
  BY DEF FileInit, ReadsAreWritten
<1>2. FInv /\ ReadsAreWritten /\ [FileNext]_fileVars => ReadsAreWritten'
  <2> SUFFICES ASSUME FInv, ReadsAreWritten, [FileNext]_fileVars, last'.call = "read", last'.ok,
                      Whole(last.id)'
               PROVE  stored'[last'.id] \in {last'.page, Broken}
    BY DEF ReadsAreWritten
  <2>1. CASE UNCHANGED fileVars
    BY <2>1 DEF fileVars, ReadsAreWritten, Whole, Have, Length
  <2>2. ASSUME NEW id \in PageIds, ReadPage(id)
        PROVE  stored'[last'.id] \in {last'.page, Broken}
    <3>1. PICK h \in HeaderRead(id) : IsValid(h) /\ Report("read", id, TRUE, PageRead(id, h))
      BY <2>2 DEF ReadPage, Report
    <3>2. last'.id = id /\ last'.page = PageRead(id, h)
      BY <3>1 DEF Report
    <3>3. Whole(id) /\ stored' = stored
      BY <2>2, <3>2 DEF ReadPage, Whole, Have, Length
    <3> QED
      BY <3>1, <3>2, <3>3, WholeReads
  <2> QED
    BY <2>1, <2>2, ReportsItself
<1> QED
  BY <1>1, <1>2, FileInvariance, PTL DEF FileSpec

\* scan() accepts no file without its header page: ScanIsSound, for every set
\* of pages and contents.
THEOREM ScansAreSound == FileSpec => []ScanIsSound
<1>1. FileInit => ScanIsSound
  BY DEF FileInit, ScanIsSound
<1>2. FInv /\ ScanIsSound /\ [FileNext]_fileVars => ScanIsSound'
  <2> SUFFICES ASSUME FInv, ScanIsSound, [FileNext]_fileVars, last'.call = "scan", last'.ok, ~ torn'
               PROVE  Whole(0)' /\ stored'[0] \in {HeaderPage, Broken}
    BY DEF ScanIsSound
  <2>1. CASE UNCHANGED fileVars
    BY <2>1 DEF fileVars, ScanIsSound, Whole, Have, Length
  <2>2. CASE Scan
    <3>1. ScanReads /\ UNCHANGED <<disk, size, torn, stored>>
      BY <2>2 DEF Scan, Answer, Report
    <3>2. PICK h \in HeaderRead(0) : IsValid(h) /\ Validates(PageRead(0, h))
      <4>1. PICK h \in HeaderRead(0) :
                last' = [call |-> "scan", id |-> 0,
                         ok |-> IsValid(h) /\ Validates(PageRead(0, h)),
                         page |-> PageRead(0, h)]
        BY <2>2, <3>1 DEF Scan, Report
      <4>2. last'.ok = (IsValid(h) /\ Validates(PageRead(0, h)))
        BY <4>1
      <4> QED
        BY <4>2
    <3>3. Whole(0) /\ Whole(0)'
      <4>1. stream.open /\ ~ torn /\ ~ (size < PageParts)
        BY <3>1 DEF ScanReads, Seeks, Short
      <4>2. size = Length /\ Length \in Nat
        BY <4>1, FileIs DEF FInv, Length
      <4> QED
        BY <3>1, <4>1, <4>2 DEF Whole, Have, Position, PageParts, Length
    <3>4. 0 \in PageIds /\ stored[0] \in {PageRead(0, h), Broken}
      BY <3>2, <3>3, PageFileAssumption, WholeReads
    <3>5. CASE stored[0] = PageRead(0, h) /\ stored[0] \in Pages
      <4>1. ASSUME NEW mark \in Marks PROVE ~ Validates(PageOf("Data", mark))
        BY PageFileAssumption DEF Validates, PageOf
      <4> QED
        BY <3>1, <3>2, <3>3, <3>5, <4>1 DEF Pages
    <3>6. CASE stored[0] = PageRead(0, h) /\ stored[0] = Nothing
      <4>1. DOMAIN PageRead(0, h) = 1 .. 3 /\ DOMAIN Nothing = {}
        BY DEF PageRead, PageParts, Nothing
      <4>2. 1 \in 1 .. 3
        OBVIOUS
      <4>3. PageRead(0, h) # Nothing
        BY <4>1, <4>2
      <4> QED
        BY <3>6, <4>3
    <3> QED
      BY <3>1, <3>3, <3>4, <3>5, <3>6 DEF FInv
  <2> QED
    BY <2>1, <2>2, ReportsItself
<1> QED
  BY <1>1, <1>2, FileInvariance, PTL DEF FileSpec

\* initializeStorage() repairs a file whose creation was cut short:
\* OpenHealsHeader, for every set of pages and contents.
THEOREM OpeningHealsHeader == FileSpec => OpenHealsHeader
<1> DEFINE Heals ==
        last'.call = "initialize" /\ last'.ok /\ Length < PageParts
            => /\ size' >= PageParts /\ stream' = Good
               /\ \A i \in 1 .. PageParts :
                     i \in DOMAIN disk'.parts /\ disk'.parts[i] = HeaderPage[i]
<1>1. FInv /\ FileNext => Heals
  <2> SUFFICES ASSUME FInv, FileNext, last'.call = "initialize", last'.ok, Length < PageParts
               PROVE  /\ size' >= PageParts /\ stream' = Good
                      /\ \A i \in 1 .. PageParts :
                            i \in DOMAIN disk'.parts /\ disk'.parts[i] = HeaderPage[i]
    OBVIOUS
  <2>1. PICK create \in BOOLEAN : InitializeStorage(create)
    BY ReportsItself
  <2>2. ~ OpenFails(create)
    BY <2>1 DEF InitializeStorage, Answer, Report
  <2>0. PICK id \in PageIds : id = 0
    BY PageFileAssumption
  <2>3. /\ stream' = Good /\ disk'.parts = Put(disk.parts, Position(id), HeaderPage)
        /\ size' = Len(disk'.parts)
    BY <2>0, <2>1, <2>2 DEF InitializeStorage, Short, Position, PageParts
  <2>4. HeaderPage \in Pages /\ Position(id) = 0
    BY <2>0 DEF Pages, Position, PageParts
  <2>5. disk.parts \in Seq(AllParts) /\ disk'.parts \in Seq(AllParts)
    <3>1. HeaderPage \in Seq(AllParts) /\ 0 \in Nat /\ Position(id) \in Nat
      BY <2>4, PageIs
    <3> QED
      BY <2>3, <3>1, PutIs, FileIs DEF FInv
  <2>6. /\ PageParts <= Len(disk'.parts)
        /\ \A i \in 1 .. PageParts : disk'.parts[i] = HeaderPage[i]
    <3>1. Holds(disk'.parts, HeaderPage, id)
      BY <2>3, <2>4, <2>5, PutHolds
    <3> QED
      BY <2>4, <3>1 DEF Holds, PageParts
  <2> QED
    BY <2>3, <2>5, <2>6 DEF PageParts
<1>2. FInv /\ [FileNext]_fileVars => [Heals]_fileVars
  BY <1>1
<1> QED
  BY <1>2, FileInvariance, PTL DEF FileSpec, OpenHealsHeader

-----------------------------------------------------------------------------
(***************************************************************************)
(* The page allocator: its inductive invariant.                            *)
(***************************************************************************)

\* The list s names ids below n, each once.
ListSound(s, n) ==
    /\ \A i \in 1 .. Len(s) : s[i] < n
    /\ \A i, j \in 1 .. Len(s) : s[i] = s[j] => i = j

FreeListSound == ListSound(alloc.freeList, alloc.nextPageId)

\* The minted ids are on the free list or counted as allocated.
CountByList ==
    alloc.currentAllocated + Len(alloc.freeList)
        = alloc.nextPageId - ReservedPageCount

IInv == TypeOK /\ FreeListSound /\ CountByList /\ HoldersExact /\ PeakIsHighWater

USE PageIdAssumption

-----------------------------------------------------------------------------
(***************************************************************************)
(* Arithmetic modulo the counters' width, and the two list operations.     *)
(***************************************************************************)
\* A number below the width of a counter is left alone by the wrap-around.
LEMMA ModSmall ==
    ASSUME NEW n \in Nat, NEW m \in Nat, n < m
    PROVE  n % m = n
BY SMT

\* A wrapped number is a counter value.
LEMMA ModType ==
    ASSUME NEW n \in Int, NEW m \in Nat, m > 0
    PROVE  n % m \in 0 .. m - 1
BY SMT

\* Incrementing a counter gives a counter value.
LEMMA TickType == ASSUME NEW n \in Counter PROVE Tick(n) \in Counter
BY ModType DEF Tick, Counter

\* An increment that stays below the width is an increment by one.
LEMMA TickSmall ==
    ASSUME NEW n \in Nat, n + 1 < CounterModulus
    PROVE  Tick(n) = n + 1
<1>1. n + 1 \in Nat
  OBVIOUS
<1>. QED  BY <1>1, ModSmall DEF Tick

\* How many pages lie in an interval.
LEMMA IntervalCardinality ==
    ASSUME NEW a \in Int, NEW b \in Int, a <= b
    PROVE  IsFiniteSet(a .. b - 1) /\ Cardinality(a .. b - 1) = b - a
<1>1. b - 1 \in Int
  OBVIOUS
<1>2. /\ IsFiniteSet(a .. b - 1)
      /\ Cardinality(a .. b - 1) = IF a > b - 1 THEN 0 ELSE (b - 1) - a + 1
  BY <1>1, FS_Interval
<1>. QED  BY <1>2

\* The ids on a list are its entries.
LEMMA RangeIsIndexed ==
    ASSUME NEW s \in Seq(DataPages), NEW p
    PROVE  p \in Range(s) <=> \E i \in 1 .. Len(s) : s[i] = p
BY DEF Range

\* Popping the last id of a sound list removes that id and no other.
LEMMA PopSound ==
    ASSUME NEW s \in Seq(DataPages), NEW n \in Nat, ListSound(s, n), s # <<>>,
           NEW r, r = SubSeq(s, 1, Len(s) - 1)
    PROVE  /\ r \in Seq(DataPages) /\ Len(r) = Len(s) - 1
           /\ s[Len(s)] \in DataPages /\ s[Len(s)] < n
           /\ ListSound(r, n)
           /\ s[Len(s)] \in Range(s)
           /\ Range(r) = Range(s) \ {s[Len(s)]}
<1>1. Len(s) \in Nat /\ Len(s) >= 1
  OBVIOUS
<1>2. /\ r \in Seq(DataPages) /\ Len(r) = Len(s) - 1
      /\ \A i \in 1 .. Len(s) - 1 : r[i] = s[i]
  <2>. DEFINE m == Len(s) - 1
  <2>1. 1 \in Int /\ m \in Nat /\ m \in Int /\ \A i \in 1 .. m : s[i] \in DataPages
    BY <1>1
  <2>. HIDE DEF m
  <2>2. /\ SubSeq(s, 1, m) \in Seq(DataPages)
        /\ Len(SubSeq(s, 1, m)) = IF 1 <= m THEN m - 1 + 1 ELSE 0
        /\ \A i \in 1 .. m - 1 + 1 : SubSeq(s, 1, m)[i] = s[1 + i - 1]
    BY <2>1, SubSeqProperties
  <2>3. r = SubSeq(s, 1, m)
    BY DEF m
  <2>4. Len(r) = m /\ \A i \in 1 .. m : r[i] = s[i]
    BY <2>1, <2>2, <2>3
  <2>. QED  BY <2>2, <2>3, <2>4 DEF m
<1>3. s[Len(s)] \in DataPages /\ s[Len(s)] < n
  BY <1>1 DEF ListSound
<1>4. ListSound(r, n)
  BY <1>1, <1>2 DEF ListSound
<1>5. s[Len(s)] \in Range(s)
  BY <1>1, RangeIsIndexed
<1>6. ASSUME NEW p
      PROVE  p \in Range(r) <=> p \in Range(s) /\ p # s[Len(s)]
  <2>1. p \in Range(s) <=> \E i \in 1 .. Len(s) : s[i] = p
    BY RangeIsIndexed
  <2>2. p \in Range(r) <=> \E i \in 1 .. Len(r) : r[i] = p
    BY <1>2, RangeIsIndexed
  <2>3. p \in Range(r) <=> \E i \in 1 .. Len(s) - 1 : s[i] = p
    BY <1>1, <1>2, <2>2
  <2>. QED  BY <1>1, <2>1, <2>3 DEF ListSound
<1>. QED  BY <1>2, <1>3, <1>4, <1>5, <1>6

\* Pushing an id that is not on a sound list adds that id and no other.
LEMMA PushSound ==
    ASSUME NEW s \in Seq(DataPages), NEW n \in Nat, ListSound(s, n),
           NEW id \in DataPages, id < n, id \notin Range(s),
           NEW r, r = Append(s, id)
    PROVE  /\ r \in Seq(DataPages) /\ Len(r) = Len(s) + 1
           /\ ListSound(r, n)
           /\ Range(r) = Range(s) \cup {id}
<1>1. Len(s) \in Nat
  OBVIOUS
<1>2. /\ r \in Seq(DataPages) /\ Len(r) = Len(s) + 1
      /\ \A i \in 1 .. Len(s) : r[i] = s[i]
      /\ r[Len(s) + 1] = id
  BY <1>1
<1>3. \A i \in 1 .. Len(s) : s[i] # id
  BY RangeIsIndexed
<1>4. ListSound(r, n)
  BY <1>1, <1>2, <1>3 DEF ListSound, DataPages
<1>5. ASSUME NEW p
      PROVE  p \in Range(r) <=> p \in Range(s) \/ p = id
  <2>1. p \in Range(s) <=> \E i \in 1 .. Len(s) : s[i] = p
    BY RangeIsIndexed
  <2>2. p \in Range(r) <=> \E i \in 1 .. Len(r) : r[i] = p
    BY <1>2, RangeIsIndexed
  <2>. QED  BY <1>1, <1>2, <2>1, <2>2
<1>. QED  BY <1>2, <1>4, <1>5

\* A sound list has as many ids as places, all of them minted.
LEMMA ListCardinality ==
    ASSUME NEW s \in Seq(DataPages), NEW n \in Nat, ListSound(s, n)
    PROVE  /\ IsFiniteSet(Range(s)) /\ Cardinality(Range(s)) = Len(s)
           /\ Range(s) \subseteq ReservedPageCount .. n - 1
<1>1. Len(s) \in Nat /\ s \in [1 .. Len(s) -> DataPages]
  OBVIOUS
<1>2. s \in [1 .. Len(s) -> Range(s)]
  BY <1>1 DEF Range
<1>3. s \in Injection(1 .. Len(s), Range(s))
  BY <1>1, <1>2 DEF Injection, IsInjective, ListSound
<1>4. s \in Surjection(1 .. Len(s), Range(s))
  BY <1>1, <1>2 DEF Surjection, Range
<1>5. ExistsBijection(1 .. Len(s), Range(s))
  BY <1>3, <1>4 DEF ExistsBijection, Bijection
<1>6. IsFiniteSet(1 .. Len(s)) /\ Cardinality(1 .. Len(s)) = Len(s)
  <2>1. PICK m \in Int : m = Len(s) + 1
    BY <1>1
  <2>2. IsFiniteSet(1 .. m - 1) /\ Cardinality(1 .. m - 1) = m - 1
    BY <1>1, <2>1, IntervalCardinality
  <2>3. m - 1 = Len(s)
    BY <1>1, <2>1
  <2>. QED  BY <2>2, <2>3
<1>7. IsFiniteSet(Range(s)) /\ Cardinality(Range(s)) = Len(s)
  BY <1>5, <1>6, FS_Bijection
<1>8. ASSUME NEW p \in Range(s)
      PROVE  p \in ReservedPageCount .. n - 1
  <2>1. PICK i \in 1 .. Len(s) : s[i] = p
    BY RangeIsIndexed
  <2>2. s[i] \in DataPages /\ s[i] < n
    BY <1>1 DEF ListSound
  <2>. QED  BY <2>1, <2>2 DEF DataPages
<1>. QED  BY <1>7, <1>8

\* A minted id that is not on the list leaves the list shorter than the ids.
LEMMA ListNotFull ==
    ASSUME NEW s \in Seq(DataPages), NEW n \in Nat, n >= ReservedPageCount,
           ListSound(s, n),
           NEW id \in DataPages, id < n, id \notin Range(s)
    PROVE  Len(s) < n - ReservedPageCount
<1>. DEFINE I == ReservedPageCount .. n - 1
<1>1. IsFiniteSet(I) /\ Cardinality(I) = n - ReservedPageCount
  BY IntervalCardinality
<1>2. Range(s) \in SUBSET I /\ Cardinality(Range(s)) = Len(s) /\ Len(s) \in Nat
  BY ListCardinality
<1>3. id \in I
  BY DEF DataPages
<1>4. Range(s) # I
  BY <1>3
<1>. HIDE DEF I
<1>5. Cardinality(Range(s)) <= Cardinality(I) /\ Cardinality(I) # Cardinality(Range(s))
  BY <1>1, <1>2, <1>4, FS_Subset
<1>. QED  BY <1>1, <1>2, <1>5

-----------------------------------------------------------------------------
(***************************************************************************)
(* The invariant holds at the start and every method preserves it.  The    *)
(* count of the pages that are out stays far below the modulus, so the     *)
(* wrapping arithmetic of currentAllocated is plain arithmetic.            *)
(***************************************************************************)

\* The invariant as facts about the fields.
LEMMA Fields ==
    ASSUME IInv
    PROVE  /\ alloc.freeList \in Seq(DataPages)
           /\ alloc.nextPageId \in ReservedPageCount .. MaxPageId + 1
           /\ alloc.totalAllocated \in Counter /\ alloc.totalFreed \in Counter
           /\ alloc.currentAllocated \in Nat /\ alloc.peakAllocated \in Nat
           /\ Len(alloc.freeList) \in Nat
           /\ alloc.currentAllocated + Len(alloc.freeList) = alloc.peakAllocated
           /\ alloc.nextPageId - ReservedPageCount = alloc.peakAllocated
           /\ ListSound(alloc.freeList, alloc.nextPageId)
           /\ holders \in [DataPages -> Nat]
           /\ \A p \in DataPages :
                  holders[p] = IF /\ p < alloc.nextPageId
                                  /\ p \notin Range(alloc.freeList)
                               THEN 1 ELSE 0
<1>1. TypeOK
  BY DEF IInv
<1>2. /\ alloc.freeList \in Seq(DataPages)
      /\ alloc.nextPageId \in ReservedPageCount .. MaxPageId + 1
      /\ alloc.totalAllocated \in Counter /\ alloc.totalFreed \in Counter
      /\ alloc.currentAllocated \in Nat /\ alloc.peakAllocated \in Nat
      /\ holders \in [DataPages -> Nat]
  BY <1>1 DEF TypeOK, Counter
<1>3. Len(alloc.freeList) \in Nat
  BY <1>2
<1>4. /\ alloc.nextPageId - ReservedPageCount = alloc.peakAllocated
      /\ alloc.currentAllocated + Len(alloc.freeList) = alloc.peakAllocated
      /\ ListSound(alloc.freeList, alloc.nextPageId)
  BY DEF IInv, PeakIsHighWater, CountByList, FreeListSound
<1>5. \A p \in DataPages :
        holders[p] = IF p < alloc.nextPageId /\ p \notin Range(alloc.freeList)
                     THEN 1 ELSE 0
  BY DEF IInv, HoldersExact, IsAllocated, DataPages
<1>. QED  BY <1>2, <1>3, <1>4, <1>5

\* Conversely, a step to an object with these fields establishes the invariant.
LEMMA FromFields ==
    ASSUME NEW s \in Seq(DataPages),
           NEW n \in ReservedPageCount .. MaxPageId + 1,
           NEW t \in Counter, NEW f \in Counter, NEW c \in Nat, NEW k \in Nat,
           c + Len(s) = k, n - ReservedPageCount = k, ListSound(s, n),
           alloc' = [freeList |-> s, nextPageId |-> n, totalAllocated |-> t,
                     totalFreed |-> f, currentAllocated |-> c, peakAllocated |-> k],
           holders' \in [DataPages -> Nat],
           \A p \in DataPages :
               holders'[p] = IF p < n /\ p \notin Range(s) THEN 1 ELSE 0
    PROVE  IInv'
<1>0. Len(s) \in Nat
  OBVIOUS
<1>1. c \in Counter /\ k \in Counter
  BY <1>0 DEF Counter
<1>2. TypeOK'
  BY <1>1 DEF TypeOK
<1>3. FreeListSound' /\ CountByList' /\ PeakIsHighWater'
  BY DEF FreeListSound, CountByList, PeakIsHighWater
<1>4. HoldersExact'
  BY DEF HoldersExact, IsAllocated, DataPages
<1>. QED  BY <1>2, <1>3, <1>4 DEF IInv

\* A new allocator (the constructor) satisfies the inductive invariant.
LEMMA InitIInv == Init => IInv
<1>. SUFFICES ASSUME Init PROVE IInv
  OBVIOUS
<1>1. TypeOK
  BY DEF Init, Fresh, TypeOK, Counter, DataPages
<1>2. FreeListSound /\ CountByList /\ PeakIsHighWater
  BY DEF Init, Fresh, FreeListSound, ListSound, CountByList, PeakIsHighWater
<1>3. HoldersExact
  BY DEF Init, Fresh, HoldersExact, IsAllocated, DataPages
<1>. QED  BY <1>1, <1>2, <1>3 DEF IInv

\* allocate() preserves the inductive invariant: an id popped from the free list,
\* a fresh id, or a refusal.
LEMMA AllocateIInv == IInv /\ Allocate => IInv'
<1>. SUFFICES ASSUME IInv, Allocate PROVE IInv'
  OBVIOUS
<1>. DEFINE s == alloc.freeList
            n == alloc.nextPageId
            c == alloc.currentAllocated
            k == alloc.peakAllocated
            t == Tick(alloc.totalAllocated)
            f == alloc.totalFreed
<1>0. /\ s \in Seq(DataPages) /\ Len(s) \in Nat /\ ListSound(s, n)
      /\ n \in ReservedPageCount .. MaxPageId + 1 /\ n \in Nat
      /\ alloc.totalAllocated \in Counter /\ f \in Counter
      /\ c \in Nat /\ k \in Nat /\ c + Len(s) = k /\ n - ReservedPageCount = k
      /\ holders \in [DataPages -> Nat]
      /\ \A p \in DataPages :
             holders[p] = IF p < n /\ p \notin Range(s) THEN 1 ELSE 0
  BY Fields
<1>. HIDE DEF s, n, c, k, t, f
<1>1. CASE s # <<>>
  <2>0. PICK id, r : id = s[Len(s)] /\ r = SubSeq(s, 1, Len(s) - 1)
    OBVIOUS
  <2>1. /\ r \in Seq(DataPages) /\ Len(r) = Len(s) - 1
        /\ id \in DataPages /\ id < n
        /\ ListSound(r, n)
        /\ id \in Range(s)
        /\ Range(r) = Range(s) \ {id}
    <3>1. s \in Seq(DataPages) /\ n \in Nat /\ ListSound(s, n) /\ s # <<>>
      BY <1>0, <1>1
    <3>. QED  BY <2>0, <3>1, PopSound
  <2>2. AllocateResult(alloc) = id /\ id # InvalidPageId
    BY <1>1, <2>0, <2>1 DEF AllocateResult, DataPages, s
  <2>3. c + 1 <= k /\ c + 1 < CounterModulus
    BY <1>0, <1>1
  <2>4. Tick(c) = c + 1 /\ t \in Counter
    BY <1>0, <2>3, TickSmall, TickType DEF t
  <2>5. alloc' = [freeList |-> r, nextPageId |-> n, totalAllocated |-> t,
                  totalFreed |-> f, currentAllocated |-> c + 1,
                  peakAllocated |-> k]
    <3>1. alloc' = Took(alloc, r, n)
      BY <1>1, <2>0 DEF Allocate, AfterAllocate, s, n
    <3>2. ~ (c + 1 > k)
      BY <1>0, <2>3
    <3>. QED  BY <2>4, <3>1, <3>2 DEF Took, c, k, t, f
  <2>6. holders' = [holders EXCEPT ![id] = @ + 1]
    BY <2>2 DEF Allocate
  <2>7. holders[id] = 0
    BY <1>0, <2>1
  <2>8. /\ holders' \in [DataPages -> Nat]
        /\ \A p \in DataPages :
               holders'[p] = IF p < n /\ p \notin Range(r) THEN 1 ELSE 0
    <3>1. /\ holders \in [DataPages -> Nat] /\ id \in DataPages
          /\ holders' = [holders EXCEPT ![id] = 1]
      BY <1>0, <2>1, <2>6, <2>7
    <3>2. ASSUME NEW p \in DataPages, p # id
          PROVE  holders'[p] = IF p < n /\ p \notin Range(r) THEN 1 ELSE 0
      BY <1>0, <2>1, <3>1, <3>2
    <3>3. holders'[id] = 1 /\ id \notin Range(r)
      BY <2>1, <3>1
    <3>. QED  BY <2>1, <3>1, <3>2, <3>3
  <2>9. c + 1 \in Nat /\ (c + 1) + Len(r) = k
    <3>1. Len(r) = Len(s) - 1
      BY <2>1
    <3>2. c \in Nat /\ Len(s) \in Nat /\ c + Len(s) = k
      BY <1>0
    <3>. QED  BY <3>1, <3>2
  <2>. QED  BY <1>0, <2>1, <2>4, <2>5, <2>8, <2>9, FromFields
<1>2. CASE s = <<>> /\ n > MaxPageId
  <2>1. UNCHANGED <<alloc, holders>>
    BY <1>2 DEF Allocate, AfterAllocate, AllocateResult, s, n
  <2>. QED  BY <2>1 DEF IInv, TypeOK, FreeListSound, CountByList, HoldersExact,
                        PeakIsHighWater
<1>3. CASE s = <<>> /\ n <= MaxPageId
  <2>1. n \in DataPages /\ AllocateResult(alloc) = n /\ n # InvalidPageId
    BY <1>0, <1>3 DEF AllocateResult, DataPages, s, n
  <2>2. c = k /\ c + 1 < CounterModulus
    BY <1>0, <1>3
  <2>3. Tick(c) = c + 1 /\ t \in Counter
    BY <1>0, <2>2, TickSmall, TickType DEF t
  <2>4. alloc' = [freeList |-> s, nextPageId |-> n + 1, totalAllocated |-> t,
                  totalFreed |-> f, currentAllocated |-> c + 1,
                  peakAllocated |-> k + 1]
    <3>1. alloc' = Took(alloc, s, n + 1)
      BY <1>0, <1>3 DEF Allocate, AfterAllocate, s, n
    <3>2. c + 1 > k /\ c + 1 = k + 1
      BY <1>0, <2>2
    <3>. QED  BY <2>3, <3>1, <3>2 DEF Took, c, k, t, f
  <2>5. holders' = [holders EXCEPT ![n] = @ + 1]
    BY <2>1 DEF Allocate
  <2>6. \A p : p \notin Range(s)
    BY <1>3 DEF Range
  <2>7. /\ holders' \in [DataPages -> Nat]
        /\ \A p \in DataPages :
               holders'[p] = IF p < n + 1 /\ p \notin Range(s) THEN 1 ELSE 0
    BY <1>0, <2>1, <2>5, <2>6 DEF DataPages
  <2>8. ListSound(s, n + 1)
    BY <1>3 DEF ListSound
  <2>9. /\ s \in Seq(DataPages) /\ n + 1 \in ReservedPageCount .. MaxPageId + 1
        /\ c + 1 \in Nat /\ k + 1 \in Nat /\ f \in Counter
        /\ (c + 1) + Len(s) = k + 1 /\ (n + 1) - ReservedPageCount = k + 1
    BY <1>0, <1>3
  <2>. QED  BY <2>3, <2>4, <2>7, <2>8, <2>9, FromFields
<1>. QED  BY <1>0, <1>1, <1>2, <1>3

\* free() preserves the inductive invariant: a refusal, or an id pushed on the
\* free list.
LEMMA FreeIInv ==
    ASSUME IInv, NEW id \in 0 .. MaxPageId + 1 \cup {InvalidPageId}, Free(id)
    PROVE  IInv'
<1>. DEFINE s == alloc.freeList
            n == alloc.nextPageId
            c == alloc.currentAllocated
            k == alloc.peakAllocated
            t == alloc.totalAllocated
            f == Tick(alloc.totalFreed)
<1>0. /\ s \in Seq(DataPages) /\ Len(s) \in Nat /\ ListSound(s, n)
      /\ n \in ReservedPageCount .. MaxPageId + 1 /\ n \in Nat
      /\ t \in Counter /\ alloc.totalFreed \in Counter
      /\ c \in Nat /\ k \in Nat /\ c + Len(s) = k /\ n - ReservedPageCount = k
      /\ holders \in [DataPages -> Nat]
      /\ \A p \in DataPages :
             holders[p] = IF p < n /\ p \notin Range(s) THEN 1 ELSE 0
  BY Fields
<1>. HIDE DEF s, n, c, k, t, f
<1>1. CASE ~ MayFree(alloc, id)
  <2>1. UNCHANGED <<alloc, holders>>
    BY <1>1 DEF Free, AfterFree
  <2>. QED  BY <2>1 DEF IInv, TypeOK, FreeListSound, CountByList, HoldersExact,
                        PeakIsHighWater
<1>2. CASE MayFree(alloc, id)
  <2>1. id \in DataPages /\ id < n /\ id \notin Range(s)
    BY <1>0, <1>2 DEF MayFree, DataPages, s, n
  <2>2. PICK r : r = Append(s, id)
    OBVIOUS
  <2>3. /\ r \in Seq(DataPages) /\ Len(r) = Len(s) + 1
        /\ ListSound(r, n)
        /\ Range(r) = Range(s) \cup {id}
    BY <1>0, <2>1, <2>2, PushSound
  <2>4. Len(s) < n - ReservedPageCount
    BY <1>0, <2>1, ListNotFull
  <2>5. c - 1 \in Nat /\ c - 1 < CounterModulus
    BY <1>0, <2>4
  <2>6. (c - 1) % CounterModulus = c - 1 /\ f \in Counter
    BY <1>0, <2>5, ModSmall, TickType DEF f
  <2>7. alloc' = [freeList |-> r, nextPageId |-> n, totalAllocated |-> t,
                  totalFreed |-> f, currentAllocated |-> c - 1,
                  peakAllocated |-> k]
    <3>1. alloc' = [freeList |-> Append(s, id), nextPageId |-> n,
                    totalAllocated |-> t, totalFreed |-> f,
                    currentAllocated |-> (c - 1) % CounterModulus,
                    peakAllocated |-> k]
      BY <1>2 DEF Free, AfterFree, IInv, TypeOK, s, n, c, k, t, f
    <3>. QED  BY <2>2, <2>6, <3>1
  <2>8. holders[id] = 1
    BY <1>0, <2>1
  <2>9. /\ holders' \in [DataPages -> Nat]
        /\ \A p \in DataPages :
               holders'[p] = IF p < n /\ p \notin Range(r) THEN 1 ELSE 0
    <3>1. holders' = [holders EXCEPT ![id] = 0] /\ holders \in [DataPages -> Nat]
      BY <1>0, <1>2, <2>1, <2>8 DEF Free
    <3>2. ASSUME NEW p \in DataPages, p # id
          PROVE  holders'[p] = IF p < n /\ p \notin Range(r) THEN 1 ELSE 0
      BY <1>0, <2>3, <3>1, <3>2
    <3>3. holders'[id] = 0 /\ id \in Range(r)
      BY <2>1, <2>3, <3>1
    <3>. QED  BY <2>1, <3>1, <3>2, <3>3
  <2>10. (c - 1) + Len(r) = k
    <3>1. Len(r) = Len(s) + 1
      BY <2>3
    <3>2. c \in Nat /\ Len(s) \in Nat /\ c + Len(s) = k
      BY <1>0
    <3>. QED  BY <3>1, <3>2
  <2>. QED  BY <1>0, <2>3, <2>5, <2>6, <2>7, <2>9, <2>10, FromFields
<1>. QED  BY <1>1, <1>2

\* reset() establishes the inductive invariant, as it makes a new allocator.
LEMMA ResetIInv == Reset => IInv'
<1>. SUFFICES ASSUME Reset PROVE IInv'
  OBVIOUS
<1>1. TypeOK'
  BY DEF Reset, Fresh, TypeOK, Counter, DataPages
<1>2. FreeListSound' /\ CountByList' /\ PeakIsHighWater'
  BY DEF Reset, Fresh, FreeListSound, ListSound, CountByList, PeakIsHighWater
<1>3. HoldersExact'
  BY DEF Reset, Fresh, HoldersExact, IsAllocated, DataPages
<1>. QED  BY <1>1, <1>2, <1>3 DEF IInv

\* Every step preserves the inductive invariant.
LEMMA NextIInv == IInv /\ [Next]_vars => IInv'
<1>. SUFFICES ASSUME IInv, [Next]_vars PROVE IInv'
  OBVIOUS
<1>1. CASE Allocate
  BY <1>1, AllocateIInv
<1>2. ASSUME NEW id \in 0 .. MaxPageId + 1 \cup {InvalidPageId}, Free(id) PROVE IInv'
  BY <1>2, FreeIInv
<1>3. CASE Reset
  BY <1>3, ResetIInv
<1>4. CASE UNCHANGED vars
  BY <1>4 DEF vars, IInv, TypeOK, FreeListSound, CountByList, HoldersExact,
              PeakIsHighWater
<1>. QED  BY <1>1, <1>2, <1>3, <1>4 DEF Next

\* In every reachable state of the allocator the inductive invariant holds.
THEOREM Invariance == Spec => []IInv
BY InitIInv, NextIInv, PTL DEF Spec

\* The allocator's counters keep their width and its free list holds data pages,
\* whatever sequence of allocate(), free() and reset() is called.
THEOREM TypeCorrect == Spec => []TypeOK
<1>1. IInv => TypeOK
  BY DEF IInv
<1>. QED  BY <1>1, Invariance, PTL

\* allocatedCount() is the number of pages that are out (PageAllocator.cpp's
\* bookkeeping in allocate and free), for every instance.
THEOREM CountIsExact == Spec => []CountExact
<1>1. IInv => CountExact
  <2>. SUFFICES ASSUME IInv PROVE CountExact
    OBVIOUS
  <2>1. PICK s, n, c :
           /\ s = alloc.freeList /\ n = alloc.nextPageId
           /\ c = alloc.currentAllocated
    OBVIOUS
  <2>2. /\ s \in Seq(DataPages) /\ ListSound(s, n)
        /\ n \in Nat /\ n >= ReservedPageCount /\ n <= MaxPageId + 1
        /\ c \in Nat /\ Len(s) \in Nat /\ c + Len(s) = n - ReservedPageCount
    BY <2>1, Fields
  <2>. DEFINE I == ReservedPageCount .. n - 1
              H == {p \in DataPages : holders[p] > 0}
  <2>3. H = I \ Range(s)
    <3>1. \A p \in DataPages : holders[p] = IF p < n /\ p \notin Range(s) THEN 1 ELSE 0
      BY <2>1, Fields
    <3>2. \A p \in DataPages : holders[p] > 0 <=> p < n /\ p \notin Range(s)
      BY <3>1
    <3>3. \A p : p \in I <=> p \in DataPages /\ p < n
      BY <2>2 DEF DataPages
    <3>. QED  BY <3>2, <3>3
  <2>4. IsFiniteSet(I) /\ Cardinality(I) = n - ReservedPageCount
    BY <2>2, IntervalCardinality
  <2>5. Range(s) \subseteq I /\ Cardinality(Range(s)) = Len(s)
    BY <2>2, ListCardinality
  <2>. HIDE DEF I
  <2>6. I \cap Range(s) = Range(s)
    BY <2>5
  <2>7. Cardinality(I \ Range(s)) = Cardinality(I) - Cardinality(I \cap Range(s))
    BY <2>4, FS_Difference
  <2>8. Cardinality(I \ Range(s)) = c
    <3>1. Cardinality(I \ Range(s)) = (n - ReservedPageCount) - Len(s)
      BY <2>4, <2>5, <2>6, <2>7
    <3>. QED  BY <2>2, <3>1
  <2>. QED  BY <2>1, <2>3, <2>8 DEF CountExact
<1>. QED  BY <1>1, Invariance, PTL

\* isAllocated() is exact and no page is ever out twice.
THEOREM HoldersAreExact == Spec => []HoldersExact
<1>1. IInv => HoldersExact
  BY DEF IInv
<1>. QED  BY <1>1, Invariance, PTL

\* The ids ever minted are as many as the peak of simultaneous holders.
THEOREM PeakIsExact == Spec => []PeakIsHighWater
<1>1. IInv => PeakIsHighWater
  BY DEF IInv
<1>. QED  BY <1>1, Invariance, PTL

\* allocate() gives up only when every data page is out.
THEOREM ExhaustionIsHonest == Spec => []ExhaustedOnlyWhenFull
<1>1. IInv => ExhaustedOnlyWhenFull
  <2>. SUFFICES ASSUME IInv, AllocateResult(alloc) = InvalidPageId,
                       NEW p \in DataPages
                PROVE  holders[p] > 0
    BY DEF ExhaustedOnlyWhenFull
  <2>1. alloc.freeList = <<>> /\ alloc.nextPageId > MaxPageId
    <3>1. alloc.freeList \in Seq(DataPages) /\ alloc.nextPageId \in Nat
      BY Fields
    <3>2. alloc.freeList # <<>> => alloc.freeList[Len(alloc.freeList)] \in DataPages
      BY <3>1
    <3>. QED  BY <3>1, <3>2 DEF AllocateResult, DataPages
  <2>2. p < alloc.nextPageId /\ p \notin Range(alloc.freeList)
    <3>1. p \notin Range(alloc.freeList)
      BY <2>1 DEF Range
    <3>2. p < alloc.nextPageId
      BY <2>1, Fields DEF DataPages
    <3>. QED  BY <3>1, <3>2
  <2>. QED  BY <2>2, Fields
<1>. QED  BY <1>1, Invariance, PTL

\* PageAllocator implements PagePool: the abstract promise "granted to at most
\* one client at a time" for every instance and every sequence of calls.
THEOREM Refinement == Spec => ImplementsPagePool
<1>1. Init => Pool!Init
  BY DEF Init, Pool!Init, Pool!Nobody
<1>2. IInv /\ [Next]_vars => [Pool!Next]_holders
  <2>. SUFFICES ASSUME IInv, [Next]_vars
                PROVE  Pool!Next \/ UNCHANGED holders
    OBVIOUS
  <2>0. /\ holders \in [DataPages -> Nat]
        /\ \A p \in DataPages :
               holders[p] = IF /\ p < alloc.nextPageId
                               /\ p \notin Range(alloc.freeList)
                            THEN 1 ELSE 0
    BY Fields
  <2>1. CASE Allocate
    <3>1. CASE AllocateResult(alloc) = InvalidPageId
      BY <2>1, <3>1 DEF Allocate
    <3>2. CASE AllocateResult(alloc) # InvalidPageId
      <4>1. PICK id : id = AllocateResult(alloc)
        OBVIOUS
      <4>2. id \in DataPages /\ holders[id] = 0
        <5>1. CASE alloc.freeList # <<>>
          <6>1. PICK r : r = SubSeq(alloc.freeList, 1, Len(alloc.freeList) - 1)
            OBVIOUS
          <6>2. /\ alloc.freeList \in Seq(DataPages) /\ alloc.nextPageId \in Nat
                /\ ListSound(alloc.freeList, alloc.nextPageId)
            BY Fields
          <6>3. id = alloc.freeList[Len(alloc.freeList)]
            BY <4>1, <5>1 DEF AllocateResult
          <6>4. id \in DataPages /\ id \in Range(alloc.freeList)
            BY <5>1, <6>1, <6>2, <6>3, PopSound
          <6>. QED  BY <2>0, <6>4
        <5>2. CASE alloc.freeList = <<>>
          <6>1. id = alloc.nextPageId /\ id <= MaxPageId /\ id \in DataPages
            BY <3>2, <4>1, <5>2, Fields DEF AllocateResult, DataPages
          <6>2. ~ (id < alloc.nextPageId)
            BY <6>1, Fields
          <6>. QED  BY <2>0, <6>1, <6>2
        <5>. QED  BY <5>1, <5>2
      <4>3. holders' = [holders EXCEPT ![id] = 1]
        BY <2>0, <2>1, <3>2, <4>1, <4>2 DEF Allocate
      <4>4. Pool!Grant({id})
        BY <2>0, <4>2, <4>3 DEF Pool!Grant
      <4>. QED  BY <4>2, <4>4 DEF Pool!Next
    <3>. QED  BY <3>1, <3>2
  <2>2. ASSUME NEW id \in 0 .. MaxPageId + 1 \cup {InvalidPageId}, Free(id)
        PROVE  Pool!Next \/ UNCHANGED holders
    <3>1. CASE ~ MayFree(alloc, id)
      BY <2>2, <3>1 DEF Free
    <3>2. CASE MayFree(alloc, id)
      <4>1. id \in DataPages /\ holders[id] = 1
        <5>1. id \in DataPages /\ id < alloc.nextPageId /\ id \notin Range(alloc.freeList)
          BY <3>2, Fields DEF MayFree, DataPages
        <5>. QED  BY <2>0, <5>1
      <4>2. holders' = [holders EXCEPT ![id] = 0]
        BY <2>0, <2>2, <3>2, <4>1 DEF Free
      <4>3. Pool!Release({id})
        BY <2>0, <4>1, <4>2 DEF Pool!Release
      <4>. QED  BY <4>1, <4>3 DEF Pool!Next
    <3>. QED  BY <3>1, <3>2
  <2>3. CASE Reset
    BY <2>3 DEF Reset, Pool!Next, Pool!Forget, Pool!Nobody
  <2>4. CASE UNCHANGED vars
    BY <2>4 DEF vars
  <2>. QED  BY <2>1, <2>2, <2>3, <2>4 DEF Next
<1>. QED  BY <1>1, <1>2, Invariance, PTL DEF Spec, ImplementsPagePool, Pool!Spec
=============================================================================
