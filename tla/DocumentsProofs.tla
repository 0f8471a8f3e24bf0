---------------------------- MODULE DocumentsProofs ----------------------------
(*
The contracts page, for any files, uploads, statuses and first store.
*)
EXTENDS DocumentsProperties, UseAsyncProofs, FiniteSetTheorems, SequenceTheorems

(***************************************************************************)
(* The spinner                                                             *)
(***************************************************************************)

ListInv == IsHook(list) /\ ListSpins

LEMMA ListInitially == Init => ListInv
BY MountedHook DEF Init, ListInv, ListSpins

\* A call, an answer and a read keep it; each other action leaves the list alone.
LEMMA ListReload ==
    ASSUME ListInv, reload
    PROVE  ListInv'
BY CalledHook DEF ListInv, ListSpins, reload

LEMMA ListSettling ==
    ASSUME ListInv, NEW request \in list.open, NEW outcome, ListSettles(request, outcome)
    PROVE  ListInv'
BY SettledHook DEF ListInv, ListSpins, ListSettles, ShowAnswer

LEMMA ListInvStep ==
    ASSUME ListInv, [Next]_vars
    PROVE  ListInv'
<1>1. ASSUME NEW request \in list.open, ListRead(request)
      PROVE  ListInv'
  BY <1>1, HasReadHook DEF ListInv, ListSpins, ListRead
<1>2. ASSUME NEW request \in list.open,
             ListAnswered(request) \/ ListFails(request) \/ ListDemo(request)
      PROVE  ListInv'
  BY <1>2, ListSettling DEF ListAnswered, ListFails, ListDemo
<1>3. CASE Retry \/ Poll
  BY <1>3, ListReload DEF Retry, Poll
<1>4. CASE Tick
  BY <1>4 DEF Tick, ListInv, ListSpins
<1>5. CASE UploadStep
  <2>1. UNCHANGED list
    BY <1>5 DEF UploadStep, handleFiles, UploadStored, UploadAnswered, UploadFails,
                UploadDemo, RemoveEntries
  <2>2. QED
    BY <2>1 DEF ListInv, ListSpins
<1>6. ASSUME NEW i \in DOMAIN store,
             AttemptStarts(i) \/ \E status \in Reported : WorkerMoves(i, status)
      PROVE  ListInv'
  BY <1>6 DEF AttemptStarts, WorkerMoves, pageVars, ListInv, ListSpins
<1>7. CASE UNCHANGED vars
  BY <1>7 DEF vars, pageVars, ListInv, ListSpins
<1>8. QED
  BY <1>1, <1>2, <1>3, <1>4, <1>5, <1>6, <1>7 DEF Next, ListStep

\* The contracts page loads exactly while its newest list request is out, whatever
\* order polls, retries, uploads and answers come in.
THEOREM ListSpinsAlways == Spec => []ListSpins
<1>1. ListInv => ListSpins
  BY DEF ListInv
<1>2. QED
  BY ListInitially, ListInvStep, <1>1, PTL DEF Spec

(***************************************************************************)
(* What the operators on files and entries return                          *)
(***************************************************************************)

AllFiles == UNION {ToSet(files) : files \in Drops}
Verdicts == {"", "not a PDF", "empty", "too large", "upload failed"}
EntryType == [name : Names, pct : 0..100, error : Verdicts]

LEMMA FilesTyped ==
    /\ AllFiles \subseteq FileType
    /\ \A files \in Drops : files \in Seq(AllFiles)
    /\ \A file \in AllFiles : file.name \in Names
<1>1. ASSUME NEW files \in Drops
      PROVE  files \in Seq(FileType) /\ files \in Seq(AllFiles)
  <2>1. files \in Seq(FileType)
    BY DocumentsAssumption
  <2>2. \A i \in 1..Len(files) : files[i] \in AllFiles
    BY <2>1 DEF AllFiles, ToSet
  <2>3. QED
    BY <2>1, <2>2
<1>2. AllFiles \subseteq FileType
  <2>1. SUFFICES ASSUME NEW files \in Drops, NEW i \in DOMAIN files
                 PROVE  files[i] \in FileType
    BY DEF AllFiles, ToSet
  <2>2. QED
    BY <1>1
<1>3. \A file \in AllFiles : file.name \in Names
  BY DEF AllFiles, Names, ToSet
<1>4. QED
  BY <1>1, <1>2, <1>3

\* The elements of a sequence, before and after one is replaced.
LEMMA ElementsOf ==
    ASSUME NEW S, NEW seq \in Seq(S), NEW i \in DOMAIN seq
    PROVE  /\ seq[i] \in S
           /\ \A e \in S :
                LET new == [seq EXCEPT ![i] = e]
                IN  /\ new \in Seq(S) /\ Len(new) = Len(seq) /\ DOMAIN new = DOMAIN seq
                    /\ \A j \in DOMAIN seq : new[j] = IF j = i THEN e ELSE seq[j]
OBVIOUS

Passes(file) == validateContractFile(file) = ""

LEMMA ValidIs ==
    ASSUME NEW files \in Seq(AllFiles)
    PROVE  /\ Valid(files) \in SUBSET Nat
           /\ \A i \in Valid(files) :
                i \in 1..Len(files) /\ Passes(files[i])
           /\ \A i \in 1..Len(files) : Passes(files[i]) => i \in Valid(files)
<1>1. DOMAIN files = 1..Len(files) /\ Len(files) \in Nat
  OBVIOUS
<1>2. \A i \in Valid(files) : i \in 1..Len(files) /\ Passes(files[i])
  BY <1>1, Zenon DEF Valid, Passes
<1>3. \A i \in 1..Len(files) : Passes(files[i]) => i \in Valid(files)
  BY <1>1, Zenon DEF Valid, Passes
<1>4. \A i \in Valid(files) : i \in Nat
  BY <1>1, <1>2
<1>5. QED
  BY <1>2, <1>3, <1>4

\* The loop stops at the first file that passes validation, if there is one.
LEMMA FirstValidIs ==
    ASSUME NEW files \in Seq(AllFiles), Valid(files) # {}
    PROVE  /\ FirstValid(files) \in Valid(files)
           /\ \A j \in Valid(files) : FirstValid(files) <= j
<1>1. Valid(files) \in SUBSET Nat
  BY ValidIs
<1>2. \E i \in Valid(files) : \A j \in Valid(files) : i <= j
  BY <1>1, NatLeast
<1>3. QED
  BY <1>2 DEF FirstValid

\* Of the files met, only the one the loop waits for may be valid.
LEMMA MetAndLeft ==
    ASSUME NEW files \in Seq(AllFiles)
    PROVE  /\ Met(files) \in Seq(AllFiles)
           /\ Left(files) \in Seq(AllFiles)
           /\ \A i \in DOMAIN Met(files) :
                Passes(Met(files)[i]) =>
                    Left(files) # <<>> /\ Head(Left(files)) = Met(files)[i]
<1>1. CASE Valid(files) = {}
  <2>1. Met(files) = files /\ Left(files) = <<>>
    BY <1>1 DEF Met, Left
  <2>2. \A i \in 1..Len(files) : ~Passes(files[i])
    BY <1>1, ValidIs
  <2>3. QED
    BY <2>1, <2>2
<1>2. CASE Valid(files) # {}
  <2> DEFINE n == FirstValid(files)
  <2>1. n \in Valid(files) /\ \A j \in Valid(files) : n <= j
    BY <1>2, FirstValidIs
  <2> HIDE DEF n
  <2>2. n \in 1..Len(files)
    BY <2>1, ValidIs
  <2>3. /\ Met(files) = SubSeq(files, 1, n)
        /\ Left(files) = SubSeq(files, n, Len(files))
    BY <1>2 DEF Met, Left, n
  <2>4. /\ Met(files) \in Seq(AllFiles) /\ Left(files) \in Seq(AllFiles)
        /\ Len(Met(files)) = n /\ Len(Left(files)) = Len(files) - n + 1
        /\ \A i \in 1..n : Met(files)[i] = files[i]
        /\ Left(files)[1] = files[n]
    BY <2>2, <2>3
  <2>5. ASSUME NEW i \in DOMAIN Met(files), Passes(Met(files)[i])
        PROVE  i = n
    <3>1. i \in 1..n /\ Met(files)[i] = files[i]
      BY <2>2, <2>4
    <3>2. i \in Valid(files)
      BY <2>2, <2>5, <3>1, ValidIs
    <3>3. QED
      BY <2>1, <2>2, <3>1, <3>2
  <2>6. Left(files) # <<>> /\ Head(Left(files)) = files[n]
    BY <2>2, <2>4
  <2>7. Met(files)[n] = files[n]
    BY <2>2, <2>4
  <2>8. QED
    BY <2>4, <2>5, <2>6, <2>7
<1>3. QED
  BY <1>1, <1>2

\* An entry is one of before, or of a file met; a new one without an error is
\* that of the file the loop waits for.
NewOrOld(entry, entries, files) ==
    \/ \E j \in DOMAIN entries : entry = entries[j]
    \/ /\ entry.error = "" => Left(files) # <<>> /\ Head(Left(files)).name = entry.name

LEMMA ListedEntries ==
    ASSUME NEW entries \in Seq(EntryType), NEW files \in Seq(AllFiles)
    PROVE  /\ Listed(entries, files) \in Seq(EntryType)
           /\ Len(Listed(entries, files)) <= 4
           /\ \A i \in DOMAIN Listed(entries, files) :
                NewOrOld(Listed(entries, files)[i], entries, files)
<1> DEFINE met == Met(files)
           new == [i \in DOMAIN met |-> Entry(met[i])]
           all == Reverse(new) \o entries
           n == IF Len(all) < 4 THEN Len(all) ELSE 4
<1>1. met \in Seq(AllFiles)
  BY MetAndLeft
<1>2. \A file \in AllFiles : Entry(file) \in EntryType /\ Entry(file).name = file.name
                              /\ Entry(file).error = validateContractFile(file)
  <2>1. \A file \in AllFiles : validateContractFile(file) \in Verdicts
    BY FilesTyped DEF validateContractFile, Verdicts, FileType
  <2>2. QED
    BY <2>1, FilesTyped DEF Entry, EntryType
<1> HIDE DEF met
<1>3. new \in Seq(EntryType) /\ Len(new) = Len(met) /\ \A i \in 1..Len(met) : new[i] = Entry(met[i])
  BY <1>1, <1>2
<1> HIDE DEF new
<1>4. /\ Reverse(new) \in Seq(EntryType)
      /\ \A i \in DOMAIN Reverse(new) : \E j \in 1..Len(met) : Reverse(new)[i] = Entry(met[j])
  <2>1. /\ Reverse(new) \in Seq(EntryType) /\ Len(Reverse(new)) = Len(new)
        /\ \A i \in 1..Len(new) : Reverse(new)[i] = new[Len(new) - i + 1]
                                  /\ Len(new) - i + 1 \in 1..Len(new)
    BY <1>3 DEF Reverse
  <2> DEFINE r == Reverse(new)
  <2>2. r \in Seq(EntryType) /\ Len(r) = Len(new) /\ \A i \in 1..Len(new) :
          r[i] = new[Len(new) - i + 1] /\ Len(new) - i + 1 \in 1..Len(new)
    BY <2>1
  <2> HIDE DEF r
  <2>3. ASSUME NEW i \in DOMAIN r
        PROVE  \E j \in 1..Len(met) : r[i] = Entry(met[j])
    <3>1. i \in 1..Len(new)
      BY <1>3, <2>2
    <3>2. QED
      BY <1>3, <2>2, <3>1
  <2>4. QED
    BY <2>2, <2>3 DEF r
<1>5. \A i \in DOMAIN Reverse(new) : NewOrOld(Reverse(new)[i], entries, files)
  <2> SUFFICES ASSUME NEW i \in DOMAIN Reverse(new)
               PROVE  NewOrOld(Reverse(new)[i], entries, files)
    OBVIOUS
  <2>1. PICK j \in 1..Len(met) : Reverse(new)[i] = Entry(met[j])
    BY <1>4
  <2>2. met[j] \in AllFiles /\ j \in DOMAIN met
    BY <1>1
  <2>3. Passes(met[j]) => Left(files) # <<>> /\ Head(Left(files)) = met[j]
    BY <2>2, MetAndLeft DEF met
  <2>4. QED
    BY <1>2, <2>1, <2>2, <2>3 DEF NewOrOld, Passes
<1>6. all \in Seq(EntryType) /\ \A i \in DOMAIN all : NewOrOld(all[i], entries, files)
  <2> DEFINE r == Reverse(new)
  <2>1. r \in Seq(EntryType) /\ \A i \in DOMAIN r : NewOrOld(r[i], entries, files)
    BY <1>4, <1>5
  <2> HIDE DEF r
  <2>2. all = r \o entries
    BY DEF r
  <2>3. \A i \in DOMAIN entries : NewOrOld(entries[i], entries, files)
    BY DEF NewOrOld
  <2>4. QED
    BY <2>1, <2>2, <2>3
<1>7. Listed(entries, files) = SubSeq(all, 1, n)
  BY DEF Listed, met, new
<1> HIDE DEF all
<1>8. n \in Nat /\ n <= 4 /\ n <= Len(all)
  <2>1. Len(all) \in Nat
    BY <1>6
  <2>2. CASE Len(all) < 4
    BY <2>1, <2>2
  <2>3. CASE ~(Len(all) < 4)
    BY <2>1, <2>3
  <2>4. QED
    BY <2>2, <2>3
<1> HIDE DEF n
<1>9. QED
  BY <1>6, <1>7, <1>8

\* The entries of the other names, and no more.
KeptTo(entries, name, n, kept) ==
    kept = [k \in 0..n |->
              IF k = 0 THEN <<>>
              ELSE IF entries[k].name = name THEN kept[k - 1]
              ELSE Append(kept[k - 1], entries[k])]

LEMMA KeptExists ==
    ASSUME NEW entries, NEW name
    PROVE  \A n \in Nat : \E kept : KeptTo(entries, name, n, kept)
<1> DEFINE T == {n \in Nat : ~\E kept : KeptTo(entries, name, n, kept)}
<1> SUFFICES ASSUME T # {}
             PROVE  FALSE
  OBVIOUS
<1>1. PICK n \in T : \A m \in T : n <= m
  BY NatLeast
<1>2. CASE n = 0
  <2> DEFINE f == [k \in 0..0 |-> <<>>]
  <2>1. KeptTo(entries, name, 0, f)
    BY DEF KeptTo
  <2>2. QED
    BY <1>2, <2>1
<1>3. CASE n # 0
  <2>1. n - 1 \in Nat /\ n - 1 \notin T
    BY <1>1, <1>3
  <2>2. PICK g : KeptTo(entries, name, n - 1, g)
    BY <2>1
  <2> DEFINE top == IF entries[n].name = name THEN g[n - 1] ELSE Append(g[n - 1], entries[n])
             f == [k \in 0..n |-> IF k = n THEN top ELSE g[k]]
  <2>3. \A k \in 0..n : k # 0 => k - 1 \in 0..n - 1 /\ f[k - 1] = g[k - 1]
    BY <1>1
  <2>4. \A k \in 0..n - 1 : g[k] = IF k = 0 THEN <<>>
                                   ELSE IF entries[k].name = name THEN g[k - 1]
                                   ELSE Append(g[k - 1], entries[k])
    BY <2>2 DEF KeptTo
  <2>5. \A k \in 0..n : f[k] = IF k = 0 THEN <<>>
                               ELSE IF entries[k].name = name THEN f[k - 1]
                               ELSE Append(f[k - 1], entries[k])
    BY <1>3, <2>3, <2>4
  <2>6. KeptTo(entries, name, n, f)
    <3>1. f = [k \in 0..n |-> f[k]]
      OBVIOUS
    <3> HIDE DEF f
    <3>2. QED
      BY <2>5, <3>1 DEF KeptTo
  <2>7. QED
    BY <2>6
<1>4. QED
  BY <1>2, <1>3

Others(some, entries, name) ==
    \A i \in DOMAIN some : some[i].name # name /\ \E j \in DOMAIN entries : some[i] = entries[j]

LEMMA WithoutEntries ==
    ASSUME NEW entries \in Seq(EntryType), NEW name
    PROVE  /\ Without(entries, name) \in Seq(EntryType)
           /\ Len(Without(entries, name)) <= Len(entries)
           /\ Others(Without(entries, name), entries, name)
<1> DEFINE n == Len(entries)
           kept == CHOOSE f : KeptTo(entries, name, n, f)
           Good(k) == /\ kept[k] \in Seq(EntryType) /\ Len(kept[k]) <= k
                      /\ Others(kept[k], entries, name)
           T == {k \in Nat : k \in 0..n /\ ~Good(k)}
<1>1. n \in Nat
  OBVIOUS
<1>2. KeptTo(entries, name, n, kept)
  BY <1>1, KeptExists
<1>3. Without(entries, name) = kept[n]
  BY DEF Without, KeptTo
<1>4. \A k \in 0..n : kept[k] = IF k = 0 THEN <<>>
                                ELSE IF entries[k].name = name THEN kept[k - 1]
                                ELSE Append(kept[k - 1], entries[k])
  BY <1>2 DEF KeptTo
<1> HIDE DEF kept
<1>5. T = {}
  <2> SUFFICES ASSUME T # {}
               PROVE  FALSE
    OBVIOUS
  <2>1. PICK k \in T : \A m \in T : k <= m
    BY <1>1, NatLeast
  <2>2. CASE k = 0
    <3>1. kept[k] = <<>>
      BY <1>1, <1>4, <2>2
    <3>2. Good(k)
      BY <2>2, <3>1 DEF Others
    <3>3. QED
      BY <2>1, <3>2
  <2>3. CASE k # 0
    <3>1. k \in 1..n /\ k - 1 \in 0..n /\ k - 1 \notin T
      BY <1>1, <2>1, <2>3
    <3>2. Good(k - 1)
      BY <3>1
    <3>3. kept[k] = IF entries[k].name = name THEN kept[k - 1] ELSE Append(kept[k - 1], entries[k])
      BY <1>4, <2>3, <3>1
    <3> DEFINE one == kept[k - 1]
               more == Append(one, entries[k])
    <3>4. one \in Seq(EntryType) /\ Len(one) <= k - 1 /\ Others(one, entries, name)
      BY <3>2
    <3> HIDE DEF one
    <3>5. more \in Seq(EntryType) /\ Len(more) <= k
      BY <3>1, <3>4
    <3>6. entries[k].name # name => Others(more, entries, name)
      <4>1. SUFFICES ASSUME entries[k].name # name, NEW i \in DOMAIN more
                     PROVE  more[i].name # name /\ \E j \in DOMAIN entries : more[i] = entries[j]
        BY DEF Others
      <4>2. k \in DOMAIN entries
        BY <3>1
      <4>3. \/ i \in DOMAIN one /\ more[i] = one[i]
            \/ more[i] = entries[k]
        BY <3>4
      <4>4. QED
        BY <3>4, <4>1, <4>2, <4>3 DEF Others
    <3>7. Good(k)
      BY <3>1, <3>3, <3>4, <3>5, <3>6 DEF one
    <3>8. QED
      BY <2>1, <3>7
  <2>4. QED
    BY <2>2, <2>3
<1>6. Good(n)
  BY <1>1, <1>5
<1>7. QED
  BY <1>3, <1>6

\* A patch reaches the entries of its name and leaves the others alone.
LEMMA ErrorEntries ==
    ASSUME NEW entries \in Seq(EntryType), NEW name, NEW error \in Verdicts
    PROVE  /\ WithError(entries, name, error) \in Seq(EntryType)
           /\ Len(WithError(entries, name, error)) = Len(entries)
           /\ DOMAIN WithError(entries, name, error) = DOMAIN entries
           /\ \A i \in DOMAIN entries :
                /\ WithError(entries, name, error)[i].name = entries[i].name
                /\ WithError(entries, name, error)[i].error =
                     IF entries[i].name = name THEN error ELSE entries[i].error
<1> DEFINE E(e) == IF e.name = name THEN [e EXCEPT !.error = error] ELSE e
<1>1. \A e \in EntryType : E(e) \in EntryType /\ E(e).name = e.name
                           /\ E(e).error = IF e.name = name THEN error ELSE e.error
  BY DEF EntryType
<1>2. WithError(entries, name, error) = [i \in DOMAIN entries |-> E(entries[i])]
  BY DEF WithError
<1> HIDE DEF E
<1>3. QED
  BY <1>1, <1>2

LEMMA PctEntries ==
    ASSUME NEW entries \in Seq(EntryType), NEW name, NEW pct \in 0..100
    PROVE  /\ WithPct(entries, name, pct) \in Seq(EntryType)
           /\ Len(WithPct(entries, name, pct)) = Len(entries)
           /\ DOMAIN WithPct(entries, name, pct) = DOMAIN entries
           /\ \A i \in DOMAIN entries :
                /\ WithPct(entries, name, pct)[i].name = entries[i].name
                /\ WithPct(entries, name, pct)[i].error = entries[i].error
<1> DEFINE E(e) == IF e.name = name THEN [e EXCEPT !.pct = pct] ELSE e
<1>1. \A e \in EntryType : E(e) \in EntryType /\ E(e).name = e.name /\ E(e).error = e.error
  BY DEF EntryType
<1>2. WithPct(entries, name, pct) = [i \in DOMAIN entries |-> E(entries[i])]
  BY DEF WithPct
<1> HIDE DEF E
<1>3. QED
  BY <1>1, <1>2

(***************************************************************************)
(* The state of the page                                                   *)
(***************************************************************************)

StoredIds == ToSet(UploadIds)
FirstIds(n) == {UploadIds[i] : i \in 1..n}
BatchType == [files : Seq(AllFiles), stage : {"sent", "stored"}, pct : 0..99, id : StoredIds \cup {Null}]
Documented(value) == value \in Seq(DocType) /\ EachIdOnce(value)

\* The store gives ids out in their order.
StoreInv ==
    /\ Documented(store)
    /\ Len(FirstStore) <= Len(store)
    /\ ids(store) \subseteq ids(FirstStore) \cup FirstIds(Len(store) - Len(FirstStore))

BatchesInv ==
    /\ batches \in Seq(BatchType)
    /\ \A b \in DOMAIN batches : batches[b].stage = "stored" => batches[b].id \in StoredIds

\* Entries, and the removals that are due.
UploadsInv ==
    /\ uploads \in Seq(EntryType) /\ Len(uploads) <= 4
    /\ timers \subseteq [name : Names, id : StoredIds]
    /\ EveryBarIsMoving

\* What was read and what is shown. The demo's list is what its fixtures and its
\* uploads make it, no poll ever replaces it.
ListTyped ==
    /\ list.error \in ErrorCodes \cup {Null}
    /\ list.data # Null => Documented(list.data.documents)
    /\ \A request \in list.open :
         request.read # Null =>
           ~useDemoData /\ ~request.stale /\ Documented(request.read.documents)

\* The demo makes its ids up in their order and stores nothing.
AddedInv ==
    /\ added \subseteq StoredIds /\ IsFiniteSet(added)
    /\ useDemoData => added = FirstIds(Cardinality(added))
    /\ useDemoData => \A b \in DOMAIN batches : batches[b].stage = "sent"

\* The status of a demo document is never further than its progress allows.
InStep(doc) == isProcessing(doc.status) => Rank(doc.status) <= 3 + doc.progress \div 21

DocsInv ==
    /\ docs \in Seq(DocType)
    /\ ~useDemoData => EachIdOnce(docs) \/ inFlight
    /\ useDemoData => EachIdOnce(docs) /\ ids(docs) \subseteq demoIds \cup added
    /\ useDemoData => \A i \in DOMAIN docs : InStep(docs[i])
    /\ CompletedIsFull

PageInv ==
    StoreInv /\ BatchesInv /\ UploadsInv /\ ListInv /\ ListTyped /\ AddedInv /\ DocsInv

\* What was read last is later than what is shown, and neither is of the future.
OrderInv ==
    /\ changes \in Nat
    /\ useDemoData => changes = 0
    /\ list.data # Null => list.data.at \in 0..changes
    /\ \A request \in list.open :
         request.read # Null =>
           /\ request.read.at \in 0..changes
           /\ list.data # Null => request.read.at >= list.data.at

LEMMA StatusSet ==
    DocumentStatus = {"UPLOADED", "QUEUED", "PROCESSING", "OCR_PROCESSING", "CHUNKING",
                      "EMBEDDING", "INDEXING", "COMPLETED", "FAILED"}
BY DEF DocumentStatus, DOCUMENT_STATUSES, ToSet

\* A document that comes first, and the others moved on by one place.
LEMMA Prepended ==
    ASSUME NEW value \in Seq(DocType), NEW doc \in DocType
    PROVE  LET more == <<doc>> \o value
           IN  /\ more \in Seq(DocType) /\ Len(more) = Len(value) + 1
               /\ more[1] = doc
               /\ \A i \in DOMAIN value : i + 1 \in DOMAIN more /\ more[i + 1] = value[i]
               /\ ids(more) = {doc.id} \cup ids(value)
               /\ EachIdOnce(value) /\ doc.id \notin ids(value) => EachIdOnce(more)
<1> DEFINE more == <<doc>> \o value
<1>1. /\ more \in Seq(DocType) /\ Len(more) = Len(value) + 1
      /\ more[1] = doc
      /\ \A i \in 1..Len(value) : i + 1 \in 1..Len(more) /\ more[i + 1] = value[i]
      /\ \A k \in 1..Len(more) : k # 1 => k - 1 \in 1..Len(value) /\ more[k] = value[k - 1]
  OBVIOUS
<1> HIDE DEF more
<1>2. DOMAIN value = 1..Len(value) /\ DOMAIN more = 1..Len(more) /\ Len(value) \in Nat
  BY <1>1
<1>3. \A k \in DOMAIN more : k = 1 \/ (k - 1 \in DOMAIN value /\ more[k] = value[k - 1])
  BY <1>1, <1>2
<1>4. \A i \in DOMAIN value : i + 1 \in DOMAIN more /\ more[i + 1] = value[i]
  BY <1>1, <1>2
<1>5. ids(more) = {doc.id} \cup ids(value)
  <2>1. \A x : x \in ids(more) <=> \E k \in DOMAIN more : x = more[k].id
    BY DEF ids, ToSet
  <2>2. \A x : x \in ids(value) <=> \E k \in DOMAIN value : x = value[k].id
    BY DEF ids, ToSet
  <2>3. ASSUME NEW x \in ids(more)
        PROVE  x = doc.id \/ x \in ids(value)
    BY <1>1, <1>3, <2>1, <2>2
  <2>4. ASSUME NEW x \in ids(value)
        PROVE  x \in ids(more)
    BY <1>4, <2>1, <2>2
  <2>5. 1 \in DOMAIN more
    BY <1>1, <1>2
  <2>6. doc.id \in ids(more)
    BY <1>1, <2>1, <2>5
  <2>7. QED
    BY <2>3, <2>4, <2>6
<1>6. ASSUME EachIdOnce(value), doc.id \notin ids(value)
      PROVE  EachIdOnce(more)
  <2>1. \A k \in DOMAIN value : value[k].id # doc.id
    BY <1>6 DEF ids, ToSet
  <2>2. SUFFICES ASSUME NEW i \in DOMAIN more, NEW j \in DOMAIN more, more[i].id = more[j].id
                 PROVE  i = j
    BY DEF EachIdOnce
  <2>3. i \in Int /\ j \in Int
    BY <1>2
  <2>4. CASE i = 1
    BY <1>1, <1>3, <2>1, <2>2, <2>4
  <2>5. CASE j = 1
    BY <1>1, <1>3, <2>1, <2>2, <2>5
  <2>6. CASE i # 1 /\ j # 1
    <3>1. i - 1 = j - 1
      BY <1>3, <1>6, <2>2, <2>6 DEF EachIdOnce
    <3>2. QED
      BY <2>3, <3>1
  <2>7. QED
    BY <2>4, <2>5, <2>6
<1>7. QED
  BY <1>1, <1>4, <1>5, <1>6 DEF more

LEMMA IdsTyped ==
    /\ Ids = StoredIds \cup ids(FirstStore) \cup demoIds
    /\ \A id \in Ids, status \in DocumentStatus, progress \in 0..100 :
         Doc(id, status, progress) \in DocType /\ Doc(id, status, progress).id = id
         /\ Doc(id, status, progress).status = status
         /\ Doc(id, status, progress).progress = progress
    /\ \A n \in 1..Len(UploadIds) : UploadIds[n] \in StoredIds
    /\ \A n \in Nat : n <= Len(UploadIds) => FirstIds(n) \subseteq StoredIds
    /\ \A n \in Nat : n < Len(UploadIds) =>
         UploadIds[n + 1] \notin FirstIds(n) \cup ids(FirstStore) \cup demoIds
    /\ \A n \in Nat : FirstIds(n + 1) = FirstIds(n) \cup {UploadIds[n + 1]}
<1>1. Ids = StoredIds \cup ids(FirstStore) \cup demoIds
  BY DEF Ids, StoredIds
<1>2. ASSUME NEW id \in Ids, NEW status \in DocumentStatus, NEW progress \in 0..100
      PROVE  Doc(id, status, progress) \in DocType /\ Doc(id, status, progress).id = id
             /\ Doc(id, status, progress).status = status
             /\ Doc(id, status, progress).progress = progress
  BY DEF Doc, DocType
<1>3. UploadIds \in Seq(STRING) /\ DOMAIN UploadIds = 1..Len(UploadIds) /\ Len(UploadIds) \in Nat
  BY DocumentsAssumption
<1>4. \A n \in 1..Len(UploadIds) : UploadIds[n] \in StoredIds
  BY <1>3 DEF StoredIds, ToSet
<1>5. \A n \in Nat : n <= Len(UploadIds) => FirstIds(n) \subseteq StoredIds
  BY <1>3, <1>4 DEF FirstIds
<1>6. ASSUME NEW n \in Nat, n < Len(UploadIds)
      PROVE  UploadIds[n + 1] \notin FirstIds(n) \cup ids(FirstStore) \cup demoIds
  <2>1. n + 1 \in 1..Len(UploadIds)
    BY <1>3, <1>6
  <2>2. UploadIds[n + 1] \in StoredIds
    BY <1>4, <2>1
  <2>3. UploadIds[n + 1] \notin ids(FirstStore) \cup demoIds
    BY <2>2, IdsAssumption DEF StoredIds
  <2>4. \A i \in 1..n : i \in DOMAIN UploadIds /\ i # n + 1
    BY <1>3, <1>6
  <2>5. \A i \in 1..n : UploadIds[i] # UploadIds[n + 1]
    BY <1>3, <2>1, <2>4, IdsAssumption
  <2>6. QED
    BY <2>3, <2>5 DEF FirstIds
<1>7. ASSUME NEW n \in Nat
      PROVE  FirstIds(n + 1) = FirstIds(n) \cup {UploadIds[n + 1]}
  <2>1. \A i : i \in 1..n + 1 <=> i \in 1..n \/ i = n + 1
    OBVIOUS
  <2>2. QED
    BY <2>1, Zenon DEF FirstIds
<1>8. QED
  BY <1>1, <1>2, <1>4, <1>5, <1>6, <1>7

LEMMA DocIs ==
    ASSUME NEW id \in Ids, NEW status \in DocumentStatus, NEW progress \in 0..100
    PROVE  /\ Doc(id, status, progress) \in DocType /\ Doc(id, status, progress).id = id
           /\ Doc(id, status, progress).status = status
           /\ Doc(id, status, progress).progress = progress
BY DEF Doc, DocType

\* A step leaves the build alone, and the store to the API and its workers.
LEMMA BuildStays ==
    ASSUME [Next]_vars
    PROVE  useDemoData' = useDemoData
BY DEF Next, ListStep, ListRead, ListAnswered, ListFails, ListDemo, ListSettles, Retry, Poll,
       Tick, reload, UploadStep, handleFiles, UploadStored, UploadAnswered, UploadFails,
       UploadDemo, RemoveEntries, AttemptStarts, WorkerMoves, vars, clientVars

LEMMA StoreWriters ==
    ASSUME [Next]_vars
    PROVE  \/ UNCHANGED store
           \/ \E b \in DOMAIN batches : UploadStored(b)
           \/ \E i \in DOMAIN store : AttemptStarts(i)
           \/ \E i \in DOMAIN store, status \in Reported : WorkerMoves(i, status)
BY DEF Next, ListStep, ListRead, ListAnswered, ListFails, ListDemo, ListSettles, Retry, Poll,
       Tick, reload, UploadStep, handleFiles, UploadAnswered, UploadFails,
       UploadDemo, RemoveEntries, vars

LEMMA StoreInitially == Init => StoreInv
<1> SUFFICES ASSUME Init
             PROVE  StoreInv
  OBVIOUS
<1>1. FirstStore \in Seq(DocType)
  <2> DEFINE Given == [id : STRING, status : DocumentStatus, progress : 0..100]
  <2>1. FirstStore \in Seq(Given)
    BY DocumentsAssumption
  <2>2. \A doc \in Given : doc.id \in Ids => doc \in DocType
    BY DEF DocType
  <2> HIDE DEF Given
  <2>3. \A i \in 1..Len(FirstStore) : FirstStore[i] \in Given /\ FirstStore[i].id \in ids(FirstStore)
    BY <2>1 DEF ids, ToSet
  <2>4. ids(FirstStore) \subseteq Ids
    BY IdsTyped
  <2>5. QED
    BY <2>1, <2>2, <2>3, <2>4
<1>2. QED
  BY <1>1, IdsAssumption DEF Init, StoreInv, Documented

LEMMA StoreStep ==
    ASSUME StoreInv, [Next]_vars
    PROVE  StoreInv'
<1>1. CASE UNCHANGED store
  BY <1>1 DEF StoreInv, Documented, EachIdOnce, ids
<1>2. ASSUME NEW b \in DOMAIN batches, UploadStored(b)
      PROVE  StoreInv'
  <2> DEFINE given == Len(store) - Len(FirstStore)
             id == UploadIds[given + 1]
             doc == Doc(id, "QUEUED", 5)
  <2>1. given \in Nat /\ Len(UploadIds) \in Nat /\ Len(store) \in Nat /\ Len(FirstStore) \in Nat
    BY DocumentsAssumption DEF StoreInv, Documented
  <2>2. given < Len(UploadIds) /\ store' = <<doc>> \o store
    BY <1>2 DEF UploadStored
  <2>3. id \in StoredIds /\ id \notin ids(store)
    BY <2>1, <2>2, IdsTyped DEF StoreInv
  <2> HIDE DEF id
  <2>4. doc \in DocType /\ doc.id = id
    <3>1. "QUEUED" \in DocumentStatus /\ 5 \in 0..100 /\ id \in Ids
      <4>1. "QUEUED" \in DocumentStatus
        BY StatusSet
      <4>2. id \in Ids
        BY <2>3, IdsTyped
      <4>3. QED
        BY <4>1, <4>2
    <3>2. QED
      BY <3>1, IdsTyped
  <2> HIDE DEF doc
  <2>5. /\ store' \in Seq(DocType) /\ Len(store') = Len(store) + 1
        /\ ids(store') = {id} \cup ids(store) /\ EachIdOnce(store')
    BY <2>2, <2>3, <2>4, Prepended DEF StoreInv, Documented
  <2>6. Len(store') - Len(FirstStore) = given + 1
    BY <2>1, <2>5
  <2> HIDE DEF given
  <2>7. FirstIds(given + 1) = FirstIds(given) \cup {id}
    BY <2>1, IdsTyped DEF id
  <2>8. QED
    BY <2>1, <2>5, <2>6, <2>7 DEF StoreInv, Documented, given
\* A worker writes one document.
<1>3. ASSUME NEW i \in DOMAIN store, NEW status \in DocumentStatus, NEW progress \in 0..100,
             store' = [store EXCEPT ![i] = [store[i] EXCEPT !.status = status,
                                                            !.progress = progress]]
      PROVE  StoreInv'
  <2> DEFINE doc == [store[i] EXCEPT !.status = status, !.progress = progress]
  <2>1. store' = [store EXCEPT ![i] = doc]
    BY <1>3
  <2>2. doc \in DocType /\ doc.id = store[i].id
    <3>1. store[i] \in DocType
      BY DEF StoreInv, Documented
    <3>2. QED
      BY <3>1 DEF DocType
  <2> HIDE DEF doc
  <2>3. /\ store' \in Seq(DocType) /\ Len(store') = Len(store)
        /\ \A k \in DOMAIN store : store'[k].id = store[k].id
    BY <2>1, <2>2 DEF StoreInv, Documented
  <2>4. DOMAIN store' = DOMAIN store
    BY <2>3 DEF StoreInv, Documented
  <2>5. EachIdOnce(store')
    BY <2>3, <2>4 DEF EachIdOnce, StoreInv, Documented
  <2>6. ids(store') = ids(store)
    BY <2>3, <2>4 DEF ids, ToSet
  <2>7. QED
    BY <2>3, <2>5, <2>6 DEF StoreInv, Documented
<1>4. ASSUME NEW i \in DOMAIN store, AttemptStarts(i)
      PROVE  StoreInv'
  <2>1. store[i] \in DocType /\ "PROCESSING" \in DocumentStatus
    BY StatusSet DEF StoreInv, Documented
  <2>2. store' = [store EXCEPT ![i] = [store[i] EXCEPT !.status = "PROCESSING",
                                                       !.progress = store[i].progress]]
    BY <1>4, <2>1 DEF AttemptStarts, DocType
  <2>3. store[i].progress \in 0..100
    BY <2>1 DEF DocType
  <2>4. QED
    BY <1>3, <2>1, <2>2, <2>3
<1>5. ASSUME NEW i \in DOMAIN store, NEW status \in Reported, WorkerMoves(i, status)
      PROVE  StoreInv'
  <2> DEFINE p == IF status = "COMPLETED" THEN 100 ELSE store[i].progress
  <2>1. store[i] \in DocType /\ status \in DocumentStatus
    BY DocumentsAssumption DEF StoreInv, Documented
  <2>2. store' = [store EXCEPT ![i] = [store[i] EXCEPT !.status = status, !.progress = p]]
    BY <1>5 DEF WorkerMoves
  <2>3. p \in 0..100
    BY <2>1 DEF DocType
  <2> HIDE DEF p
  <2>4. QED
    BY <1>3, <2>1, <2>2, <2>3
<1>6. QED
  BY <1>1, <1>2, <1>4, <1>5, StoreWriters

(***************************************************************************)
(* The dropzone                                                            *)
(***************************************************************************)

\* What keeps a bar of that name moving.
Runs(some, b, name) == some[b].files # <<>> /\ Head(some[b].files).name = name
Due(some, name) == \E timer \in some : timer.name = name
Moves(entries, some, due) ==
    \A i \in DOMAIN entries :
      entries[i].error = "" =>
        \/ \E b \in DOMAIN some : Runs(some, b, entries[i].name)
        \/ Due(due, entries[i].name)

LEMMA BarsAre ==
    /\ EveryBarIsMoving = Moves(uploads, batches, timers)
    /\ EveryBarIsMoving' = Moves(uploads', batches', timers')
BY DEF EveryBarIsMoving, Moves, Runs, Due, Uploading, CurrentName

LEMMA BatchTyped ==
    ASSUME NEW files \in Seq(AllFiles)
    PROVE  Batch(files) \in BatchType /\ Batch(files).stage = "sent" /\ Batch(files).files = files
BY DEF Batch, BatchType

\* The loop goes on: what is listed then is covered if what was listed is, by the
\* other uploads and the removals that are due.
LEMMA Continued ==
    ASSUME BatchesInv, NEW b \in DOMAIN batches, Uploading(b),
           NEW entries \in Seq(EntryType), Continue(b, entries),
           \A j \in DOMAIN entries :
             entries[j].error = "" =>
               \/ \E c \in DOMAIN batches : c # b /\ Runs(batches, c, entries[j].name)
               \/ Due(timers', entries[j].name)
    PROVE  /\ BatchesInv'
           /\ uploads' \in Seq(EntryType) /\ Len(uploads') <= 4
           /\ EveryBarIsMoving'
<1> DEFINE rest == Tail(batches[b].files)
<1>1. batches[b] \in BatchType /\ batches[b].files \in Seq(AllFiles)
  <2>1. batches[b] \in BatchType
    BY ElementsOf DEF BatchesInv
  <2>2. QED
    BY <2>1 DEF BatchType
<1>2. rest \in Seq(AllFiles)
  <2> DEFINE own == batches[b].files
  <2>1. own \in Seq(AllFiles) /\ own # <<>>
    BY <1>1 DEF Uploading
  <2> HIDE DEF own
  <2>2. Tail(own) \in Seq(AllFiles)
    BY <2>1, HeadTailProperties
  <2>3. QED
    BY <2>2 DEF own
<1>3. uploads' = Listed(entries, rest) /\ batches' = [batches EXCEPT ![b] = Batch(Left(rest))]
  BY DEF Continue
<1> HIDE DEF rest
<1>4. Left(rest) \in Seq(AllFiles)
  BY <1>2, MetAndLeft
<1>5. /\ Batch(Left(rest)) \in BatchType /\ Batch(Left(rest)).stage = "sent"
      /\ Batch(Left(rest)).files = Left(rest)
  BY <1>4, BatchTyped
<1>6. BatchesInv'
  <2> DEFINE next == Batch(Left(rest))
  <2>1. next \in BatchType /\ next.stage = "sent"
    BY <1>5
  <2> HIDE DEF next
  <2>2. batches' = [batches EXCEPT ![b] = next]
    BY <1>3 DEF next
  <2>3. batches' \in Seq(BatchType) /\ DOMAIN batches' = DOMAIN batches
        /\ \A c \in DOMAIN batches : batches'[c] = IF c = b THEN next ELSE batches[c]
    BY <2>1, <2>2, ElementsOf DEF BatchesInv
  <2>4. \A c \in DOMAIN batches : batches'[c] = batches[c] \/ batches'[c].stage # "stored"
    BY <2>1, <2>3
  <2>5. QED
    BY <2>3, <2>4 DEF BatchesInv
<1>7. uploads' \in Seq(EntryType) /\ Len(uploads') <= 4
      /\ \A i \in DOMAIN uploads' : NewOrOld(uploads'[i], entries, rest)
  BY <1>2, <1>3, ListedEntries
<1>8. ASSUME NEW i \in DOMAIN uploads', uploads'[i].error = ""
      PROVE  \/ \E c \in DOMAIN batches' : Runs(batches', c, uploads'[i].name)
             \/ Due(timers', uploads'[i].name)
  <2>1. CASE \E j \in DOMAIN entries : uploads'[i] = entries[j]
    <3>1. CASE \E c \in DOMAIN batches : c # b /\ Runs(batches, c, uploads'[i].name)
      <4>1. PICK c \in DOMAIN batches : c # b /\ Runs(batches, c, uploads'[i].name)
        BY <3>1
      <4>2. c \in DOMAIN batches' /\ batches'[c] = batches[c]
        BY <1>3, <4>1
      <4>3. QED
        BY <4>1, <4>2 DEF Runs
    <3>2. QED
      BY <1>8, <2>1, <3>1
  <2>2. CASE Left(rest) # <<>> /\ Head(Left(rest)).name = uploads'[i].name
    <3>1. b \in DOMAIN batches' /\ batches'[b].files = Left(rest)
      BY <1>3, <1>5 DEF BatchesInv
    <3>2. Runs(batches', b, uploads'[i].name)
      BY <2>2, <3>1 DEF Runs
    <3>3. QED
      BY <3>1, <3>2
  <2>3. QED
    BY <1>7, <1>8, <2>1, <2>2 DEF NewOrOld
<1>9. QED
  BY <1>6, <1>7, <1>8, BarsAre DEF Moves

LEMMA UploadsInitially == Init => BatchesInv /\ UploadsInv
BY DEF Init, BatchesInv, UploadsInv, EveryBarIsMoving, Uploading

DropInv == BatchesInv /\ UploadsInv

\* What one entry per running upload or due removal looks like before a step.
LEMMA BarsBefore ==
    ASSUME UploadsInv
    PROVE  /\ Moves(uploads, batches, timers)
           /\ \A file \in AllFiles : file.name \in Names
BY BarsAre, FilesTyped DEF UploadsInv

LEMMA DropStep ==
    ASSUME DropInv, NEW files \in Drops, handleFiles(files)
    PROVE  DropInv'
<1>1. files \in Seq(AllFiles)
  BY FilesTyped
<1> DEFINE left == Left(files)
           batch == Batch(left)
<1>2. left \in Seq(AllFiles)
  BY <1>1, MetAndLeft
<1>3. batch \in BatchType /\ batch.stage = "sent" /\ batch.files = left
  BY <1>2, BatchTyped
<1>4. batches' = Append(batches, batch) /\ uploads' = Listed(uploads, files) /\ timers' = timers
  BY DEF handleFiles
<1> HIDE DEF left, batch
<1>5. batches \in Seq(BatchType) /\ uploads \in Seq(EntryType)
  BY DEF DropInv, BatchesInv, UploadsInv
<1>6. /\ batches' \in Seq(BatchType) /\ Len(batches) + 1 \in DOMAIN batches'
      /\ batches'[Len(batches) + 1] = batch
      /\ \A b \in DOMAIN batches : b \in DOMAIN batches' /\ batches'[b] = batches[b]
      /\ \A b \in DOMAIN batches' : b \in DOMAIN batches \/ batches'[b] = batch
  BY <1>3, <1>4, <1>5
<1>7. BatchesInv'
  BY <1>3, <1>6 DEF DropInv, BatchesInv
<1>8. uploads' \in Seq(EntryType) /\ Len(uploads') <= 4
      /\ \A i \in DOMAIN uploads' : NewOrOld(uploads'[i], uploads, files)
  BY <1>1, <1>4, <1>5, ListedEntries
<1>9. ASSUME NEW i \in DOMAIN uploads', uploads'[i].error = ""
      PROVE  \/ \E c \in DOMAIN batches' : Runs(batches', c, uploads'[i].name)
             \/ Due(timers', uploads'[i].name)
  <2>1. CASE \E j \in DOMAIN uploads : uploads'[i] = uploads[j]
    <3>1. \/ \E c \in DOMAIN batches : Runs(batches, c, uploads'[i].name)
          \/ Due(timers, uploads'[i].name)
      BY <1>9, <2>1, BarsBefore DEF DropInv, Moves
    <3>2. QED
      BY <1>4, <1>6, <3>1 DEF Runs
  <2>2. CASE left # <<>> /\ Head(left).name = uploads'[i].name
    <3>1. Runs(batches', Len(batches) + 1, uploads'[i].name)
      BY <1>3, <1>6, <2>2 DEF Runs
    <3>2. QED
      BY <1>6, <3>1
  <2>3. QED
    BY <1>8, <1>9, <2>1, <2>2 DEF NewOrOld, left
<1>10. QED
  BY <1>4, <1>7, <1>8, <1>9, BarsAre DEF DropInv, UploadsInv, Moves

\* An upload that ended well leaves a removal that is due.
LEMMA UploadedStep ==
    ASSUME DropInv, NEW b \in DOMAIN batches, Uploading(b), NEW doc, doc.id \in StoredIds,
           NEW entries \in Seq(EntryType), Uploaded(b, doc, entries),
           DOMAIN entries = DOMAIN uploads,
           \A i \in DOMAIN uploads :
             entries[i].name = uploads[i].name /\ entries[i].error = uploads[i].error
    PROVE  DropInv'
<1> DEFINE name == CurrentName(b)
           timer == [name |-> name, id |-> doc.id]
<1>1. timers' = timers \cup {timer} /\ Continue(b, entries)
  BY DEF Uploaded
<1>2. name \in Names
  <2>1. batches[b].files \in Seq(AllFiles)
    <3>1. batches[b] \in BatchType
      BY ElementsOf DEF DropInv, BatchesInv
    <3>2. QED
      BY <3>1 DEF BatchType
  <2>2. Head(batches[b].files) \in AllFiles
    BY <2>1, HeadTailProperties DEF Uploading
  <2>3. QED
    BY <2>2, FilesTyped DEF CurrentName
<1>3. timer \in [name : Names, id : StoredIds] /\ timer.name = name
  BY <1>2
<1> HIDE DEF name, timer
<1>4. Due(timers', name) /\ \A other : Due(timers, other) => Due(timers', other)
  BY <1>1, <1>3 DEF Due
<1>5. ASSUME NEW j \in DOMAIN entries, entries[j].error = ""
      PROVE  \/ \E c \in DOMAIN batches : c # b /\ Runs(batches, c, entries[j].name)
             \/ Due(timers', entries[j].name)
  <2>1. \/ \E c \in DOMAIN batches : Runs(batches, c, entries[j].name)
        \/ Due(timers, entries[j].name)
    BY <1>5, BarsBefore DEF DropInv, Moves
  <2>2. Runs(batches, b, entries[j].name) => entries[j].name = name
    BY DEF Runs, name, CurrentName
  <2>3. QED
    BY <1>4, <2>1, <2>2
<1>6. BatchesInv' /\ uploads' \in Seq(EntryType) /\ Len(uploads') <= 4 /\ EveryBarIsMoving'
  BY <1>1, <1>5, Continued DEF DropInv
<1>7. QED
  BY <1>1, <1>3, <1>6 DEF DropInv, UploadsInv

LEMMA FailedStep ==
    ASSUME DropInv, NEW b \in DOMAIN batches, UploadFails(b)
    PROVE  DropInv'
<1> DEFINE name == CurrentName(b)
           entries == WithError(uploads, name, "upload failed")
<1>1. timers' = timers /\ Continue(b, entries) /\ Uploading(b)
  BY DEF UploadFails
<1>2. "upload failed" \in Verdicts
  BY DEF Verdicts
<1>3. uploads \in Seq(EntryType)
  BY DEF DropInv, UploadsInv
<1>4. /\ entries \in Seq(EntryType) /\ DOMAIN entries = DOMAIN uploads
      /\ \A i \in DOMAIN uploads :
           /\ entries[i].name = uploads[i].name
           /\ entries[i].error = IF uploads[i].name = name THEN "upload failed" ELSE uploads[i].error
  <2> DEFINE why == "upload failed"
  <2>1. why \in Verdicts
    BY <1>2
  <2>2. entries = WithError(uploads, name, why)
    OBVIOUS
  <2> HIDE DEF why, name, entries
  <2>3. /\ entries \in Seq(EntryType) /\ DOMAIN entries = DOMAIN uploads
        /\ \A i \in DOMAIN uploads :
             /\ entries[i].name = uploads[i].name
             /\ entries[i].error = IF uploads[i].name = name THEN why ELSE uploads[i].error
    BY <1>3, <2>1, <2>2, ErrorEntries
  <2>4. QED
    BY <2>3 DEF why
<1> HIDE DEF entries, name
<1>5. ASSUME NEW j \in DOMAIN entries, entries[j].error = ""
      PROVE  \/ \E c \in DOMAIN batches : c # b /\ Runs(batches, c, entries[j].name)
             \/ Due(timers', entries[j].name)
  <2>1. entries[j].name = uploads[j].name /\ uploads[j].name # name /\ uploads[j].error = ""
    BY <1>4, <1>5
  <2>2. \/ \E c \in DOMAIN batches : Runs(batches, c, entries[j].name)
        \/ Due(timers, entries[j].name)
    BY <1>4, <2>1, BarsBefore DEF DropInv, Moves
  <2>3. Runs(batches, b, entries[j].name) => entries[j].name = name
    BY DEF Runs, name, CurrentName
  <2>4. QED
    BY <1>1, <2>1, <2>2, <2>3
<1>6. BatchesInv' /\ uploads' \in Seq(EntryType) /\ Len(uploads') <= 4 /\ EveryBarIsMoving'
  BY <1>1, <1>4, <1>5, Continued DEF DropInv
<1>7. QED
  BY <1>1, <1>6 DEF DropInv, UploadsInv

\* An upload's answer brings the document that was stored; in demo mode the next
\* of the ids is made up.
LEMMA AnsweredDoc ==
    ASSUME BatchesInv, NEW b \in DOMAIN batches, UploadAnswered(b)
    PROVE  LET doc == Doc(batches[b].id, "QUEUED", 5)
           IN  doc \in DocType /\ doc.id \in StoredIds /\ doc.id = batches[b].id
               /\ doc.status = "QUEUED" /\ doc.progress = 5
<1> DEFINE id == batches[b].id
<1>1. id \in StoredIds
  BY DEF BatchesInv, UploadAnswered
<1> HIDE DEF id
<1>2. "QUEUED" \in DocumentStatus /\ 5 \in 0..100 /\ id \in Ids
  <2>1. "QUEUED" \in DocumentStatus
    BY StatusSet
  <2>2. id \in Ids
    BY <1>1, IdsTyped
  <2>3. QED
    BY <2>1, <2>2
<1>3. Doc(id, "QUEUED", 5) \in DocType /\ Doc(id, "QUEUED", 5).id = id
      /\ Doc(id, "QUEUED", 5).status = "QUEUED" /\ Doc(id, "QUEUED", 5).progress = 5
  BY <1>2, IdsTyped
<1>4. QED
  BY <1>1, <1>3 DEF id

LEMMA DemoDoc ==
    ASSUME AddedInv, Cardinality(added) < Len(UploadIds)
    PROVE  LET doc == Doc(UploadIds[Cardinality(added) + 1], "QUEUED", 5)
           IN  doc \in DocType /\ doc.id \in StoredIds
               /\ doc.id = UploadIds[Cardinality(added) + 1]
               /\ doc.status = "QUEUED" /\ doc.progress = 5
<1> DEFINE n == Cardinality(added)
           id == UploadIds[n + 1]
<1>1. n \in Nat
  BY FS_CardinalityType DEF AddedInv
<1>2. Len(UploadIds) \in Nat
  BY DocumentsAssumption
<1>3. id \in StoredIds
  BY <1>1, <1>2, IdsTyped
<1> HIDE DEF id
<1>4. "QUEUED" \in DocumentStatus /\ 5 \in 0..100 /\ id \in Ids
  <2>1. "QUEUED" \in DocumentStatus
    BY StatusSet
  <2>2. id \in Ids
    BY <1>3, IdsTyped
  <2>3. QED
    BY <2>1, <2>2
<1>5. Doc(id, "QUEUED", 5) \in DocType /\ Doc(id, "QUEUED", 5).id = id
      /\ Doc(id, "QUEUED", 5).status = "QUEUED" /\ Doc(id, "QUEUED", 5).progress = 5
  BY <1>4, IdsTyped
<1>6. QED
  BY <1>3, <1>5 DEF id

LEMMA AnsweredStep ==
    ASSUME DropInv, NEW b \in DOMAIN batches, UploadAnswered(b)
    PROVE  DropInv'
<1> DEFINE doc == Doc(batches[b].id, "QUEUED", 5)
<1>1. doc.id \in StoredIds
  BY AnsweredDoc DEF DropInv
<1>2. Uploading(b) /\ Uploaded(b, doc, uploads)
  BY DEF UploadAnswered
<1> HIDE DEF doc
<1>3. QED
  BY <1>1, <1>2, UploadedStep DEF DropInv, UploadsInv

LEMMA StoredStep ==
    ASSUME DropInv, StoreInv, NEW b \in DOMAIN batches, UploadStored(b)
    PROVE  DropInv'
<1> DEFINE given == Len(store) - Len(FirstStore)
           id == UploadIds[given + 1]
<1>1. id \in StoredIds
  <2>1. given \in Nat /\ Len(UploadIds) \in Nat
    BY DocumentsAssumption DEF StoreInv, Documented
  <2>2. given < Len(UploadIds)
    BY DEF UploadStored
  <2>3. QED
    BY <2>1, <2>2, IdsTyped
<1>2. batches' = [batches EXCEPT ![b].stage = "stored", ![b].id = id]
      /\ uploads' = uploads /\ timers' = timers
  BY DEF UploadStored
<1> HIDE DEF id
<1> DEFINE next == [batches[b] EXCEPT !.stage = "stored", !.id = id]
<1>3. batches' = [batches EXCEPT ![b] = next]
  BY <1>2
<1>4. batches[b] \in BatchType
  BY ElementsOf DEF DropInv, BatchesInv
<1>5. next \in BatchType /\ next.id = id /\ next.files = batches[b].files
  BY <1>1, <1>4 DEF BatchType
<1> HIDE DEF next
<1>6. /\ batches' \in Seq(BatchType) /\ DOMAIN batches' = DOMAIN batches
      /\ \A c \in DOMAIN batches : batches'[c] = IF c = b THEN next ELSE batches[c]
  BY <1>3, <1>5, ElementsOf DEF DropInv, BatchesInv
<1>7. BatchesInv'
  BY <1>1, <1>5, <1>6 DEF DropInv, BatchesInv
<1>8. Moves(uploads', batches', timers')
  <2>1. \A name : \A c \in DOMAIN batches : Runs(batches, c, name) => Runs(batches', c, name)
    BY <1>5, <1>6 DEF Runs
  <2>2. QED
    BY <1>2, <1>6, <2>1, BarsBefore DEF Moves, DropInv
<1>9. QED
  BY <1>2, <1>7, <1>8, BarsAre DEF DropInv, UploadsInv

LEMMA SimulatedStep ==
    ASSUME DropInv, AddedInv, NEW b \in DOMAIN batches, UploadDemo(b)
    PROVE  DropInv'
<1> DEFINE pct == IF batches[b].pct + 20 > 100 THEN 100 ELSE batches[b].pct + 20
           name == CurrentName(b)
           entries == WithPct(uploads, name, pct)
<1>1. batches[b] \in BatchType
  BY ElementsOf DEF DropInv, BatchesInv
<1>2. pct \in 0..100
  <2>1. batches[b].pct \in 0..99
    BY <1>1 DEF BatchType
  <2>2. CASE batches[b].pct + 20 > 100
    BY <2>2
  <2>3. CASE ~(batches[b].pct + 20 > 100)
    BY <2>1, <2>3
  <2>4. QED
    BY <2>2, <2>3
<1>3. /\ Uploading(b)
      /\ \/ /\ Cardinality(added) < Len(UploadIds)
            /\ Uploaded(b, Doc(UploadIds[Cardinality(added) + 1], "QUEUED", 5), entries)
         \/ /\ pct < 100 /\ batches' = [batches EXCEPT ![b].pct = pct]
            /\ uploads' = entries /\ timers' = timers
  BY DEF UploadDemo
<1> HIDE DEF pct, name
<1>4. uploads \in Seq(EntryType)
  BY DEF DropInv, UploadsInv
<1>5. /\ entries \in Seq(EntryType) /\ Len(entries) = Len(uploads) /\ DOMAIN entries = DOMAIN uploads
      /\ \A i \in DOMAIN uploads :
           entries[i].name = uploads[i].name /\ entries[i].error = uploads[i].error
  BY <1>2, <1>4, PctEntries
<1> HIDE DEF entries
<1>6. CASE pct < 100 /\ batches' = [batches EXCEPT ![b].pct = pct]
           /\ uploads' = entries /\ timers' = timers
  <2> DEFINE next == [batches[b] EXCEPT !.pct = pct]
  <2>1. batches' = [batches EXCEPT ![b] = next]
    BY <1>6
  <2>2. next \in BatchType /\ next.files = batches[b].files
        /\ next.stage = batches[b].stage /\ next.id = batches[b].id
    <3>1. pct \in 0..99
      BY <1>2, <1>6
    <3>2. next = [files |-> batches[b].files, stage |-> batches[b].stage, pct |-> pct,
                  id |-> batches[b].id]
      BY <1>1 DEF BatchType
    <3>3. /\ batches[b].files \in Seq(AllFiles) /\ batches[b].stage \in {"sent", "stored"}
          /\ batches[b].id \in StoredIds \cup {Null}
      BY <1>1 DEF BatchType
    <3> HIDE DEF next
    <3>4. QED
      BY <3>1, <3>2, <3>3 DEF BatchType
  <2> HIDE DEF next
  <2>3. /\ batches' \in Seq(BatchType) /\ DOMAIN batches' = DOMAIN batches
        /\ \A c \in DOMAIN batches : batches'[c] = IF c = b THEN next ELSE batches[c]
    BY <2>1, <2>2, ElementsOf DEF DropInv, BatchesInv
  <2>4. BatchesInv'
    BY <2>2, <2>3 DEF DropInv, BatchesInv
  <2>5. Moves(uploads', batches', timers')
    <3>1. \A other : \A c \in DOMAIN batches : Runs(batches, c, other) => Runs(batches', c, other)
      BY <2>2, <2>3 DEF Runs
    <3>2. QED
      BY <1>5, <1>6, <2>3, <3>1, BarsBefore DEF Moves, DropInv
  <2>6. QED
    BY <1>5, <1>6, <2>4, <2>5, BarsAre DEF DropInv, UploadsInv
<1>7. CASE /\ Cardinality(added) < Len(UploadIds)
           /\ Uploaded(b, Doc(UploadIds[Cardinality(added) + 1], "QUEUED", 5), entries)
  <2> DEFINE doc == Doc(UploadIds[Cardinality(added) + 1], "QUEUED", 5)
  <2>1. doc.id \in StoredIds
    BY <1>7, DemoDoc
  <2>2. Uploaded(b, doc, entries)
    BY <1>7
  <2> HIDE DEF doc
  <2>3. QED
    BY <1>3, <1>5, <2>1, <2>2, UploadedStep
<1>8. QED
  BY <1>3, <1>6, <1>7

LEMMA RemovalStep ==
    ASSUME DropInv, NEW timer \in timers, RemoveEntries(timer)
    PROVE  DropInv'
<1>1. uploads' = Without(uploads, timer.name) /\ timers' = timers \ {timer} /\ batches' = batches
  BY DEF RemoveEntries
<1>2. uploads \in Seq(EntryType) /\ Len(uploads) <= 4
  BY DEF DropInv, UploadsInv
<1>3. uploads' \in Seq(EntryType) /\ Len(uploads') <= Len(uploads) /\ Others(uploads', uploads, timer.name)
  BY <1>1, <1>2, WithoutEntries
<1>4. Len(uploads') <= 4
  BY <1>2, <1>3
<1>5. Moves(uploads', batches', timers')
  <2>1. SUFFICES ASSUME NEW i \in DOMAIN uploads', uploads'[i].error = ""
                 PROVE  \/ \E b \in DOMAIN batches' : Runs(batches', b, uploads'[i].name)
                        \/ Due(timers', uploads'[i].name)
    BY DEF Moves
  <2>2. PICK j \in DOMAIN uploads : uploads'[i] = uploads[j]
    BY <1>3 DEF Others
  <2>3. uploads'[i].name # timer.name
    BY <1>3 DEF Others
  <2>4. \/ \E b \in DOMAIN batches : Runs(batches, b, uploads'[i].name)
        \/ Due(timers, uploads'[i].name)
    BY <2>1, <2>2, BarsBefore DEF DropInv, Moves
  <2>5. QED
    BY <1>1, <2>3, <2>4 DEF Due
<1>6. QED
  BY <1>1, <1>3, <1>4, <1>5, BarsAre DEF DropInv, UploadsInv, BatchesInv

\* Each other action leaves the dropzone alone.
LEMMA DropzoneStep ==
    ASSUME DropInv, StoreInv, AddedInv, [Next]_vars
    PROVE  DropInv'
<1>1. \/ UNCHANGED <<uploads, batches, timers>>
      \/ UploadStep
  BY DEF Next, ListStep, ListRead, ListAnswered, ListFails, ListDemo, ListSettles, Retry, Poll,
         Tick, reload, AttemptStarts, WorkerMoves, vars, pageVars
<1>2. CASE UNCHANGED <<uploads, batches, timers>>
  BY <1>2, BarsAre DEF DropInv, UploadsInv, BatchesInv
<1>3. CASE UploadStep
  BY <1>3, DropStep, StoredStep, AnsweredStep, FailedStep, SimulatedStep, RemovalStep
     DEF UploadStep
<1>4. QED
  BY <1>1, <1>2, <1>3

LEMMA AddedInitially == Init => AddedInv
<1>1. FirstIds(0) = {}
  BY DEF FirstIds
<1>2. Cardinality({}) = 0 /\ IsFiniteSet({})
  BY FS_EmptySet
<1>3. QED
  BY <1>1, <1>2 DEF Init, AddedInv

\* The next id is new, and after it as many have been made up as the set holds.
LEMMA NextIsNew ==
    ASSUME AddedInv, useDemoData, Cardinality(added) < Len(UploadIds)
    PROVE  LET id == UploadIds[Cardinality(added) + 1]
           IN  /\ id \notin added \cup demoIds
               /\ added \cup {id} = FirstIds(Cardinality(added \cup {id}))
<1> DEFINE n == Cardinality(added)
           id == UploadIds[n + 1]
<1>1. n \in Nat /\ IsFiniteSet(added) /\ added = FirstIds(n)
  BY FS_CardinalityType DEF AddedInv
<1>2. id \notin added \cup demoIds
  BY <1>1, IdsTyped
<1>3. Cardinality(added \cup {id}) = n + 1
  BY <1>1, <1>2, FS_AddElement
<1>4. FirstIds(n + 1) = added \cup {id}
  BY <1>1, IdsTyped
<1>5. QED
  BY <1>2, <1>3, <1>4

\* Only an upload to the API is ever stored.
LEMMA SentInDemo ==
    ASSUME AddedInv, BatchesInv, [Next]_vars, useDemoData
    PROVE  \A b \in DOMAIN batches' : batches'[b].stage = "sent"
<1>1. batches \in Seq(BatchType) /\ \A b \in DOMAIN batches : batches[b].stage = "sent"
  BY DEF BatchesInv, AddedInv
<1>2. \/ UNCHANGED batches
      \/ \E files \in Drops : batches' = Append(batches, Batch(Left(files)))
      \/ \E b \in DOMAIN batches :
           \/ batches' = [batches EXCEPT ![b] = Batch(Left(Tail(batches[b].files)))]
           \/ \E pct : batches' = [batches EXCEPT ![b].pct = pct]
  BY DEF Next, ListStep, ListRead, ListAnswered, ListFails, ListDemo, ListSettles, Retry, Poll,
         Tick, reload, AttemptStarts, WorkerMoves, vars, pageVars, UploadStep, handleFiles, UploadStored,
         UploadAnswered, UploadFails, UploadDemo, Uploaded, Continue, RemoveEntries
<1>3. \A files : Batch(files).stage = "sent"
  BY DEF Batch
<1>4. ASSUME NEW files \in Drops, batches' = Append(batches, Batch(Left(files)))
      PROVE  \A b \in DOMAIN batches' : batches'[b].stage = "sent"
  <2> DEFINE new == Batch(Left(files))
  <2>1. new.stage = "sent" /\ batches' = Append(batches, new)
    BY <1>3, <1>4
  <2> HIDE DEF new
  <2>2. QED
    BY <1>1, <2>1
<1>5. ASSUME NEW b \in DOMAIN batches, NEW files, batches' = [batches EXCEPT ![b] = Batch(files)]
      PROVE  \A c \in DOMAIN batches' : batches'[c].stage = "sent"
  <2> DEFINE new == Batch(files)
  <2>1. new.stage = "sent" /\ batches' = [batches EXCEPT ![b] = new]
    BY <1>3, <1>5
  <2> HIDE DEF new
  <2>2. QED
    BY <1>1, <2>1
<1>6. ASSUME NEW b \in DOMAIN batches, NEW pct, batches' = [batches EXCEPT ![b].pct = pct]
      PROVE  \A c \in DOMAIN batches' : batches'[c].stage = "sent"
  <2>1. DOMAIN batches' = DOMAIN batches
    BY <1>6
  <2>2. batches[b] \in BatchType
    BY <1>1, ElementsOf
  <2>3. batches'[b].stage = batches[b].stage
    BY <1>6, <2>2 DEF BatchType
  <2>4. \A c \in DOMAIN batches : c # b => batches'[c] = batches[c]
    BY <1>6
  <2>5. QED
    BY <1>1, <2>1, <2>3, <2>4
<1>7. QED
  BY <1>1, <1>2, <1>4, <1>5, <1>6

LEMMA AddedStep ==
    ASSUME AddedInv, BatchesInv, [Next]_vars
    PROVE  AddedInv'
<1>1. \/ UNCHANGED added
      \/ \E b \in DOMAIN batches : UploadAnswered(b)
      \/ \E b \in DOMAIN batches :
           /\ Cardinality(added) < Len(UploadIds)
           /\ useDemoData
           /\ added' = added \cup {Doc(UploadIds[Cardinality(added) + 1], "QUEUED", 5).id}
  BY DEF Next, ListStep, ListRead, ListAnswered, ListFails, ListDemo, ListSettles, Retry, Poll,
         Tick, reload, AttemptStarts, WorkerMoves, vars, pageVars, UploadStep, handleFiles, UploadStored,
         UploadFails, UploadDemo, Uploaded, RemoveEntries
<1>2. CASE UNCHANGED added
  BY <1>2, BuildStays, SentInDemo DEF AddedInv
<1>3. ASSUME NEW b \in DOMAIN batches, UploadAnswered(b)
      PROVE  AddedInv'
  <2> DEFINE id == Doc(batches[b].id, "QUEUED", 5).id
  <2>1. id \in StoredIds
    BY <1>3, AnsweredDoc
  <2>2. added' = added \cup {id}
    BY <1>3 DEF UploadAnswered, Uploaded
  <2>3. ~useDemoData
    BY <1>3 DEF UploadAnswered, AddedInv
  <2> HIDE DEF id
  <2>4. IsFiniteSet(added')
    BY <2>2, FS_AddElement DEF AddedInv
  <2>5. QED
    BY <2>1, <2>2, <2>3, <2>4, BuildStays DEF AddedInv
<1>4. ASSUME Cardinality(added) < Len(UploadIds), useDemoData,
             added' = added \cup {Doc(UploadIds[Cardinality(added) + 1], "QUEUED", 5).id}
      PROVE  AddedInv'
  <2> DEFINE id == UploadIds[Cardinality(added) + 1]
  <2>1. id \in StoredIds /\ Doc(id, "QUEUED", 5).id = id
    BY <1>4, DemoDoc
  <2>2. added \cup {id} = FirstIds(Cardinality(added \cup {id}))
    BY <1>4, NextIsNew
  <2>3. added' = added \cup {id}
    BY <1>4, <2>1
  <2> HIDE DEF id
  <2>4. IsFiniteSet(added')
    BY <2>3, FS_AddElement DEF AddedInv
  <2>5. QED
    BY <1>4, <2>1, <2>2, <2>3, <2>4, SentInDemo DEF AddedInv
<1>5. QED
  BY <1>1, <1>2, <1>3, <1>4

(***************************************************************************)
(* The list and what the page shows of it                                  *)
(***************************************************************************)

LEMMA RankIs ==
    /\ Rank("UPLOADED") = 1 /\ Rank("QUEUED") = 2 /\ Rank("PROCESSING") = 3
    /\ Rank("OCR_PROCESSING") = 4 /\ Rank("CHUNKING") = 5 /\ Rank("EMBEDDING") = 6
    /\ Rank("INDEXING") = 7 /\ Rank("COMPLETED") = 8 /\ Rank("FAILED") = 8
<1>1. \A s : isProcessing(s) => Rank(s) = CHOOSE i \in 1..7 : DOCUMENT_STATUSES[i] = s
  BY DEF Rank
<1>2. ASSUME NEW n \in 1..7
      PROVE  (CHOOSE i \in 1..7 : DOCUMENT_STATUSES[i] = DOCUMENT_STATUSES[n]) = n
  <2>1. \A i, j \in 1..7 : DOCUMENT_STATUSES[i] = DOCUMENT_STATUSES[j] => i = j
    BY DEF DOCUMENT_STATUSES
  <2>2. QED
    BY <2>1
<1>3. \A n \in 1..7 : isProcessing(DOCUMENT_STATUSES[n])
  BY DEF DOCUMENT_STATUSES, isProcessing
<1>4. \A n \in 1..7 : Rank(DOCUMENT_STATUSES[n]) = n
  BY <1>1, <1>2, <1>3
<1>5. /\ DOCUMENT_STATUSES[1] = "UPLOADED" /\ DOCUMENT_STATUSES[2] = "QUEUED"
      /\ DOCUMENT_STATUSES[3] = "PROCESSING" /\ DOCUMENT_STATUSES[4] = "OCR_PROCESSING"
      /\ DOCUMENT_STATUSES[5] = "CHUNKING" /\ DOCUMENT_STATUSES[6] = "EMBEDDING"
      /\ DOCUMENT_STATUSES[7] = "INDEXING"
  BY DEF DOCUMENT_STATUSES
<1>6. Rank("COMPLETED") = 8 /\ Rank("FAILED") = 8
  BY DEF Rank, isProcessing
<1>7. 1 \in 1..7 /\ 2 \in 1..7 /\ 3 \in 1..7 /\ 4 \in 1..7 /\ 5 \in 1..7 /\ 6 \in 1..7 /\ 7 \in 1..7
  OBVIOUS
<1>8. QED
  BY <1>4, <1>5, <1>6, <1>7

LEMMA NextIs ==
    /\ NEXT("UPLOADED") = "QUEUED" /\ NEXT("QUEUED") = "PROCESSING"
    /\ NEXT("PROCESSING") = "OCR_PROCESSING" /\ NEXT("OCR_PROCESSING") = "CHUNKING"
    /\ NEXT("CHUNKING") = "EMBEDDING" /\ NEXT("EMBEDDING") = "INDEXING"
    /\ NEXT("INDEXING") = "COMPLETED"
<1>1. \A s : NEXT(s) = DOCUMENT_STATUSES[Rank(s) + 1]
  BY DEF NEXT
<1>2. /\ DOCUMENT_STATUSES[2] = "QUEUED"
      /\ DOCUMENT_STATUSES[3] = "PROCESSING" /\ DOCUMENT_STATUSES[4] = "OCR_PROCESSING"
      /\ DOCUMENT_STATUSES[5] = "CHUNKING" /\ DOCUMENT_STATUSES[6] = "EMBEDDING"
      /\ DOCUMENT_STATUSES[7] = "INDEXING" /\ DOCUMENT_STATUSES[8] = "COMPLETED"
  BY DEF DOCUMENT_STATUSES
<1>3. QED
  BY <1>1, <1>2, RankIs

\* The demo pipeline moves a document one stage on whenever its progress passes a
\* multiple of 21, and no further than the progress allows.
LEMMA AdvancedDoc ==
    ASSUME NEW doc \in DocType, InStep(doc), doc.status = "COMPLETED" => doc.progress = 100
    PROVE  LET new == Advanced(doc)
           IN  /\ new \in DocType /\ new.id = doc.id
               /\ InStep(new) /\ (new.status = "COMPLETED" => new.progress = 100)
<1> DEFINE new == Advanced(doc)
<1>1. CASE ~isProcessing(doc.status)
  BY <1>1 DEF Advanced
<1>2. CASE isProcessing(doc.status)
  <2> DEFINE p == doc.progress
             s == doc.status
             q == IF p + 7 > 100 THEN 100 ELSE p + 7
             t == IF q >= 100 THEN "COMPLETED" ELSE IF q % 21 < 7 THEN NEXT(s) ELSE s
  <2>1. p \in 0..100 /\ s \in DocumentStatus /\ doc.id \in Ids /\ Rank(s) <= 3 + p \div 21
    BY <1>2 DEF DocType, InStep
  <2>2. new = Doc(doc.id, t, q)
    BY <1>2 DEF Advanced
  <2> HIDE DEF p, s, t
  <2>3. /\ s \in {"UPLOADED", "QUEUED", "PROCESSING", "OCR_PROCESSING", "CHUNKING",
                  "EMBEDDING", "INDEXING"}
        /\ "COMPLETED" \in DocumentStatus
    BY <1>2, <2>1, StatusSet DEF isProcessing, s
  <2>4. q \in 0..100
    <3>1. CASE p + 7 > 100
      BY <3>1
    <3>2. CASE ~(p + 7 > 100)
      BY <2>1, <3>2
    <3>3. QED
      BY <3>1, <3>2
  <2>5. CASE q >= 100
    <3>1. q = 100 /\ t = "COMPLETED"
      BY <2>4, <2>5 DEF t
    <3> HIDE DEF q, new
    <3>2. new \in DocType /\ new.id = doc.id /\ new.status = "COMPLETED" /\ new.progress = 100
      BY <2>1, <2>2, <2>3, <2>4, <3>1, DocIs
    <3>3. QED
      BY <3>2 DEF InStep, isProcessing, new
  <2>6. CASE ~(q >= 100)
    <3>1. q = p + 7 /\ p + 7 < 100
      BY <2>1, <2>6
    <3>2. t = IF q % 21 < 7 THEN NEXT(s) ELSE s
      BY <2>6 DEF t
    <3> HIDE DEF q, new
    <3>0. Rank(s) \in 1..7
      BY <2>3, RankIs
    <3>3. CASE q % 21 < 7
      <4>1. q \div 21 = p \div 21 + 1
        BY <2>1, <3>1, <3>3
      <4>2. t = NEXT(s) /\ Rank(s) <= 6
        <5>1. q <= 90
          BY <2>1, <3>1, <3>3
        <5>2. p \div 21 <= 3
          BY <2>1, <3>1, <5>1
        <5>3. QED
          BY <2>1, <3>0, <3>2, <3>3, <5>2
      <4>3. /\ t \in DocumentStatus \ {"COMPLETED"} /\ Rank(t) = Rank(s) + 1
        <5>1. s \in {"UPLOADED", "QUEUED", "PROCESSING", "OCR_PROCESSING", "CHUNKING", "EMBEDDING"}
          BY <2>3, <4>2, RankIs, StatusSet
        <5>2. /\ NEXT(s) \in {"QUEUED", "PROCESSING", "OCR_PROCESSING", "CHUNKING", "EMBEDDING",
                               "INDEXING"}
              /\ Rank(NEXT(s)) = Rank(s) + 1
          BY <5>1, RankIs, NextIs
        <5>3. QED
          BY <4>2, <5>2, StatusSet
      <4>4. new \in DocType /\ new.id = doc.id /\ new.status = t /\ new.progress = q
        <5>1. doc.id \in Ids /\ t \in DocumentStatus
          BY <2>1, <4>3
        <5>2. QED
          BY <2>2, <2>4, <5>1, DocIs
      <4>5. Rank(s) + 1 <= 3 + q \div 21
        BY <2>1, <2>3, <4>1, RankIs
      <4>6. QED
        BY <4>3, <4>4, <4>5 DEF InStep, new
    <3>4. CASE ~(q % 21 < 7)
      <4>1. p \div 21 \in Int /\ q \div 21 \in Int /\ p \div 21 <= q \div 21
        BY <2>1, <2>4, <3>1
      <4>2. t = s
        BY <3>2, <3>4
      <4>3. new \in DocType /\ new.id = doc.id /\ new.status = s /\ new.progress = q
        BY <2>1, <2>2, <2>4, <4>2, DocIs
      <4>4. Rank(s) <= 3 + q \div 21
        <5> DEFINE was == p \div 21
                   is == q \div 21
        <5>1. was \in Int /\ is \in Int /\ was <= is /\ Rank(s) <= 3 + was
          BY <2>1, <4>1
        <5> HIDE DEF was, is
        <5>2. Rank(s) <= 3 + is
          BY <3>0, <5>1
        <5>3. QED
          BY <5>2 DEF is
      <4>5. QED
        BY <2>3, <4>3, <4>4 DEF InStep, new
    <3>5. QED
      BY <3>3, <3>4
  <2>7. QED
    BY <2>5, <2>6
<1>3. QED
  BY <1>1, <1>2

LEMMA DemoDocs ==
    /\ Documented(demoDocuments) /\ ids(demoDocuments) = demoIds
    /\ \A i \in DOMAIN demoDocuments :
         /\ InStep(demoDocuments[i])
         /\ demoDocuments[i].status = "COMPLETED" => demoDocuments[i].progress = 100
<1> DEFINE d == demoDocuments
<1>1. /\ DOMAIN d = 1..8 /\ Len(d) = 8
      /\ d[1] = Doc("d-100", "COMPLETED", 100) /\ d[2] = Doc("d-101", "EMBEDDING", 72)
      /\ d[3] = Doc("d-102", "OCR_PROCESSING", 38) /\ d[4] = Doc("d-103", "COMPLETED", 100)
      /\ d[5] = Doc("d-104", "COMPLETED", 100) /\ d[6] = Doc("d-105", "COMPLETED", 100)
      /\ d[7] = Doc("d-106", "FAILED", 25) /\ d[8] = Doc("d-107", "QUEUED", 5)
      /\ d = [i \in 1..8 |-> d[i]]
  BY DEF demoDocuments
<1>2. ids(d) = demoIds
  BY DEF ids, demoIds
<1> HIDE DEF d
<1>3. \A i \in 1..8 : d[i].id \in demoIds
  BY <1>1, <1>2 DEF ids, ToSet
<1>4. \A i \in 1..8 : d[i].id \in Ids
  BY <1>3, IdsTyped
<1>5. \A i \in 1..8 : d[i] \in DocType
  <2>1. ASSUME NEW i \in 1..8, NEW id, NEW status \in DocumentStatus, NEW progress \in 0..100,
               d[i] = Doc(id, status, progress)
        PROVE  d[i] \in DocType
    <3>1. d[i].id = id
      BY <2>1 DEF Doc
    <3>2. id \in Ids
      BY <1>4, <3>1
    <3>3. Doc(id, status, progress) \in DocType
      BY <3>2, DocIs
    <3>4. QED
      BY <2>1, <3>3
  <2>2. /\ "COMPLETED" \in DocumentStatus /\ "EMBEDDING" \in DocumentStatus
        /\ "OCR_PROCESSING" \in DocumentStatus /\ "FAILED" \in DocumentStatus
        /\ "QUEUED" \in DocumentStatus
    BY StatusSet
  <2>3. QED
    BY <1>1, <2>1, <2>2
<1>6. d \in Seq(DocType)
  BY <1>1, <1>5
<1>7. /\ d[1].id = "d-100" /\ d[2].id = "d-101" /\ d[3].id = "d-102" /\ d[4].id = "d-103"
      /\ d[5].id = "d-104" /\ d[6].id = "d-105" /\ d[7].id = "d-106" /\ d[8].id = "d-107"
  BY <1>1 DEF Doc
<1>8. EachIdOnce(d)
  BY <1>1, <1>7 DEF EachIdOnce
<1>9. /\ d[1].status = "COMPLETED" /\ d[2].status = "EMBEDDING" /\ d[3].status = "OCR_PROCESSING"
      /\ d[4].status = "COMPLETED" /\ d[5].status = "COMPLETED" /\ d[6].status = "COMPLETED"
      /\ d[7].status = "FAILED" /\ d[8].status = "QUEUED"
      /\ d[1].progress = 100 /\ d[2].progress = 72 /\ d[3].progress = 38
      /\ d[4].progress = 100 /\ d[5].progress = 100 /\ d[6].progress = 100 /\ d[8].progress = 5
  BY <1>1 DEF Doc
<1>10. InStep(d[2]) /\ InStep(d[3]) /\ InStep(d[8])
  <2>1. 72 \div 21 = 3 /\ 38 \div 21 = 1 /\ 5 \div 21 = 0
    OBVIOUS
  <2>2. QED
    BY <1>9, <2>1, RankIs DEF InStep
<1>11. InStep(d[1]) /\ InStep(d[4]) /\ InStep(d[5]) /\ InStep(d[6]) /\ InStep(d[7])
  BY <1>9 DEF InStep, isProcessing
<1>12. \A i \in 1..8 : InStep(d[i]) /\ (d[i].status = "COMPLETED" => d[i].progress = 100)
  BY <1>9, <1>10, <1>11
<1>13. QED
  BY <1>1, <1>2, <1>6, <1>8, <1>12 DEF Documented, d

LEMMA ListTypedInitially == Init => ListTyped
BY DEF Init, ListTyped, Mounted, Request

\* What an answer brings, if it counts.
Brings(request, outcome) ==
    /\ ListSettles(request, outcome)
    /\ outcome.ok /\ ~request.stale =>
         /\ Documented(outcome.data.documents)
         /\ useDemoData => outcome.data = Answer(0, demoDocuments)
         /\ ~useDemoData => outcome.data = request.read /\ request.read # Null
    /\ ~outcome.ok => outcome.code \in ErrorCodes

LEMMA AnswersBring ==
    ASSUME ListTyped, NEW request \in list.open,
           ListAnswered(request) \/ ListFails(request) \/ ListDemo(request)
    PROVE  \E outcome : Brings(request, outcome)
<1>1. CASE ListAnswered(request)
  <2>1. /\ ~useDemoData /\ ListSettles(request, Result(request.read))
        /\ request.read # Null \/ request.stale
    BY <1>1 DEF ListAnswered
  <2>2. Result(request.read).ok /\ Result(request.read).data = request.read
    BY DEF Result
  <2>3. ~request.stale => Documented(request.read.documents)
    BY <2>1 DEF ListTyped
  <2>4. QED
    BY <2>1, <2>2, <2>3 DEF Brings
<1>2. CASE ListFails(request)
  <2>1. ListSettles(request, ApiError("TIMEOUT"))
    BY <1>2 DEF ListFails
  <2>2. ~ApiError("TIMEOUT").ok /\ ApiError("TIMEOUT").code \in ErrorCodes
    BY DEF ApiError, ErrorCodes
  <2>3. QED
    BY <2>1, <2>2 DEF Brings
<1>3. CASE ListDemo(request)
  <2> DEFINE answer == Answer(0, demoDocuments)
  <2>1. useDemoData /\ ListSettles(request, Result(answer))
    BY <1>3 DEF ListDemo
  <2>2. Result(answer).ok /\ Result(answer).data = answer /\ answer.documents = demoDocuments
    BY DEF Result, Answer
  <2>3. QED
    BY <2>1, <2>2, DemoDocs DEF Brings
<1>4. QED
  BY <1>1, <1>2, <1>3

\* Who writes the list, and who what the page shows.
LEMMA ListWriters ==
    ASSUME [Next]_vars
    PROVE  \/ UNCHANGED list
           \/ reload
           \/ \E request \in list.open : ListRead(request)
           \/ \E request \in list.open :
                ListAnswered(request) \/ ListFails(request) \/ ListDemo(request)
BY DEF Next, ListStep, Retry, Poll, Tick, UploadStep, handleFiles, UploadStored,
       UploadAnswered, UploadFails, UploadDemo, RemoveEntries, AttemptStarts, WorkerMoves, vars, pageVars

LEMMA ListTypedStep ==
    ASSUME ListTyped, ListInv, StoreInv, [Next]_vars
    PROVE  ListTyped'
<1> USE BuildStays
<1>0. IsHook(list)
  BY DEF ListInv
<1>1. CASE UNCHANGED list
  BY <1>1 DEF ListTyped, Documented
<1>2. CASE reload
  <2>1. list' = Called(list, "documents")
    BY <1>2 DEF reload
  <2>2. /\ list'.data = list.data /\ list'.error = list.error
        /\ list'.open = {Overtaken(r) : r \in list.open} \cup {Request("documents")}
    BY <1>0, <2>1, HookWrites
  <2>3. \A r \in list'.open : r.read = Null
    BY <2>2 DEF Overtaken, Request
  <2>4. QED
    BY <2>2, <2>3 DEF ListTyped
<1>3. ASSUME NEW request \in list.open, ListRead(request)
      PROVE  ListTyped'
  <2> DEFINE answer == Answer(changes, store)
             new == [request EXCEPT !.read = answer]
  <2>1. list' = HasRead(list, request, answer) /\ ~useDemoData /\ ~request.stale
    BY <1>3 DEF ListRead
  <2>0. answer.documents = store
    BY DEF Answer
  <2> HIDE DEF answer
  <2>2. /\ list'.data = list.data /\ list'.error = list.error
        /\ list'.open = (list.open \ {request}) \cup {new}
    BY <1>0, <2>1, HookWrites
  <2>3. new.read = answer /\ ~new.stale
    BY <1>0, <2>1 DEF IsHook, IsRequest
  <2> HIDE DEF new
  <2>4. QED
    BY <2>0, <2>1, <2>2, <2>3 DEF ListTyped, StoreInv
<1>4. ASSUME NEW request \in list.open,
             ListAnswered(request) \/ ListFails(request) \/ ListDemo(request)
      PROVE  ListTyped'
  <2>1. PICK outcome : Brings(request, outcome)
    BY <1>4, AnswersBring
  <2>2. list' = Settled(list, request, outcome)
    BY <2>1 DEF Brings, ListSettles, ShowAnswer
  <2>3. list'.open = list.open \ {request}
    BY <1>0, <2>2, HookWrites
  <2>4. list'.error \in ErrorCodes \cup {Null} /\ (list'.data # Null => Documented(list'.data.documents))
    <3>1. CASE request.stale
      BY <1>0, <2>2, <3>1, HookWrites DEF ListTyped
    <3>2. CASE ~request.stale /\ outcome.ok
      BY <1>0, <2>1, <2>2, <3>2, HookWrites DEF Brings
    <3>3. CASE ~request.stale /\ ~outcome.ok
      BY <1>0, <2>1, <2>2, <3>3, HookWrites DEF Brings, ListTyped
    <3>4. QED
      BY <3>1, <3>2, <3>3
  <2>5. QED
    BY <2>3, <2>4 DEF ListTyped
<1>5. QED
  BY <1>1, <1>2, <1>3, <1>4, ListWriters

LEMMA DocsInitially == Init => DocsInv
BY DEF Init, DocsInv, EachIdOnce, ids, CompletedIsFull, ToSet

LEMMA DocsWriters ==
    ASSUME [Next]_vars
    PROVE  \/ UNCHANGED docs /\ added \subseteq added'
           \/ \E request \in list.open :
                /\ ListAnswered(request) \/ ListFails(request) \/ ListDemo(request)
                /\ UNCHANGED added
           \/ Tick
           \/ \E b \in DOMAIN batches : UploadAnswered(b)
           \/ \E b \in DOMAIN batches :
                LET doc == Doc(UploadIds[Cardinality(added) + 1], "QUEUED", 5)
                IN  /\ Cardinality(added) < Len(UploadIds) /\ useDemoData
                    /\ docs' = <<doc>> \o docs /\ added' = added \cup {doc.id}
<1>1. \/ UNCHANGED <<docs, added>>
      \/ \E request \in list.open : ListAnswered(request) \/ ListFails(request) \/ ListDemo(request)
      \/ Tick
      \/ \E b \in DOMAIN batches : UploadAnswered(b) \/ UploadDemo(b)
  BY DEF Next, ListStep, ListRead, Retry, Poll, reload, UploadStep, handleFiles, UploadStored,
         UploadFails, RemoveEntries, AttemptStarts, WorkerMoves, vars, pageVars
<1>2. ASSUME NEW b \in DOMAIN batches, UploadDemo(b)
      PROVE  \/ UNCHANGED <<docs, added>>
             \/ LET doc == Doc(UploadIds[Cardinality(added) + 1], "QUEUED", 5)
                IN  /\ Cardinality(added) < Len(UploadIds) /\ useDemoData
                    /\ docs' = <<doc>> \o docs /\ added' = added \cup {doc.id}
  BY <1>2 DEF UploadDemo, Uploaded
<1>3. \A request : ListAnswered(request) \/ ListFails(request) \/ ListDemo(request)
                     => UNCHANGED added
  BY DEF ListAnswered, ListFails, ListDemo, ListSettles
<1>4. QED
  BY <1>1, <1>2, <1>3

\* The documents one more is put before.
LEMMA OneMore ==
    ASSUME DocsInv, NEW doc \in DocType, doc.status = "QUEUED", doc.progress = 5,
           docs' = <<doc>> \o docs, UNCHANGED useDemoData,
           useDemoData => doc.id \notin ids(docs) /\ doc.id \in added' /\ added \subseteq added'
    PROVE  DocsInv'
<1>1. docs \in Seq(DocType)
  BY DEF DocsInv
<1>2. /\ docs' \in Seq(DocType) /\ Len(docs') = Len(docs) + 1 /\ docs'[1] = doc
      /\ \A i \in DOMAIN docs : i + 1 \in DOMAIN docs' /\ docs'[i + 1] = docs[i]
      /\ ids(docs') = {doc.id} \cup ids(docs)
      /\ EachIdOnce(docs) /\ doc.id \notin ids(docs) => EachIdOnce(docs')
  BY <1>1, Prepended
<1>3. \A k \in DOMAIN docs' : docs'[k] = doc \/ \E i \in DOMAIN docs : docs'[k] = docs[i]
  BY <1>1
<1>4. ~useDemoData => inFlight'
  <2>1. 1 \in DOMAIN docs' /\ isProcessing(docs'[1].status)
    BY <1>1, <1>2 DEF isProcessing
  <2>2. QED
    BY <2>1 DEF inFlight
<1>5. useDemoData => EachIdOnce(docs') /\ ids(docs') \subseteq demoIds \cup added'
  BY <1>2 DEF DocsInv
<1>6. InStep(doc)
  <2>1. 5 \div 21 = 0
    OBVIOUS
  <2>2. QED
    BY <2>1, RankIs DEF InStep
<1>7. useDemoData => \A k \in DOMAIN docs' : InStep(docs'[k])
  BY <1>3, <1>6 DEF DocsInv
<1>8. CompletedIsFull'
  BY <1>3 DEF DocsInv, CompletedIsFull
<1>9. QED
  BY <1>2, <1>4, <1>5, <1>7, <1>8 DEF DocsInv

LEMMA DocsStep ==
    ASSUME DocsInv, ListTyped, BatchesInv, AddedInv, [Next]_vars
    PROVE  DocsInv'
<1>0. UNCHANGED useDemoData
  BY BuildStays
<1>1. CASE UNCHANGED docs /\ added \subseteq added'
  BY <1>0, <1>1 DEF DocsInv, EachIdOnce, ids, CompletedIsFull, inFlight
<1>2. ASSUME NEW request \in list.open, UNCHANGED added,
             ListAnswered(request) \/ ListFails(request) \/ ListDemo(request)
      PROVE  DocsInv'
  <2>1. PICK outcome : Brings(request, outcome)
    BY <1>2, AnswersBring
  <2>2. docs' = IF outcome.ok /\ ~request.stale THEN outcome.data.documents ELSE docs
    BY <2>1 DEF Brings, ListSettles, ShowAnswer
  <2>3. CASE outcome.ok /\ ~request.stale
    <3>1. /\ docs' = outcome.data.documents /\ Documented(docs')
          /\ useDemoData => docs' = demoDocuments
      BY <2>1, <2>2, <2>3 DEF Brings, Answer
    <3>2. CASE useDemoData
      <4>1. docs' = demoDocuments
        BY <3>1, <3>2
      <4>2. ids(docs') = demoIds /\ \A i \in DOMAIN docs' :
              InStep(docs'[i]) /\ (docs'[i].status = "COMPLETED" => docs'[i].progress = 100)
        BY <4>1, DemoDocs
      <4>3. QED
        BY <1>0, <3>1, <3>2, <4>2 DEF DocsInv, CompletedIsFull, Documented
    <3>3. CASE ~useDemoData
      BY <1>0, <3>1, <3>3 DEF DocsInv, CompletedIsFull, Documented
    <3>4. QED
      BY <3>2, <3>3
  <2>4. CASE ~(outcome.ok /\ ~request.stale)
    BY <1>0, <1>2, <2>2, <2>4 DEF DocsInv, EachIdOnce, ids, CompletedIsFull, inFlight
  <2>5. QED
    BY <2>3, <2>4
<1>3. CASE Tick
  <2>1. useDemoData /\ docs' = [i \in DOMAIN docs |-> Advanced(docs[i])] /\ UNCHANGED added
    BY <1>3 DEF Tick
  <2>2. docs \in Seq(DocType)
    BY DEF DocsInv
  <2>3. ASSUME NEW i \in DOMAIN docs
        PROVE  /\ docs'[i] \in DocType /\ docs'[i].id = docs[i].id /\ InStep(docs'[i])
               /\ docs'[i].status = "COMPLETED" => docs'[i].progress = 100
    <3> DEFINE doc == docs[i]
    <3>1. doc \in DocType
      BY <2>2, ElementsOf
    <3>2. InStep(doc) /\ (doc.status = "COMPLETED" => doc.progress = 100)
      BY <2>1 DEF DocsInv, CompletedIsFull
    <3>3. docs'[i] = Advanced(doc)
      BY <2>1
    <3> HIDE DEF doc
    <3>4. docs'[i] \in DocType /\ docs'[i].id = doc.id /\ InStep(docs'[i])
          /\ (docs'[i].status = "COMPLETED" => docs'[i].progress = 100)
      BY <3>1, <3>2, <3>3, AdvancedDoc
    <3>5. QED
      BY <3>4 DEF doc
  <2>4. DOMAIN docs' = DOMAIN docs
    BY <2>1
  <2>5. docs' \in Seq(DocType)
    BY <2>1, <2>2, <2>3, <2>4
  <2>6. EachIdOnce(docs')
    BY <2>1, <2>3, <2>4 DEF EachIdOnce, DocsInv
  <2>7. ids(docs') = ids(docs)
    BY <2>3, <2>4 DEF ids, ToSet
  <2>8. QED
    BY <1>0, <2>1, <2>3, <2>4, <2>5, <2>6, <2>7 DEF DocsInv, CompletedIsFull
<1>4. ASSUME NEW b \in DOMAIN batches, UploadAnswered(b)
      PROVE  DocsInv'
  <2> DEFINE doc == Doc(batches[b].id, "QUEUED", 5)
  <2>1. doc \in DocType /\ doc.status = "QUEUED" /\ doc.progress = 5
    BY <1>4, AnsweredDoc
  <2>2. docs' = <<doc>> \o docs
    BY <1>4 DEF UploadAnswered, Uploaded
  <2>3. ~useDemoData
    BY <1>4 DEF UploadAnswered, AddedInv
  <2> HIDE DEF doc
  <2>4. QED
    BY <1>0, <2>1, <2>2, <2>3, OneMore
<1>5. ASSUME Cardinality(added) < Len(UploadIds), useDemoData,
             LET doc == Doc(UploadIds[Cardinality(added) + 1], "QUEUED", 5)
             IN  docs' = <<doc>> \o docs /\ added' = added \cup {doc.id}
      PROVE  DocsInv'
  <2> DEFINE id == UploadIds[Cardinality(added) + 1]
             doc == Doc(id, "QUEUED", 5)
  <2>1. doc \in DocType /\ doc.id = id /\ doc.status = "QUEUED" /\ doc.progress = 5
    BY <1>5, DemoDoc
  <2>2. docs' = <<doc>> \o docs /\ added' = added \cup {doc.id}
    BY <1>5
  <2>3. id \notin added \cup demoIds
    BY <1>5, NextIsNew
  <2> HIDE DEF id, doc
  <2>4. doc.id \notin ids(docs) /\ doc.id \in added' /\ added \subseteq added'
    BY <1>5, <2>1, <2>2, <2>3 DEF DocsInv
  <2>5. QED
    BY <1>0, <2>1, <2>2, <2>4, OneMore
<1>6. QED
  BY <1>1, <1>2, <1>3, <1>4, <1>5, DocsWriters

(***************************************************************************)
(* The page                                                                *)
(***************************************************************************)

LEMMA PageInitially == Init => PageInv
BY StoreInitially, UploadsInitially, ListInitially, ListTypedInitially, AddedInitially,
   DocsInitially DEF PageInv

LEMMA PageStep ==
    ASSUME PageInv, [Next]_vars
    PROVE  PageInv'
BY StoreStep, DropzoneStep, ListInvStep, ListTypedStep, AddedStep, DocsStep DEF PageInv, DropInv

LEMMA PageAlways == Spec => []PageInv
BY PageInitially, PageStep, PTL DEF Spec

\* The moment of a read never lies in the future, and the next moment not before it.
LEMMA ChangesGrow ==
    ASSUME OrderInv, [Next]_vars
    PROVE  /\ changes' \in Nat /\ changes' >= changes
           /\ useDemoData => changes' = 0
<1>1. \/ UNCHANGED changes
      \/ changes' = changes + 1 /\ ~useDemoData
  BY DEF Next, ListStep, ListRead, ListAnswered, ListFails, ListDemo, ListSettles, Retry, Poll,
         Tick, reload, UploadStep, handleFiles, UploadStored, UploadAnswered, UploadFails,
         UploadDemo, RemoveEntries, AttemptStarts, WorkerMoves, vars
<1>2. QED
  BY <1>1 DEF OrderInv

LEMMA OrderInitially == Init => OrderInv
BY DEF Init, OrderInv, Mounted, Request

LEMMA OrderStep ==
    ASSUME PageInv, OrderInv, [Next]_vars
    PROVE  /\ OrderInv'
           /\ list.data # Null => list'.data.at >= list.data.at
<1>1. IsHook(list) /\ LoadingIsAwaiting(list)
  BY DEF PageInv, ListInv, ListSpins
<1>2. /\ changes \in Nat /\ changes' \in Nat /\ changes' >= changes
      /\ useDemoData <=> useDemoData'
      /\ useDemoData => changes = 0 /\ changes' = 0
  BY ChangesGrow, BuildStays DEF OrderInv
\* What is known stays true as the store changes.
<1>3. /\ list.data # Null => list.data.at \in 0..changes' /\ list.data.at \in Int
      /\ \A request \in list.open :
           request.read # Null =>
             /\ request.read.at \in 0..changes' /\ request.read.at \in Int
             /\ list.data # Null => request.read.at >= list.data.at
  BY <1>2 DEF OrderInv
<1>4. CASE UNCHANGED list
  BY <1>2, <1>3, <1>4 DEF OrderInv
<1>5. CASE reload
  <2>1. list' = Called(list, "documents")
    BY <1>5 DEF reload
  <2>2. /\ list'.data = list.data
        /\ list'.open = {Overtaken(r) : r \in list.open} \cup {Request("documents")}
    BY <1>1, <2>1, HookWrites
  <2>3. \A r \in list'.open : r.read = Null
    BY <2>2 DEF Overtaken, Request
  <2>4. QED
    BY <1>2, <1>3, <2>2, <2>3 DEF OrderInv
<1>6. ASSUME NEW request \in list.open, ListRead(request)
      PROVE  OrderInv' /\ (list.data # Null => list'.data.at >= list.data.at)
  <2> DEFINE answer == Answer(changes, store)
             new == [request EXCEPT !.read = answer]
  <2>1. list' = HasRead(list, request, answer) /\ changes' = changes
    BY <1>6 DEF ListRead
  <2>2. answer.at = changes
    BY DEF Answer
  <2> HIDE DEF answer
  <2>3. list'.data = list.data /\ list'.open = (list.open \ {request}) \cup {new}
    BY <1>1, <2>1, HookWrites
  <2>4. new.read = answer
    BY <1>1 DEF IsHook, IsRequest
  <2> HIDE DEF new
  <2>5. new.read.at \in 0..changes' /\ (list.data # Null => new.read.at >= list.data.at)
    BY <1>2, <1>3, <2>1, <2>2, <2>4
  <2>6. QED
    BY <1>2, <1>3, <2>3, <2>5 DEF OrderInv
<1>7. ASSUME NEW request \in list.open,
             ListAnswered(request) \/ ListFails(request) \/ ListDemo(request)
      PROVE  OrderInv' /\ (list.data # Null => list'.data.at >= list.data.at)
  <2>1. PICK outcome : Brings(request, outcome)
    BY <1>7, AnswersBring DEF PageInv
  <2>2. list' = Settled(list, request, outcome)
    BY <2>1 DEF Brings, ListSettles, ShowAnswer
  <2>3. list'.open = list.open \ {request}
    BY <1>1, <2>2, HookWrites
  <2>4. CASE outcome.ok /\ ~request.stale
    <3>1. list'.data = outcome.data
      BY <1>1, <2>2, <2>4, HookWrites
    <3>2. \A other \in list'.open : other.read = Null
      <4>1. \A other \in list.open : ~other.stale => other = request
        BY <1>1, <2>4 DEF LoadingIsAwaiting, Fresh
      <4>2. \A other \in list.open : other.read # Null => ~other.stale
        BY DEF PageInv, ListTyped
      <4>3. QED
        BY <2>3, <4>1, <4>2
\* The newest call brings what it has read; in the demo every moment is the first.
    <3>3. /\ outcome.data.at \in 0..changes'
          /\ list.data # Null => outcome.data.at >= list.data.at
      <4>1. CASE useDemoData
        <5>1. outcome.data = Answer(0, demoDocuments)
          BY <2>1, <2>4, <4>1 DEF Brings
        <5>2. outcome.data.at = 0
          BY <5>1 DEF Answer
        <5>3. QED
          BY <1>2, <1>3, <4>1, <5>2
      <4>2. CASE ~useDemoData
        BY <1>3, <2>1, <2>4, <4>2 DEF Brings
      <4>3. QED
        BY <4>1, <4>2
    <3>4. QED
      BY <1>2, <3>1, <3>2, <3>3 DEF OrderInv
  <2>5. CASE ~(outcome.ok /\ ~request.stale)
    <3>1. list'.data = list.data
      BY <1>1, <2>2, <2>5, HookWrites
    <3>2. QED
      BY <1>2, <1>3, <2>3, <3>1 DEF OrderInv
  <2>6. QED
    BY <2>4, <2>5
<1>8. QED
  BY <1>4, <1>5, <1>6, <1>7, ListWriters

LEMMA OrderAlways == Spec => [](PageInv /\ OrderInv)
<1>1. Init => PageInv /\ OrderInv
  BY PageInitially, OrderInitially
<1>2. PageInv /\ OrderInv /\ [Next]_vars => (PageInv /\ OrderInv)'
  BY PageStep, OrderStep
<1>3. QED
  BY <1>1, <1>2, PTL DEF Spec

\* An answer that is shown was read no earlier than the one it replaces, in whatever
\* order requests are read, overtaken and answered, and however often a worker takes
\* a document back.
THEOREM AnswersAlwaysInReadOrder == Spec => AnswersInReadOrder
<1>1. PageInv /\ OrderInv /\ [Next]_vars =>
        [list.data # Null => list'.data.at >= list.data.at]_vars
  BY OrderStep
<1>2. QED
  BY OrderAlways, <1>1, PTL DEF Spec, AnswersInReadOrder

LEMMA DocumentsTyped ==
    ASSUME NEW value \in Seq(DocType)
    PROVE  ToSet(value) \subseteq DocType
<1>1. \A i \in DOMAIN value : value[i] \in DocType
  BY ElementsOf
<1>2. QED
  BY <1>1 DEF ToSet

LEMMA TypesFollow == PageInv /\ OrderInv => TypeOK
<1> SUFFICES ASSUME PageInv, OrderInv
             PROVE  TypeOK
  OBVIOUS
<1>1. list.error \in ErrorCodes \cup {Null} /\ list.loading \in BOOLEAN
  BY DEF PageInv, ListTyped, ListInv, IsHook
<1>2. ASSUME NEW value \in {list.data} \cup {request.read : request \in list.open}
      PROVE  value # Null => value.at \in 0..changes /\ ToSet(value.documents) \subseteq DocType
  <2>1. value # Null => value.at \in 0..changes /\ value.documents \in Seq(DocType)
    BY DEF PageInv, ListTyped, Documented, OrderInv
  <2>2. QED
    BY <2>1, DocumentsTyped
<1>3. ToSet(docs) \subseteq DocType /\ ToSet(store) \subseteq DocType
  BY DocumentsTyped DEF PageInv, DocsInv, StoreInv, Documented
<1>4. Len(uploads) <= 4
  BY DEF PageInv, UploadsInv
<1>5. ASSUME NEW i \in DOMAIN uploads
      PROVE  /\ uploads[i].name \in Names /\ uploads[i].pct \in 0..100
             /\ uploads[i].error \in {"", "not a PDF", "empty", "too large", "upload failed"}
  <2>1. uploads[i] \in EntryType
    BY ElementsOf DEF PageInv, UploadsInv
  <2>2. QED
    BY <2>1 DEF EntryType, Verdicts
<1>6. ASSUME NEW b \in DOMAIN batches
      PROVE  batches[b].pct \in 0..99 /\ batches[b].stage \in {"sent", "stored"}
  <2>1. batches[b] \in BatchType
    BY ElementsOf DEF PageInv, BatchesInv
  <2>2. QED
    BY <2>1 DEF BatchType
<1>7. timers \subseteq [name : Names, id : ToSet(UploadIds)] /\ added \subseteq ToSet(UploadIds)
  BY DEF PageInv, UploadsInv, AddedInv, StoredIds
<1>8. QED
  BY <1>1, <1>2, <1>3, <1>4, <1>5, <1>6, <1>7 DEF TypeOK

\* Every variable of the page keeps its type, four entries are shown at most and
\* what the demo makes up stays within its ids.
THEOREM PageTyped == Spec => []TypeOK
BY OrderAlways, TypesFollow, PTL

\* No progress bar is left behind: each belongs to an upload that is running or to
\* a removal that is due, whatever names the files of the drops share.
THEOREM BarsAlwaysMove == Spec => []EveryBarIsMoving
<1>1. PageInv => EveryBarIsMoving
  BY DEF PageInv, UploadsInv
<1>2. QED
  BY PageAlways, <1>1, PTL

\* A document is listed twice only while a poll that replaces both is due.
THEOREM DuplicatesAlwaysTransient == Spec => []DuplicateIsTransient
<1>1. PageInv => DuplicateIsTransient
  BY DEF PageInv, DocsInv, EachIdOnce, DuplicateIsTransient
<1>2. QED
  BY PageAlways, <1>1, PTL

\* The simulated pipeline never completes a document whose progress is not full.
THEOREM CompletedAlwaysFull == Spec => []CompletedIsFull
<1>1. PageInv => CompletedIsFull
  BY DEF PageInv, DocsInv
<1>2. QED
  BY PageAlways, <1>1, PTL
=============================================================================
