------------------------------- MODULE Cloud -------------------------------
(***************************************************************************)
(* Steam cloud: the table of apps is read from a web page, the files of an *)
(* app come in chunks from a unified message call that may see them change *)
(* in between. Steam (external) sends each chunk from the index it is      *)
(* asked for, at least one file if there is one.                           *)
(*                                                                         *)
(* A page is the sequence of rows of one table. A cell is what can be read *)
(* from it: the text of a th or td, a number, a size with a known unit, a  *)
(* link with an appid, or "nothing".                                       *)
(***************************************************************************)
EXTENDS Naturals, Sequences, SequencesExt, FiniteSets, Selection

CONSTANTS CloudFiles,  \* the files of the app, in Steam's order
          Broken,      \* files the File constructor refuses
          MaxChanges,  \* bound: changes of the files while they are loaded
          CloudPages   \* pages: sequences of rows, as records of section and cells

Headers == <<"Game", "Number Of Files", "Total Size Of Files">>

CloudAssumption ==
    /\ CloudFiles \in Seq(Range(CloudFiles)) /\ IsInjective(CloudFiles)
    /\ Broken \subseteq Range(CloudFiles) /\ MaxChanges \in Nat
    /\ \A table \in CloudPages :
          /\ table \in Seq(Range(table))
          /\ \A k \in 1..Len(table) : table[k].section \in {"thead", "tbody"}

VARIABLES
    cloudServer,     \* the files Steam has now
    changes,    \* how often they have changed
    cloudPc,    \* "idle", "files" or "page"
    fileIndex,  \* where the next chunk begins
    files,      \* Files::files
    ever,       \* files Steam had at some time since the load began (history)
    always,     \* files Steam has had since then, at the same place (history)
    cloudPage,       \* the rows that are still to be read
    tableOpen,  \* PageParser::table is set
    apps,       \* Apps::apps
    rowsSeen    \* the rows of the page that have been read (history)

fileVars == <<cloudServer, changes, fileIndex, files, ever, always>>
pageVars == <<cloudPage, tableOpen, apps, rowsSeen>>
cloudVars == <<cloudServer, changes, cloudPc, fileIndex, files, ever, always, cloudPage,
               tableOpen, apps, rowsSeen>>

CloudInit ==
    /\ cloudServer = CloudFiles /\ changes = 0 /\ cloudPc = "idle" /\ fileIndex = 0 /\ files = <<>>
    /\ ever = {} /\ always = {}
    /\ cloudPage = <<>> /\ tableOpen = FALSE /\ apps = <<>> /\ rowsSeen = <<>>

----------------------------------------------------------------------------
\* Files::load(): the files so far are dropped.
LoadFiles ==
    /\ cloudPc = "idle" /\ cloudPc' = "files"
    /\ files' = <<>> /\ fileIndex' = 0
    /\ ever' = Range(cloudServer) /\ always' = Range(cloudServer)
    /\ UNCHANGED <<cloudServer, changes, pageVars>>

\* A file is gone, or a new version of it comes last.
FilesChange(f) ==
    /\ changes < MaxChanges /\ f \in Range(cloudServer) /\ changes' = changes + 1
    /\ LET k == CHOOSE i \in 1..Len(cloudServer) : cloudServer[i] = f
       IN /\ \/ cloudServer' = RemoveAt(cloudServer, k)
             \/ cloudServer' = Append(RemoveAt(cloudServer, k), f)
          /\ always' = always \ {cloudServer[i] : i \in k..Len(cloudServer)}
    /\ UNCHANGED <<cloudPc, fileIndex, files, ever, pageVars>>

\* InvalidFileException: the file is left out, and counted.
Valid(fs) == Kept(fs, Range(CloudFiles) \ Broken)

\* One round of the loop: a chunk, and whether there is more.
ReceiveChunk(count) ==
    /\ cloudPc = "files"
    /\ LET from == IF fileIndex < Len(cloudServer) THEN fileIndex ELSE Len(cloudServer)
           chunk == SubSeq(cloudServer, from + 1, from + count)
       IN /\ from + count <= Len(cloudServer) /\ (count = 0 => from = Len(cloudServer))
          /\ files' = files \o Valid(chunk)
          /\ fileIndex' = fileIndex + Len(chunk)
          /\ cloudPc' = IF fileIndex' < Len(cloudServer) THEN "files" ELSE "idle"
    /\ UNCHANGED <<cloudServer, changes, ever, always, pageVars>>

----------------------------------------------------------------------------
\* Apps::load() has got a page and its table begins.
LoadApps(p) ==
    /\ cloudPc = "idle" /\ cloudPc' = "page"
    /\ cloudPage' = p /\ tableOpen' = TRUE /\ apps' = <<>> /\ rowsSeen' = <<>>
    /\ UNCHANGED fileVars

\* getTextChild(): a number and a size are texts too.
TextChild(cell) == cell \notin {"nothing", "link"}

\* The other columns: parseNumber(), parseNumberPrefix() with a unit, getParam() of a link.
NumberOfFiles(cell) == TextChild(cell) /\ cell = "number"
TotalSizeOfFiles(cell) == TextChild(cell) /\ cell = "size"
ShowFiles(cell) == cell = "link"

\* handleHeadRow(): exactly the three headers. A fourth th is compared with what lies
\* behind the array; whether it is equal or not, the row is not as expected then.
HeadRow(cells) == cells = Headers

\* handleBodyRow(): exactly four cells that can be read.
BodyRow(cells) ==
    /\ Len(cells) = 4
    /\ TextChild(cells[1]) /\ NumberOfFiles(cells[2])
    /\ TotalSizeOfFiles(cells[3]) /\ ShowFiles(cells[4])

RowAsExpected(row) == IF row.section = "thead" THEN HeadRow(row.cells) ELSE BodyRow(row.cells)

\* handleRow(): a row that is not as expected ends the table.
ReadRow ==
    /\ cloudPc = "page" /\ cloudPage # <<>>
    /\ LET row == Head(cloudPage)
       IN /\ tableOpen' = (tableOpen /\ RowAsExpected(row))
          /\ apps' = IF tableOpen /\ RowAsExpected(row) /\ row.section = "tbody"
                     THEN Append(apps, row) ELSE apps
          /\ rowsSeen' = Append(rowsSeen, row)
    /\ cloudPage' = Tail(cloudPage)
    /\ UNCHANGED <<cloudPc, fileVars>>

\* The end of the page, or a SyntaxException in it: what has been read stays.
PageEnds ==
    /\ cloudPc = "page" /\ cloudPc' = "idle" /\ tableOpen' = FALSE /\ cloudPage' = <<>>
    /\ UNCHANGED <<fileVars, apps, rowsSeen>>

CloudNext ==
    \/ LoadFiles \/ ReadRow \/ PageEnds
    \/ \E f \in Range(CloudFiles) : FilesChange(f)
    \/ \E count \in 0..Len(CloudFiles) : ReceiveChunk(count)
    \/ \E p \in CloudPages : LoadApps(p)

CloudSpec == CloudInit /\ [][CloudNext]_cloudVars

----------------------------------------------------------------------------
\* Type invariant.
CloudTypeOK ==
    /\ cloudPc \in {"idle", "files", "page"} /\ fileIndex \in 0..(2 * Len(CloudFiles))
    /\ \A s \in {cloudServer, files} : Range(s) \subseteq Range(CloudFiles)
    /\ changes \in 0..MaxChanges /\ tableOpen \in BOOLEAN

\* When the loop ends it has every good file that stayed where it was, in Steam's order
\* and once; and no file that Steam did not have. So without a change the list is complete
\* (Cloud/Files.cpp:63-82, 130-169).
FilesAreComplete ==
    /\ Range(files) \subseteq ever \ Broken
    /\ cloudPc = "idle" /\ ever # {} /\ changes = 0 => files = Valid(cloudServer)
    /\ cloudPc = "idle" /\ ever # {} =>
           \A f \in always \ Broken : Count(files, {f}) = 1

\* No file is missing or listed twice. TLC finds this violated: chunks are asked for by
\* index, and a file that moves between two of them is skipped or sent again. The comment
\* above the loop asks whether anything can be done about it (Cloud/Files.cpp:125-128).
FilesAreExact ==
    cloudPc = "idle" /\ ever # {} => files = Valid(cloudServer)

\* The rows that can be of apps.
BodyRows == {row \in UNION {Range(table) : table \in CloudPages} : row.section = "tbody"}

\* The apps are the rows of the table up to the first one that is not as expected
\* (Cloud/Apps.cpp:146-175, 268-317).
AppsAreTheRows ==
    \A n \in 0..Len(rowsSeen) :
           /\ \A k \in 1..n : RowAsExpected(rowsSeen[k])
           /\ n < Len(rowsSeen) => ~RowAsExpected(rowsSeen[n + 1])
        => apps = Kept(SubSeq(rowsSeen, 1, n), BodyRows)

=============================================================================
