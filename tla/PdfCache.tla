------------------------------ MODULE PdfCache -----------------------------
(***************************************************************************)
(* PdfStorageService for one policy: the certificate is fetched from PVI   *)
(* when it is first asked for, kept in storage/policies and served from    *)
(* there ever after.  Downloads run side by side and nothing locks the     *)
(* file.  fs.writeFile truncates it and then writes block after block, and *)
(* createReadStream reads block after block, so that every handler sees    *)
(* the file in whatever state the others have brought it to.               *)
(*                                                                         *)
(* A file that is absent and one of size 0 are the same to this code.      *)
(***************************************************************************)
EXTENDS Integers

CONSTANTS
  Document,        \* the PDFs PVI may have behind the policy's URL
  Length,          \* the blocks of each
  Blocks,          \* bound of those
  Download,        \* GET /files/policies/{maGiaodich}.pdf
  NoDocument, Hole

ASSUME CacheAssumption ==
  /\ Blocks \in Nat
  /\ Length \in [Document -> 1 .. Blocks]
  /\ NoDocument \notin Document /\ Hole \notin Document

VARIABLES
  pdfUrl,      \* Transaction.pdfUrl
  file,        \* {maGiaodich}.pdf
  download,    \* getOrFetch calls and the answers they stream
  torn         \* history: the file may be no document, see Breaks and OpenFile

cacheVars == <<pdfUrl, file, download, torn>>

Block == [1 .. Blocks -> Document \cup {Hole}]
NoBlock == [i \in 1 .. Blocks |-> Hole]
Content == [size : 0 .. Blocks, block : Block]
Empty == [size |-> 0, block |-> NoBlock]

(* stat: about to look for the file.  find: about to read pdfUrl.  get:    *)
(* waits for PVI.  open, write: fs.writeFile.  read: streams the file.     *)
(* sent: answered in full.  cut: the connection broke before Content-      *)
(* Length.                                                                 *)
InFlight == {"stat", "find", "get", "open", "write", "read"}

Handler == [step : InFlight \cup {"none", "sent", "cut", "notFound", "failed"},
            doc : Document \cup {NoDocument},
            at : 0 .. Blocks,         \* blocks written, or read
            answer : Content,         \* size: the header Content-Length
            calm : BOOLEAN]           \* history: nobody wrote while it read

CacheInit ==
  /\ pdfUrl = NoDocument
  /\ file = Empty
  /\ download = [g \in Download |-> [step |-> "none", doc |-> NoDocument, at |-> 0,
                                     answer |-> Empty, calm |-> TRUE]]
  /\ torn = FALSE

Writers == {g \in Download : download[g].step = "write"}

\* The content f is document d, from the first block to the last.
IsDocument(f, d) == f.size = Length[d] /\ \A i \in 1 .. Length[d] : f.block[i] = d

\* Callback, poll and reconciliation write the URL PVI names, which may be another
\* than before.
Issue(d) ==
  /\ pdfUrl' = d
  /\ UNCHANGED <<file, download, torn>>

Ask(g) ==
  /\ download[g].step = "none"
  /\ download' = [download EXCEPT ![g].step = "stat"]
  /\ UNCHANGED <<pdfUrl, file, torn>>

\* Fault: "if (stat.size >= 0)".
IsCachedIfThere(f) == f.size >= 0

IsCached(f) == f.size > 0

Stat(g) ==
  /\ download[g].step = "stat"
  /\ download' = IF IsCached(file)
                 THEN [download EXCEPT ![g].step = "read", ![g].answer.size = file.size,
                                       ![g].calm = Writers = {} /\ ~torn]
                 ELSE [download EXCEPT ![g].step = "find"]
  /\ UNCHANGED <<pdfUrl, file, torn>>

ReadBlock(g) ==
  LET n == download[g].at + 1
      sofar == download[g].answer
      longer == [size |-> sofar.size, block |-> [sofar.block EXCEPT ![n] = file.block[n]]]
  IN /\ download[g].step = "read"
     /\ n <= sofar.size /\ n <= file.size
     /\ download' = [download EXCEPT ![g].at = n, ![g].answer = longer]
     /\ UNCHANGED <<pdfUrl, file, torn>>

\* The client has what Content-Length says.
EndAnswer(g) ==
  /\ download[g].step = "read"
  /\ download[g].at = download[g].answer.size
  /\ download' = [download EXCEPT ![g].step = "sent"]
  /\ UNCHANGED <<pdfUrl, file, torn>>

\* The file ends before.
CutAnswer(g) ==
  /\ download[g].step = "read"
  /\ file.size <= download[g].at /\ download[g].at < download[g].answer.size
  /\ download' = [download EXCEPT ![g].step = "cut"]
  /\ UNCHANGED <<pdfUrl, file, torn>>

FindUrl(g) ==
  /\ download[g].step = "find"
  /\ download' = IF pdfUrl = NoDocument
                 THEN [download EXCEPT ![g].step = "notFound"]
                 ELSE [download EXCEPT ![g].step = "get", ![g].doc = pdfUrl]
  /\ UNCHANGED <<pdfUrl, file, torn>>

Fetch(g) ==
  /\ download[g].step = "get"
  /\ download' = [download EXCEPT ![g].step = "open"]
  /\ UNCHANGED <<pdfUrl, file, torn>>

\* Fault: the file is opened without O_TRUNC.
TruncatedNot(f) == f

Truncated(f) == Empty

\* A second writer of another document spoils what the first one writes; a writer
\* alone starts afresh.
OpenFile(g) ==
  /\ download[g].step = "open"
  /\ file' = Truncated(file)
  /\ download' = [h \in Download |->
       CASE h = g -> [download[g] EXCEPT !.step = "write"]
         [] download[h].step = "read" -> [download[h] EXCEPT !.calm = FALSE]
         [] OTHER -> download[h]]
  /\ torn' = (Writers # {} /\ (torn \/ \E w \in Writers : download[w].doc # download[g].doc))
  /\ UNCHANGED pdfUrl

\* f with block n from document d; what lies between its end and n is a hole.
Written(f, n, d) ==
  [size |-> IF n > f.size THEN n ELSE f.size,
   block |-> [i \in 1 .. Blocks |->
                IF i = n THEN d ELSE IF i > f.size THEN Hole ELSE f.block[i]]]

WriteBlock(g) ==
  LET d == download[g].doc
      n == download[g].at + 1
  IN /\ download[g].step = "write"
     /\ n <= Length[d]
     /\ file' = Written(file, n, d)
     /\ download' = [download EXCEPT ![g].at = n]
     /\ UNCHANGED <<pdfUrl, torn>>

\* The answer comes from the buffer.
Finish(g) ==
  LET d == download[g].doc
  IN /\ download[g].step = "write"
     /\ download[g].at = Length[d]
     /\ download' = [download EXCEPT ![g].step = "sent",
          ![g].answer = [size |-> Length[d],
                         block |-> [i \in 1 .. Blocks |-> IF i <= Length[d] THEN d ELSE Hole]]]
     /\ UNCHANGED <<pdfUrl, file, torn>>

\* What writers that stop halfway leave behind: nothing, if nobody has written yet and
\* nobody else writes.
Breaks(stopped) ==
  /\ stopped \cap Writers # {}
  /\ file.size > 0 \/ Writers \ stopped # {}

\* The disk, the database or PVI fails, or PVI takes too long.
Fail(g) ==
  /\ download[g].step \in InFlight
  /\ download' = [download EXCEPT ![g].step = "failed"]
  /\ torn' = (torn \/ Breaks({g}))
  /\ UNCHANGED <<pdfUrl, file>>

\* The server dies and starts again; the file stays as it is.
Restart ==
  /\ \E g \in Download : download[g].step \in InFlight
  /\ download' = [g \in Download |-> IF download[g].step \in InFlight
                                     THEN [download[g] EXCEPT !.step = "failed"]
                                     ELSE download[g]]
  /\ torn' = (torn \/ Breaks(Download))
  /\ UNCHANGED <<pdfUrl, file>>

CacheNext ==
  \/ \E d \in Document : Issue(d)
  \/ \E g \in Download : \/ Ask(g) \/ Stat(g) \/ FindUrl(g) \/ Fetch(g)
                         \/ OpenFile(g) \/ WriteBlock(g) \/ Finish(g)
                         \/ ReadBlock(g) \/ EndAnswer(g) \/ CutAnswer(g)
                         \/ Fail(g)
  \/ Restart

CacheSpec == CacheInit /\ [][CacheNext]_cacheVars

-----------------------------------------------------------------------------
CacheTypeOK ==
  /\ pdfUrl \in Document \cup {NoDocument}
  /\ file \in Content
  /\ download \in [Download -> Handler]
  /\ torn \in BOOLEAN

\* However many downloads have written it at once, the file they leave is empty or one
\* document from end to end; only a writer that stopped halfway, or two that wrote
\* different documents, can have left anything else.
FileIsWhole ==
  Writers = {} /\ ~torn => file.size = 0 \/ \E d \in Document : IsDocument(file, d)

\* A client gets one document from end to end, unless somebody was writing the file,
\* or had spoilt it, while it was read.
ServedWhole ==
  \A g \in Download : download[g].step = "sent" /\ download[g].calm =>
    \E d \in Document : IsDocument(download[g].answer, d)

\* The same of every download.  It fails: part of a document that a crash left behind
\* is served as if it were the whole.
AlwaysServedWhole ==
  \A g \in Download : download[g].step = "sent" =>
    \E d \in Document : IsDocument(download[g].answer, d)
=============================================================================
