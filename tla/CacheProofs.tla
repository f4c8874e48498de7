---------------------------- MODULE CacheProofs ----------------------------
(***************************************************************************)
(* Proofs about PdfCache, for any number of downloads and documents.       *)
(*                                                                         *)
(* Why the file ends up whole although nothing locks it: of the writers    *)
(* that have it open, the one that opened it last has all its blocks in    *)
(* place, because nobody has truncated the file since and the others, with *)
(* the same document, only ever write what it would.                       *)
(***************************************************************************)
EXTENDS PdfCache, TLAPS

Doc(g) == download[g].doc
Step(g) == download[g].step

\* The first n blocks are those of d.
Laid(f, d, n) == n <= f.size /\ \A i \in 1 .. n : f.block[i] = d

\* Handlers know what they need.
HandlersKnow ==
  \A g \in Download :
    /\ Step(g) \in {"none", "stat", "find", "get", "open"} => download[g].at = 0
    /\ Step(g) \in {"get", "open", "write"} => Doc(g) \in Document
    /\ Step(g) = "write" => download[g].at <= Length[Doc(g)]

\* Nobody writes, and what is there is complete.
Quiet ==
  /\ Writers = {}
  /\ file.size = 0 \/ \E d \in Document : IsDocument(file, d)

\* All writers write d, which is there already or which one of them has laid from the
\* start.
Busy(d) ==
  /\ Writers # {}
  /\ \A w \in Writers : Doc(w) = d
  /\ file.size <= Length[d]
  /\ \A i \in 1 .. file.size : file.block[i] \in {d, Hole}
  /\ IsDocument(file, d) \/ \E w \in Writers : Laid(file, d, download[w].at)

FileInv == ~torn => Quiet \/ \E d \in Document : Busy(d)

\* Who reads in peace reads a document.
ReadersInv ==
  \A g \in Download : Step(g) = "read" /\ download[g].calm =>
    /\ Writers = {} /\ ~torn
    /\ download[g].answer.size = file.size
    /\ \E d \in Document : IsDocument(file, d)
    /\ download[g].at <= file.size
    /\ \A i \in 1 .. download[g].at : download[g].answer.block[i] = file.block[i]

CacheInv == CacheTypeOK /\ HandlersKnow /\ FileInv /\ ReadersInv /\ ServedWhole

-----------------------------------------------------------------------------
LEMMA LengthType == \A d \in Document : Length[d] \in 1 .. Blocks /\ Length[d] \in Nat
  BY CacheAssumption

LEMMA EmptyType == Empty \in Content /\ Empty.size = 0
<1>1. 0 \in 0 .. Blocks
  BY CacheAssumption
<1> QED BY <1>1 DEF Empty, Content, Block, NoBlock

LEMMA CacheInitInv == CacheInit => CacheInv
<1> SUFFICES ASSUME CacheInit  PROVE CacheInv
  OBVIOUS
<1>1. CacheTypeOK
  BY EmptyType, CacheAssumption DEF CacheInit, CacheTypeOK, Handler, Content
<1>2. \A g \in Download : download[g].step = "none" /\ download[g].at = 0
  BY DEF CacheInit
<1>3. Writers = {} /\ file.size = 0 /\ ~torn
  BY <1>2, EmptyType DEF CacheInit, Writers
<1> QED BY <1>1, <1>2, <1>3
        DEF CacheInv, HandlersKnow, FileInv, Quiet, ReadersInv, ServedWhole, Doc, Step

\* The steps of one handler that touch neither the file nor the writers.
LEMMA HandlerStep ==
  ASSUME CacheInv, NEW g \in Download, NEW h \in Handler,
         download[g].step # "write", h.step # "write",
         download' = [download EXCEPT ![g] = h],
         file' = file, torn' = torn, pdfUrl' \in Document \cup {NoDocument},
         h.step \in {"none", "stat", "find", "get", "open"} => h.at = 0,
         h.step \in {"get", "open"} => h.doc \in Document,
         h.step = "read" /\ h.calm =>
           /\ Writers = {} /\ ~torn /\ h.answer.size = file.size
           /\ \E d \in Document : IsDocument(file, d)
           /\ h.at <= file.size
           /\ \A i \in 1 .. h.at : h.answer.block[i] = file.block[i],
         h.step = "sent" /\ h.calm => \E d \in Document : IsDocument(h.answer, d)
  PROVE  CacheInv'
<1> USE DEF CacheInv
<1>1. CacheTypeOK'
  BY DEF CacheTypeOK
<1>2. /\ \A x \in Download \ {g} : download'[x] = download[x]
      /\ download'[g] = h
  BY DEF CacheTypeOK
<1>3. Writers' = Writers
  BY <1>2 DEF Writers
<1>4. HandlersKnow'
  BY <1>2 DEF HandlersKnow, Doc, Step
<1>5. \A w \in Writers : download'[w] = download[w]
  BY <1>2 DEF Writers
<1>6. FileInv'
  <2>1. Quiet => Quiet'
    BY <1>3 DEF Quiet, IsDocument
  <2>2. \A d \in Document : Busy(d) => Busy(d)'
    BY <1>3, <1>5 DEF Busy, IsDocument, Laid, Doc
  <2> QED BY <2>1, <2>2 DEF FileInv
<1>7. ReadersInv'
  BY <1>2, <1>3 DEF ReadersInv, Step, IsDocument
<1>8. ServedWhole'
  BY <1>2 DEF ServedWhole, IsDocument
<1> QED BY <1>1, <1>4, <1>6, <1>7, <1>8

LEMMA QuietHandler ==
  ASSUME CacheInv, NEW g \in Download, Ask(g) \/ Stat(g) \/ FindUrl(g) \/ Fetch(g)
  PROVE  CacheInv'
<1> USE DEF CacheInv
<1>1. download[g] \in Handler /\ download[g].step # "write"
  BY DEF CacheTypeOK, Ask, Stat, FindUrl, Fetch
<1>2. CASE Ask(g)
  <2> DEFINE h == [download[g] EXCEPT !.step = "stat"]
  <2>1. h \in Handler /\ h.step = "stat" /\ h.at = 0
    BY <1>1, <1>2 DEF Handler, InFlight, Ask, HandlersKnow, Step
  <2>2. download' = [download EXCEPT ![g] = h]
    BY <1>2 DEF Ask, CacheTypeOK
  <2> HIDE DEF h
  <2> QED BY <1>1, <1>2, <2>1, <2>2, HandlerStep DEF Ask, CacheTypeOK
<1>3. CASE Stat(g) /\ IsCached(file)
  <2> DEFINE h == [download[g] EXCEPT !.step = "read", !.answer.size = file.size,
                                      !.calm = Writers = {} /\ ~torn]
  <2>1. h.step = "read" /\ h.at = 0 /\ h.answer.size = file.size
    BY <1>1, <1>3 DEF Handler, Content, Stat, HandlersKnow, Step
  <2>2. h \in Handler
    BY <1>1 DEF Handler, Content, InFlight, CacheTypeOK
  <2>3. download' = [download EXCEPT ![g] = h]
    BY <1>3 DEF Stat, CacheTypeOK
  <2>4. h.calm => Writers = {} /\ ~torn
    BY <1>1 DEF Handler
  <2> HIDE DEF h
  <2>5. file.size \in Nat /\ file.size > 0
    BY <1>3, CacheAssumption DEF IsCached, CacheTypeOK, Content
  <2>6. h.calm => /\ \E d \in Document : IsDocument(file, d)
                  /\ h.at <= file.size
                  /\ \A i \in 1 .. h.at : h.answer.block[i] = file.block[i]
    BY <2>1, <2>4, <2>5 DEF FileInv, Quiet, Busy
  <2> QED BY <1>1, <1>3, <2>1, <2>2, <2>3, <2>4, <2>6, HandlerStep DEF Stat, CacheTypeOK
<1>4. CASE Stat(g) /\ ~IsCached(file)
  <2> DEFINE h == [download[g] EXCEPT !.step = "find"]
  <2>1. h \in Handler /\ h.step = "find" /\ h.at = 0
    BY <1>1, <1>4 DEF Handler, InFlight, Stat, HandlersKnow, Step
  <2>2. download' = [download EXCEPT ![g] = h]
    BY <1>4 DEF Stat, CacheTypeOK
  <2> HIDE DEF h
  <2> QED BY <1>1, <1>4, <2>1, <2>2, HandlerStep DEF Stat, CacheTypeOK
<1>5. CASE FindUrl(g) /\ pdfUrl = NoDocument
  <2> DEFINE h == [download[g] EXCEPT !.step = "notFound"]
  <2>1. h \in Handler /\ h.step = "notFound"
    BY <1>1 DEF Handler
  <2>2. download' = [download EXCEPT ![g] = h]
    BY <1>5 DEF FindUrl, CacheTypeOK
  <2> HIDE DEF h
  <2> QED BY <1>1, <1>5, <2>1, <2>2, HandlerStep DEF FindUrl, CacheTypeOK
<1>6. CASE FindUrl(g) /\ pdfUrl # NoDocument
  <2> DEFINE h == [download[g] EXCEPT !.step = "get", !.doc = pdfUrl]
  <2>1. h \in Handler /\ h.step = "get" /\ h.at = 0 /\ h.doc \in Document
    BY <1>1, <1>6 DEF Handler, InFlight, FindUrl, HandlersKnow, Step, CacheTypeOK
  <2>2. download' = [download EXCEPT ![g] = h]
    BY <1>6 DEF FindUrl, CacheTypeOK
  <2> HIDE DEF h
  <2> QED BY <1>1, <1>6, <2>1, <2>2, HandlerStep DEF FindUrl, CacheTypeOK
<1>7. CASE Fetch(g)
  <2> DEFINE h == [download[g] EXCEPT !.step = "open"]
  <2>1. h \in Handler /\ h.step = "open" /\ h.at = 0 /\ h.doc \in Document
    BY <1>1, <1>7 DEF Handler, InFlight, Fetch, HandlersKnow, Step, Doc
  <2>2. download' = [download EXCEPT ![g] = h]
    BY <1>7 DEF Fetch, CacheTypeOK
  <2> HIDE DEF h
  <2> QED BY <1>1, <1>7, <2>1, <2>2, HandlerStep DEF Fetch, CacheTypeOK
<1> QED BY <1>2, <1>3, <1>4, <1>5, <1>6, <1>7

LEMMA ReadStep ==
  ASSUME CacheInv, NEW g \in Download, ReadBlock(g) \/ EndAnswer(g) \/ CutAnswer(g)
  PROVE  CacheInv'
<1> USE DEF CacheInv
<1> DEFINE a == download[g].answer
           n == download[g].at + 1
<1>1. /\ download[g] \in Handler /\ download[g].step = "read"
      /\ a \in Content /\ a.size \in Nat /\ download[g].at \in Nat /\ file.size \in 0 .. Blocks
      /\ Blocks \in Nat
  BY CacheAssumption DEF CacheTypeOK, ReadBlock, EndAnswer, CutAnswer, Handler, Content
<1>2. CASE EndAnswer(g)
  <2> DEFINE h == [download[g] EXCEPT !.step = "sent"]
  <2>1. h \in Handler /\ h.step = "sent" /\ h.answer = a /\ h.calm = download[g].calm
    BY <1>1 DEF Handler
  <2>2. download' = [download EXCEPT ![g] = h]
    BY <1>2 DEF EndAnswer, CacheTypeOK
  <2>3. h.calm => \E d \in Document : IsDocument(h.answer, d)
    BY <1>1, <1>2, <2>1 DEF EndAnswer, ReadersInv, Step, IsDocument
  <2> HIDE DEF h
  <2> QED BY <1>1, <1>2, <2>1, <2>2, <2>3, HandlerStep DEF EndAnswer, CacheTypeOK
<1>3. CASE ReadBlock(g)
  <2> DEFINE longer == [size |-> a.size, block |-> [a.block EXCEPT ![n] = file.block[n]]]
             h == [download[g] EXCEPT !.at = n, !.answer = longer]
  <2>1. n \in 1 .. Blocks /\ file.block[n] \in Document \cup {Hole}
    BY <1>1, <1>3 DEF ReadBlock, CacheTypeOK, Content, Block
  <2>2. h.step = "read" /\ h.at = n /\ h.calm = download[g].calm
        /\ h.answer.size = a.size /\ h.answer.block = [a.block EXCEPT ![n] = file.block[n]]
    BY <1>1 DEF Handler, Content
  <2>3. longer \in Content
    BY <1>1, <2>1 DEF Content, Block
  <2>4. h \in Handler
    <3>1. n \in 0 .. Blocks
      BY <2>1
    <3> HIDE DEF n, longer
    <3> QED BY <1>1, <2>3, <3>1 DEF Handler
  <2>5. download' = [download EXCEPT ![g] = h]
    <3>1. download' = [download EXCEPT ![g].at = n, ![g].answer = longer]
      BY <1>3 DEF ReadBlock
    <3> HIDE DEF n, longer
    <3> QED BY <3>1 DEF CacheTypeOK
  <2>6. h.calm =>
          /\ Writers = {} /\ ~torn /\ h.answer.size = file.size
          /\ \E d \in Document : IsDocument(file, d)
          /\ h.at <= file.size
          /\ \A i \in 1 .. h.at : h.answer.block[i] = file.block[i]
    <3> SUFFICES ASSUME h.calm
                 PROVE  /\ Writers = {} /\ ~torn /\ h.answer.size = file.size
                        /\ \E d \in Document : IsDocument(file, d)
                        /\ h.at <= file.size
                        /\ \A i \in 1 .. h.at : h.answer.block[i] = file.block[i]
      OBVIOUS
    <3>1. /\ Writers = {} /\ ~torn /\ a.size = file.size
          /\ \E d \in Document : IsDocument(file, d)
          /\ \A i \in 1 .. download[g].at : a.block[i] = file.block[i]
      BY <1>1, <2>2 DEF ReadersInv, Step
    <3>2. ASSUME NEW i \in 1 .. n  PROVE h.answer.block[i] = file.block[i]
      <4>1. i = n \/ i \in 1 .. download[g].at
        BY <1>1
      <4>2. i \in 1 .. Blocks /\ a.block \in [1 .. Blocks -> Document \cup {Hole}]
        BY <1>1, <2>1 DEF Content, Block
      <4> HIDE DEF h
      <4> QED BY <2>1, <2>2, <3>1, <4>1, <4>2
    <3> HIDE DEF h
    <3> QED BY <1>1, <1>3, <2>2, <3>1, <3>2 DEF ReadBlock
  <2> HIDE DEF h
  <2> QED BY <1>1, <1>3, <2>1, <2>2, <2>3, <2>4, <2>5, <2>6, HandlerStep DEF ReadBlock, CacheTypeOK
<1>4. CASE CutAnswer(g)
  <2> DEFINE h == [download[g] EXCEPT !.step = "cut"]
  <2>1. h \in Handler /\ h.step = "cut"
    BY <1>1 DEF Handler
  <2>2. download' = [download EXCEPT ![g] = h]
    BY <1>4 DEF CutAnswer, CacheTypeOK
  <2> HIDE DEF h
  <2> QED BY <1>1, <1>4, <2>1, <2>2, HandlerStep DEF CutAnswer, CacheTypeOK
<1> QED BY <1>2, <1>3, <1>4

-----------------------------------------------------------------------------
(* The steps of writers. *)

LEMMA OpenStep ==
  ASSUME CacheInv, NEW g \in Download, OpenFile(g)
  PROVE  CacheInv'
<1> USE DEF CacheInv
<1>1. /\ download[g] \in Handler /\ download[g].step = "open"
      /\ download[g].at = 0 /\ Doc(g) \in Document
  BY DEF CacheTypeOK, OpenFile, HandlersKnow, Step
<1>2. /\ file' = Empty /\ pdfUrl' = pdfUrl
      /\ torn' = (Writers # {} /\ (torn \/ \E w \in Writers : Doc(w) # Doc(g)))
  BY DEF OpenFile, Truncated, Doc
<1>3. /\ download' \in [Download -> Handler]
      /\ download'[g] = [download[g] EXCEPT !.step = "write"]
      /\ \A h \in Download \ {g} : download'[h] =
           IF download[h].step = "read" THEN [download[h] EXCEPT !.calm = FALSE] ELSE download[h]
  <2>1. \A h \in Download : download'[h] =
          IF h = g THEN [download[g] EXCEPT !.step = "write"]
          ELSE IF download[h].step = "read" THEN [download[h] EXCEPT !.calm = FALSE]
          ELSE download[h]
    BY DEF OpenFile
  <2>2. \A h \in Download : download'[h] \in Handler
    BY <2>1 DEF CacheTypeOK, Handler, InFlight
  <2>3. download' = [h \in Download |-> download'[h]]
    BY DEF OpenFile
  <2> QED BY <1>1, <2>1, <2>2, <2>3
<1>4. /\ download'[g].step = "write" /\ download'[g].at = 0 /\ Doc(g)' = Doc(g)
      /\ \A h \in Download \ {g} :
           /\ download'[h].step = download[h].step /\ download'[h].at = download[h].at
           /\ Doc(h)' = Doc(h) /\ download'[h].answer = download[h].answer
           /\ download[h].step = "read" => download'[h].calm = FALSE
           /\ download[h].step # "read" => download'[h].calm = download[h].calm
  BY <1>1, <1>3 DEF Handler, Doc, CacheTypeOK
<1>5. Writers' = Writers \cup {g}
  BY <1>4 DEF Writers
<1>6. CacheTypeOK'
  BY <1>2, <1>3, EmptyType DEF CacheTypeOK
<1>7. HandlersKnow'
  BY <1>1, <1>4, LengthType DEF HandlersKnow, Step
<1>8. FileInv'
  <2> SUFFICES ASSUME ~torn'  PROVE Busy(Doc(g))'
    BY <1>1, <1>4 DEF FileInv
  <2>1. \A w \in Writers : Doc(w) = Doc(g)
    BY <1>2
  <2>2. \A w \in Writers' : Doc(w)' = Doc(g)
    BY <1>4, <1>5, <2>1 DEF Writers
  <2>3. file'.size = 0
    BY <1>2, EmptyType
  <2>4. Laid(file', Doc(g), download'[g].at)
    BY <1>4, <2>3 DEF Laid
  <2> QED BY <1>1, <1>4, <1>5, <2>2, <2>3, <2>4, LengthType DEF Busy
<1>9. ReadersInv'
  BY <1>4 DEF ReadersInv, Step
<1>10. ServedWhole'
  BY <1>4 DEF ServedWhole, IsDocument
<1> QED BY <1>6, <1>7, <1>8, <1>9, <1>10

\* A block of d written into what is blocks of d and holes.
LEMMA WrittenType ==
  ASSUME NEW f \in Content, NEW n \in 1 .. Blocks, NEW d \in Document
  PROVE  /\ Written(f, n, d) \in Content
         /\ Written(f, n, d).size \in Nat
         /\ n <= Written(f, n, d).size /\ f.size <= Written(f, n, d).size
         /\ Written(f, n, d).size \in {n, f.size}
         /\ \A i \in 1 .. Blocks : Written(f, n, d).block[i] =
              IF i = n THEN d ELSE IF i > f.size THEN Hole ELSE f.block[i]
  BY CacheAssumption DEF Written, Content, Block

LEMMA WriteStep ==
  ASSUME CacheInv, NEW g \in Download, WriteBlock(g)
  PROVE  CacheInv'
<1> USE DEF CacheInv
<1> DEFINE n == download[g].at + 1
<1>0. PICK d \in Document : d = Doc(g)
  BY DEF WriteBlock, HandlersKnow, Step
<1>1. /\ download[g] \in Handler /\ download[g].step = "write"
      /\ download[g].at \in Nat /\ n <= Length[d]
  BY <1>0, CacheAssumption DEF CacheTypeOK, WriteBlock, HandlersKnow, Step, Handler, Doc
<1>2. n \in 1 .. Blocks /\ n \in Nat /\ Length[d] \in Nat
  BY <1>0, <1>1, LengthType, CacheAssumption
<1>3. /\ file' = Written(file, n, d)
      /\ download' = [download EXCEPT ![g].at = n]
      /\ pdfUrl' = pdfUrl /\ torn' = torn
  BY <1>0 DEF WriteBlock, Doc
<1>4. file \in Content /\ file.size \in Nat /\ file.size <= Blocks
  BY CacheAssumption DEF CacheTypeOK, Content
<1>5. \A x \in Download \ {g} : download'[x] = download[x]
  <2> HIDE DEF n
  <2> QED BY <1>3 DEF CacheTypeOK
<1>6. /\ download'[g].step = "write" /\ download'[g].at = n /\ Doc(g)' = d
      /\ download'[g] \in Handler
  <2>1. n \in 0 .. Blocks
    BY <1>2
  <2> HIDE DEF n
  <2>2. download'[g] = [download[g] EXCEPT !.at = n]
    BY <1>3 DEF CacheTypeOK
  <2> QED BY <1>0, <1>1, <2>1, <2>2 DEF Handler, Doc
<1>7. Writers' = Writers /\ g \in Writers
  BY <1>1, <1>5, <1>6 DEF Writers
<1>8. CacheTypeOK'
  <2>1. download' \in [Download -> Handler]
    <3> HIDE DEF n
    <3> QED BY <1>3, <1>5, <1>6 DEF CacheTypeOK
  <2> QED BY <1>1, <1>2, <1>3, <1>4, <2>1, WrittenType DEF CacheTypeOK
<1>9. HandlersKnow'
  BY <1>0, <1>1, <1>5, <1>6 DEF HandlersKnow, Step, Doc
<1>10. FileInv'
  <2> SUFFICES ASSUME ~torn'  PROVE Busy(d)'
    BY DEF FileInv
  <2>1. Busy(d)
    BY <1>0, <1>3, <1>7 DEF FileInv, Quiet, Busy
  <2>2. \A w \in Writers' : Doc(w)' = d
    BY <1>5, <1>6, <1>7, <2>1 DEF Busy, Doc, Writers
  <2>3. file'.size <= Length[d] /\ n <= file'.size /\ file.size <= file'.size /\ file'.size \in Nat
    BY <1>1, <1>2, <1>3, <1>4, <2>1, WrittenType DEF Busy
  <2>4. \A i \in 1 .. Blocks : file'.block[i] =
          IF i = n THEN d ELSE IF i > file.size THEN Hole ELSE file.block[i]
    BY <1>1, <1>2, <1>3, <1>4, WrittenType
  <2>5. Length[d] \in 1 .. Blocks /\ Blocks \in Nat
    BY <1>0, LengthType, CacheAssumption
  <2>6. \A i \in 1 .. file'.size : file'.block[i] \in {d, Hole}
    <3> SUFFICES ASSUME NEW i \in 1 .. file'.size  PROVE file'.block[i] \in {d, Hole}
      OBVIOUS
    <3>1. i \in 1 .. Blocks /\ (i <= file.size => i \in 1 .. file.size)
      BY <1>4, <2>3, <2>5
    <3> HIDE DEF n
    <3> QED BY <1>4, <2>1, <2>4, <3>1 DEF Busy
  <2>7. CASE IsDocument(file, d)
    <3>1. file'.size = Length[d]
      BY <1>4, <2>3, <2>5, <2>7 DEF IsDocument
    <3>2. \A i \in 1 .. Length[d] : file'.block[i] = d
      <4> HIDE DEF n
      <4> QED BY <1>4, <2>4, <2>5, <2>7 DEF IsDocument
    <3>3. IsDocument(file, d)'
      BY <3>1, <3>2 DEF IsDocument
    <3> QED BY <1>7, <2>2, <2>3, <2>6, <3>3 DEF Busy
  <2>8. CASE \E w \in Writers : Laid(file, d, download[w].at)
    <3>1. PICK w \in Writers : Laid(file, d, download[w].at)
      BY <2>8
    <3>2. download[w].at \in Nat /\ download[w].at <= file.size
      BY <3>1 DEF Laid, Writers, CacheTypeOK, Handler
    <3>3. \A i \in 1 .. download[w].at : file'.block[i] = d
      <4> HIDE DEF n
      <4> QED BY <1>4, <2>4, <2>5, <3>1, <3>2 DEF Laid
    <3>4. Laid(file, d, download[w].at)'
      <4>1. CASE w = g
        <5>1. download'[w].at = download[w].at + 1
          BY <1>6, <4>1
        <5>2. \A i \in 1 .. n : i = n \/ i \in 1 .. download[w].at
          BY <3>2, <4>1
        <5>3. \A i \in 1 .. n : file'.block[i] = d
          BY <1>2, <2>4, <3>3, <5>2
        <5> QED BY <1>6, <2>3, <4>1, <5>3 DEF Laid
      <4>2. CASE w # g
        <5>1. download'[w] = download[w]
          BY <1>5, <4>2 DEF Writers
        <5> QED BY <1>4, <2>3, <3>2, <3>3, <5>1 DEF Laid
      <4> QED BY <4>1, <4>2
    <3> QED BY <1>7, <2>2, <2>3, <2>6, <3>1, <3>4 DEF Busy
  <2> QED BY <2>1, <2>7, <2>8 DEF Busy
<1>11. ReadersInv'
  BY <1>5, <1>6, <1>7 DEF ReadersInv, Step
<1>12. ServedWhole'
  BY <1>1, <1>5, <1>6 DEF ServedWhole, IsDocument
<1> QED BY <1>8, <1>9, <1>10, <1>11, <1>12

\* The last writer leaves a document: either it is there, or somebody has laid blocks of
\* it from the start and, done, all of them.
LEMMA FinishStep ==
  ASSUME CacheInv, NEW g \in Download, Finish(g)
  PROVE  CacheInv'
<1> USE DEF CacheInv
<1>0. PICK d \in Document : d = Doc(g)
  BY DEF Finish, HandlersKnow, Step
<1> DEFINE whole == [size |-> Length[d],
                     block |-> [i \in 1 .. Blocks |-> IF i <= Length[d] THEN d ELSE Hole]]
<1>1. /\ download[g] \in Handler /\ download[g].step = "write"
      /\ download[g].at = Length[d]
      /\ Length[d] \in 1 .. Blocks /\ Blocks \in Nat /\ Length[d] \in Nat
  BY <1>0, LengthType, CacheAssumption DEF CacheTypeOK, Finish, Doc
<1>2. /\ download' = [download EXCEPT ![g].step = "sent", ![g].answer = whole]
      /\ file' = file /\ pdfUrl' = pdfUrl /\ torn' = torn
  BY <1>0 DEF Finish, Doc
<1>3. whole \in Content /\ IsDocument(whole, d)
  BY <1>1 DEF Content, Block, IsDocument
<1>4. /\ \A x \in Download \ {g} : download'[x] = download[x]
      /\ download'[g] \in Handler /\ download'[g].step = "sent"
      /\ download'[g].answer = whole
      /\ download' \in [Download -> Handler]
  <2> HIDE DEF whole
  <2> QED BY <1>1, <1>2, <1>3 DEF CacheTypeOK, Handler
<1>5. Writers' = Writers \ {g} /\ g \in Writers
  BY <1>1, <1>4 DEF Writers
<1>6. CacheTypeOK'
  BY <1>2, <1>4 DEF CacheTypeOK
<1>7. HandlersKnow'
  BY <1>4 DEF HandlersKnow, Step, Doc
<1>8. FileInv'
  <2> SUFFICES ASSUME ~torn'  PROVE Quiet' \/ Busy(d)'
    BY DEF FileInv
  <2>1. Busy(d)
    BY <1>0, <1>2, <1>5 DEF FileInv, Quiet, Busy
  <2>2. file.size \in Nat
    BY <1>1 DEF CacheTypeOK, Content
  <2>3. Laid(file, d, Length[d]) => IsDocument(file, d)
    BY <1>1, <2>1, <2>2 DEF Laid, IsDocument, Busy
  <2>4. \A w \in Writers' : w \in Writers /\ Doc(w)' = d /\ download'[w] = download[w]
    BY <1>4, <1>5, <2>1 DEF Busy, Doc, Writers
  <2>5. IsDocument(file, d) \/ \E w \in Writers' : Laid(file, d, download'[w].at)
    BY <1>1, <1>5, <2>1, <2>3, <2>4 DEF Busy
  <2>6. CASE Writers' = {}
    BY <1>2, <2>5, <2>6 DEF Quiet, IsDocument
  <2>7. CASE Writers' # {}
    BY <1>2, <2>1, <2>4, <2>5, <2>7 DEF Busy, IsDocument, Laid
  <2> QED BY <2>6, <2>7
<1>9. ReadersInv'
  BY <1>4, <1>5 DEF ReadersInv, Step
<1>10. ServedWhole'
  <2> SUFFICES ASSUME NEW x \in Download, (download[x].step = "sent" /\ download[x].calm)'
               PROVE  \E e \in Document : IsDocument(download'[x].answer, e)
    BY DEF ServedWhole, IsDocument
  <2> HIDE DEF whole
  <2>1. CASE x = g
    BY <1>3, <1>4, <2>1
  <2>2. CASE x # g
    BY <1>4, <2>2 DEF ServedWhole
  <2> QED BY <2>1, <2>2
<1> QED BY <1>6, <1>7, <1>8, <1>9, <1>10

\* Handlers stop, one or all of them.
LEMMA StopStep ==
  ASSUME CacheInv, NEW stopped \in SUBSET Download,
         download' \in [Download -> Handler],
         \A g \in stopped : download'[g].step = "failed",
         \A g \in Download \ stopped : download'[g] = download[g],
         torn' = (torn \/ Breaks(stopped)),
         pdfUrl' = pdfUrl, file' = file
  PROVE  CacheInv'
<1> USE DEF CacheInv
<1>1. Writers' = Writers \ stopped
  BY DEF Writers
<1>2. torn \in BOOLEAN /\ torn' \in BOOLEAN
  BY DEF CacheTypeOK, Breaks
<1>3. CacheTypeOK'
  BY <1>2 DEF CacheTypeOK
<1>4. HandlersKnow'
  BY DEF HandlersKnow, Step, Doc
<1>5. FileInv'
  <2> SUFFICES ASSUME ~torn'  PROVE Quiet' \/ \E d \in Document : Busy(d)'
    BY DEF FileInv
  <2>1. ~torn /\ ~Breaks(stopped)
    OBVIOUS
  <2>2. CASE stopped \cap Writers = {}
    <3>1. Writers' = Writers /\ \A w \in Writers : download'[w] = download[w]
      BY <1>1, <2>2 DEF Writers
    <3>2. Quiet => Quiet'
      BY <3>1 DEF Quiet, IsDocument
    <3>3. \A d \in Document : Busy(d) => Busy(d)'
      BY <3>1 DEF Busy, IsDocument, Laid, Doc
    <3> QED BY <2>1, <3>2, <3>3 DEF FileInv
  <2>3. CASE stopped \cap Writers # {}
    <3>1. file.size \in Nat /\ ~(file.size > 0) /\ Writers' = {}
      BY <1>1, <2>1, <2>3, CacheAssumption DEF Breaks, CacheTypeOK, Content
    <3> QED BY <3>1 DEF Quiet
  <2> QED BY <2>2, <2>3
<1>6. ReadersInv'
  <2> SUFFICES ASSUME NEW g \in Download, (Step(g) = "read" /\ download[g].calm)'
               PROVE  /\ Writers' = {} /\ ~torn'
                      /\ download'[g].answer.size = file'.size
                      /\ \E d \in Document : IsDocument(file', d)
                      /\ download'[g].at <= file'.size
                      /\ \A i \in 1 .. download'[g].at :
                           download'[g].answer.block[i] = file'.block[i]
    BY DEF ReadersInv
  <2>1. download'[g] = download[g]
    BY DEF Step
  <2>2. /\ Writers = {} /\ ~torn
        /\ download[g].answer.size = file.size
        /\ \E d \in Document : IsDocument(file, d)
        /\ download[g].at <= file.size
        /\ \A i \in 1 .. download[g].at : download[g].answer.block[i] = file.block[i]
    BY <2>1 DEF ReadersInv, Step
  <2>3. ~torn' /\ Writers' = {}
    BY <1>1, <2>2 DEF Breaks
  <2> QED BY <2>1, <2>2, <2>3
<1>7. ServedWhole'
  BY DEF ServedWhole, IsDocument
<1> QED BY <1>3, <1>4, <1>5, <1>6, <1>7

LEMMA CacheStep == CacheInv /\ [CacheNext]_cacheVars => CacheInv'
<1> SUFFICES ASSUME CacheInv, [CacheNext]_cacheVars  PROVE CacheInv'
  OBVIOUS
<1>1. ASSUME NEW d \in Document, Issue(d)  PROVE CacheInv'
  <2>1. Writers' = Writers
    BY <1>1 DEF Issue, Writers
  <2> QED BY <1>1, <2>1 DEF Issue, CacheInv, CacheTypeOK, HandlersKnow, FileInv, ReadersInv,
                ServedWhole, Quiet, Busy, Laid, IsDocument, Doc, Step
<1>2. ASSUME NEW g \in Download, Fail(g)  PROVE CacheInv'
  <2>1. /\ download' \in [Download -> Handler]
        /\ download'[g].step = "failed"
        /\ \A x \in Download \ {g} : download'[x] = download[x]
    BY <1>2 DEF Fail, CacheInv, CacheTypeOK, Handler
  <2> QED BY <1>2, <2>1, StopStep DEF Fail
<1>3. CASE Restart
  <2> DEFINE stopped == {g \in Download : download[g].step \in InFlight}
  <2>1. /\ download' \in [Download -> Handler]
        /\ \A g \in stopped : download'[g].step = "failed"
        /\ \A g \in Download \ stopped : download'[g] = download[g]
    BY <1>3 DEF Restart, CacheInv, CacheTypeOK, Handler
  <2>2. Writers \subseteq stopped
    BY DEF Writers, InFlight
  <2>3. Breaks(Download) <=> Breaks(stopped)
    BY <2>2 DEF Breaks, Writers
  <2> HIDE DEF stopped
  <2>4. torn' = (torn \/ Breaks(stopped)) /\ pdfUrl' = pdfUrl /\ file' = file
    BY <1>3, <2>3 DEF Restart
  <2>5. stopped \in SUBSET Download
    BY DEF stopped
  <2> QED BY <2>1, <2>4, <2>5, StopStep
<1>4. CASE UNCHANGED cacheVars
  <2>1. Writers' = Writers
    BY <1>4 DEF cacheVars, Writers
  <2> QED BY <1>4, <2>1 DEF cacheVars, CacheInv, CacheTypeOK, HandlersKnow, FileInv, ReadersInv,
                ServedWhole, Quiet, Busy, Laid, IsDocument, Doc, Step
<1> QED BY <1>1, <1>2, <1>3, <1>4, QuietHandler, ReadStep, OpenStep, WriteStep, FinishStep
        DEF CacheNext

-----------------------------------------------------------------------------
LEMMA CacheInvariant == CacheSpec => []CacheInv
  BY CacheInitInv, CacheStep, PTL DEF CacheSpec

\* Whatever is written and read at once, file and answers keep their types.
THEOREM CacheTypeCorrect == CacheSpec => []CacheTypeOK
<1>1. CacheInv => CacheTypeOK
  BY DEF CacheInv
<1> QED BY <1>1, CacheInvariant, PTL

\* For any number of downloads at once, and documents of any length, the file that is
\* left is one document or none, unless a writer stopped halfway or two disagreed.
THEOREM FileLeftWhole == CacheSpec => []FileIsWhole
<1>1. CacheInv => FileIsWhole
  BY DEF CacheInv, FileInv, FileIsWhole, Quiet, Busy
<1> QED BY <1>1, CacheInvariant, PTL

\* Whoever reads while nobody writes gets a whole document.
THEOREM AnswersWhole == CacheSpec => []ServedWhole
<1>1. CacheInv => ServedWhole
  BY DEF CacheInv
<1> QED BY <1>1, CacheInvariant, PTL
=============================================================================
