--------------------------- MODULE FileIngestion ---------------------------
(***************************************************************************)
(* useChatExtraContext.onFileAdded: the loop that turns dropped or pasted *)
(* files into extra context items.                                        *)
(*                                                                         *)
(* Each call of onFileAdded (a batch) is an async function: it handles    *)
(* one file at a time, `await`s the base64 / PDF conversion of images,    *)
(* audio and PDFs, and leaves text files to a FileReader whose onload     *)
(* callback runs later, after the loop has moved on.  Several batches may *)
(* run at once (a second drop before the first finishes).  A file is an   *)
(* abstract kind; its bytes, name and the conversions' output are left   *)
(* out, only which item type (or which notice) results is kept.            *)
(*                                                                         *)
(* A read either loads (onload with a result), loads nothing (onload with *)
(* an empty result: the promise rejects), or fails (an error event: the   *)
(* code sets no onerror, so nothing ever runs again for that read).       *)
(***************************************************************************)
EXTENDS Integers, Sequences, SequencesExt, FiniteSets

CONSTANTS Batches,     \* the onFileAdded calls
          FileKinds,   \* the kinds of file a batch may contain
          MaxFiles,    \* files per batch
          MaxPages,    \* pages of a PDF rendered as images
          IOFailures   \* whether reads and conversions may fail

\* big: over 500MB; svg: image/svg+xml; audio_ok / audio_bad: audio/ with
\* and without mpeg|wav; text / binary / empty: any other type, read as
\* text, whose content passes isLikelyNotBinary, fails it, or is "".
AllKinds == {"big", "image", "svg", "video", "audio_ok", "audio_bad", "pdf",
             "text", "binary", "empty"}

ASSUME /\ FileKinds \subseteq AllKinds
       /\ MaxFiles \in Nat \ {0}
       /\ MaxPages \in Nat \ {0}
       /\ IOFailures \in BOOLEAN

VARIABLES files,       \* batch -> its files, in the order given
          vision,      \* serverProps.modalities.vision
          pdfAsImage,  \* config.pdfAsImage
          pc,          \* batch -> where its async function is
          idx,         \* batch -> the index of the file the loop is at
          stage,       \* batch -> awaits left for the current file
          readers,     \* text files whose FileReader has not fired yet
          items,       \* the hook's `items` state
          notices      \* toasts shown: <<file, what>>

vars == <<files, vision, pdfAsImage, pc, idx, stage, readers, items, notices>>

\* A file is named by its batch and position.
FileIds == Batches \X (1..MaxFiles)

KindOf(f) == files[f[1]][f[2]]

Notes == {"reject", "binary", "error", "pdfAsText"}

ItemTypes == {"imageFile", "audioFile", "textFile"}

BatchSeqs == UNION {[1..n -> FileKinds] : n \in 1..MaxFiles}

TypeOK ==
    /\ files \in [Batches -> BatchSeqs]
    /\ vision \in BOOLEAN /\ pdfAsImage \in BOOLEAN
    /\ pc \in [Batches -> {"idle", "loop", "await", "done", "stalled"}]
    /\ idx \in [Batches -> 1..(MaxFiles + 1)]
    /\ stage \in [Batches -> 0..2]
    /\ readers \subseteq FileIds
    /\ items \in Seq([src : FileIds, type : ItemTypes])
    /\ notices \subseteq FileIds \X Notes

Init ==
    /\ files \in [Batches -> BatchSeqs]
    /\ vision \in BOOLEAN
    /\ pdfAsImage \in BOOLEAN
    /\ pc = [b \in Batches |-> "idle"]
    /\ idx = [b \in Batches |-> 1]
    /\ stage = [b \in Batches |-> 0]
    /\ readers = {}
    /\ items = <<>>
    /\ notices = {}

\* Faulty variant: audio items tagged with the wrong type name.
ItemTypeOfWrongTag(k) ==
    IF k \in {"image", "svg"} \/ (k = "pdf" /\ pdfAsImage /\ vision)
    THEN "imageFile"
    ELSE IF k = "audio_ok" THEN "audio" ELSE "textFile"

\* The item an awaited conversion adds for a file of kind k.
ItemTypeOf(k) ==
    IF k \in {"image", "svg"} \/ (k = "pdf" /\ pdfAsImage /\ vision)
    THEN "imageFile"
    ELSE IF k = "audio_ok" THEN "audioFile" ELSE "textFile"

\* How many items the conversion of a file of kind k adds: one per page
\* for a PDF rendered as images (convertPDFToImage, base64Urls.map),
\* one otherwise.
PagesOf(k) == IF k = "pdf" /\ pdfAsImage /\ vision THEN 1..MaxPages ELSE {1}

\* addItems: one setItems appending the new items after the current ones.
addItems(new) == items' = items \o new

\* The items the last await of file f (of kind k) adds, n of them.
ItemsOf(f, k, n) == [j \in 1..n |-> [src |-> f, type |-> ItemTypeOf(k)]]

\* Awaits before the item is added: svg is read, then rasterised.
AwaitsOf(k) == IF k = "svg" THEN 2 ELSE 1

\* The file-kind checks of one loop iteration that end in `break` with a
\* toast: too large, image without vision, video, unsupported audio, and
\* a PDF to be shown as image on a server without vision.
Stops(k) ==
    \/ k \in {"big", "video", "audio_bad"}
    \/ k \in {"image", "svg"} /\ ~vision
    \/ k = "pdf" /\ pdfAsImage /\ ~vision

StopNote(k) == IF k = "pdf" THEN "pdfAsText" ELSE "reject"

-----------------------------------------------------------------------------
\* onDrop / onPasteCapture call onFileAdded(files) without awaiting it.
FileAdded(b) ==
    /\ pc[b] = "idle"
    /\ pc' = [pc EXCEPT ![b] = "loop"]
    /\ UNCHANGED <<files, vision, pdfAsImage, idx, stage, readers, items,
                   notices>>

\* for (const file of files): one iteration up to its await, or the loop's
\* end.  Text files only start a FileReader and the loop goes on.
LoopStep(b) ==
    LET i == idx[b]
        k == files[b][i]
    IN
    /\ pc[b] = "loop"
    /\ \/ /\ i > Len(files[b])
          /\ pc' = [pc EXCEPT ![b] = "done"]
          /\ UNCHANGED <<idx, stage, readers, notices>>
       \/ /\ i <= Len(files[b])
          /\ Stops(k)
          /\ pc' = [pc EXCEPT ![b] = "done"]
          /\ notices' = notices \cup {<<<<b, i>>, StopNote(k)>>}
          /\ UNCHANGED <<idx, stage, readers>>
       \/ /\ i <= Len(files[b])
          /\ ~Stops(k)
          /\ k \in {"image", "svg", "audio_ok", "pdf"}
          /\ pc' = [pc EXCEPT ![b] = "await"]
          /\ stage' = [stage EXCEPT ![b] = AwaitsOf(k)]
          /\ UNCHANGED <<idx, readers, notices>>
       \/ /\ i <= Len(files[b])
          /\ k \in {"text", "binary", "empty"}
          /\ readers' = readers \cup {<<b, i>>}
          /\ idx' = [idx EXCEPT ![b] = i + 1]
          /\ UNCHANGED <<pc, stage, notices>>
    /\ UNCHANGED <<files, vision, pdfAsImage, items>>

\* Faulty variant: the loop resumes at the same file after a conversion.
ConvertedNoAdvance(b) ==
    LET i == idx[b]
        k == files[b][i]
    IN
    /\ pc[b] = "await"
    /\ \/ /\ stage[b] > 1
          /\ stage' = [stage EXCEPT ![b] = @ - 1]
          /\ UNCHANGED <<pc, items>>
       \/ /\ stage[b] = 1
          /\ \E n \in PagesOf(k) : addItems(ItemsOf(<<b, i>>, k, n))
          /\ stage' = [stage EXCEPT ![b] = 0]
          /\ pc' = [pc EXCEPT ![b] = IF k = "pdf" THEN "done" ELSE "loop"]
    /\ UNCHANGED <<files, vision, pdfAsImage, idx, readers, notices>>

\* The awaited conversion settles with a value.  The last await adds the
\* items; a PDF then ends the loop (the `break` after the PDF branch).
Converted(b) ==
    LET i == idx[b]
        k == files[b][i]
    IN
    /\ pc[b] = "await"
    /\ \/ /\ stage[b] > 1
          /\ stage' = [stage EXCEPT ![b] = @ - 1]
          /\ UNCHANGED <<pc, idx, items>>
       \/ /\ stage[b] = 1
          /\ \E n \in PagesOf(k) : addItems(ItemsOf(<<b, i>>, k, n))
          /\ stage' = [stage EXCEPT ![b] = 0]
          /\ IF k = "pdf"
             THEN /\ pc' = [pc EXCEPT ![b] = "done"]
                  /\ UNCHANGED idx
             ELSE /\ pc' = [pc EXCEPT ![b] = "loop"]
                  /\ idx' = [idx EXCEPT ![b] = i + 1]
    /\ UNCHANGED <<files, vision, pdfAsImage, readers, notices>>

\* The conversion rejects (an empty read, an undecodable PDF or SVG): the
\* catch around the whole loop shows the error and the batch ends.
ConvertFailed(b) ==
    /\ IOFailures
    /\ pc[b] = "await"
    /\ pc' = [pc EXCEPT ![b] = "done"]
    /\ stage' = [stage EXCEPT ![b] = 0]
    /\ notices' = notices \cup {<<<<b, idx[b]>>, "error">>}
    /\ UNCHANGED <<files, vision, pdfAsImage, idx, readers, items>>

\* The FileReader behind the await fires `error`: getFileAsBase64 and
\* getFileAsBuffer only listen for `load`, so the promise never settles.
ReadStalled(b) ==
    /\ IOFailures
    /\ pc[b] = "await"
    /\ pc' = [pc EXCEPT ![b] = "stalled"]
    /\ UNCHANGED <<files, vision, pdfAsImage, idx, stage, readers, items,
                   notices>>

\* reader.onload of a text file: binary content is refused with a toast,
\* an empty result is ignored, anything else becomes a textFile item.
\* A read error fires no onload: the file is silently dropped.
ReaderLoad(f) ==
    /\ f \in readers
    /\ readers' = readers \ {f}
    /\ \/ /\ KindOf(f) = "text"
          /\ addItems(ItemsOf(f, "text", 1))
          /\ UNCHANGED notices
       \/ /\ KindOf(f) = "binary"
          /\ notices' = notices \cup {<<f, "binary">>}
          /\ UNCHANGED items
       \/ /\ KindOf(f) = "empty" \/ IOFailures
          /\ UNCHANGED <<items, notices>>
    /\ UNCHANGED <<files, vision, pdfAsImage, pc, idx, stage>>

Next ==
    \/ \E b \in Batches :
          FileAdded(b) \/ LoopStep(b) \/ Converted(b) \/ ConvertFailed(b)
            \/ ReadStalled(b)
    \/ \E f \in readers : ReaderLoad(f)

\* The event loop runs every ready continuation and callback; the user
\* need not drop anything, so FileAdded is not fair.
Fairness ==
    /\ \A b \in Batches : WF_vars(LoopStep(b)) /\ WF_vars(Converted(b))
    /\ \A f \in FileIds : WF_vars(ReaderLoad(f))

Spec == Init /\ [][Next]_vars /\ Fairness

-----------------------------------------------------------------------------
(***************************************************************************)
(* Whatever the interleaving of batches, awaits and FileReader callbacks, *)
(* a file the code refuses (too large, image or PDF-as-image without      *)
(* vision, video, unsupported audio, binary or empty text) never becomes  *)
(* an item, and no file both becomes an item and gets an error notice.    *)
(* Only a PDF rendered as images becomes several items, one per page, and *)
(* they stay together: its single addItems is not split by the text      *)
(* files' onload callbacks that run around it.                           *)
(***************************************************************************)
ItemsMatchFiles ==
    \A k \in 1..Len(items) :
        LET f == items[k].src
            same == {j \in 1..Len(items) : items[j].src = f}
        IN
        /\ f[2] <= Len(files[f[1]])
        /\ ~Stops(KindOf(f))
        /\ KindOf(f) \notin {"binary", "empty"}
        /\ items[k].type = ItemTypeOf(KindOf(f))
        /\ \A n \in Notes : <<f, n>> \notin notices
        /\ Cardinality(same) \in PagesOf(KindOf(f))
        /\ \A j \in 1..Len(items) : Min(same) <= j /\ j <= Max(same)
                                     => items[j].src = f

\* The loop has come to file i of batch b.
Reached(b, i) == i < idx[b] \/ (i = idx[b] /\ pc[b] \in {"await", "done", "stalled"})

RejectedBefore(b, i) == \E j \in 1..(i - 1) : <<<<b, j>>, "reject">> \in notices

(***************************************************************************)
(* Spec sec. 4.3 and 7: one file failing does not abort the batch, except *)
(* an oversized file or an unsupported modality; a local read failure is  *)
(* reported per file.  So every file of a started batch is eventually     *)
(* handled unless an earlier one was rejected (onFileAdded's `break`s and *)
(* its catch around the whole loop).                                      *)
(***************************************************************************)
RemainingFilesProcessed ==
    \A b \in Batches, i \in 1..MaxFiles :
        (pc[b] # "idle" /\ i <= Len(files[b]))
            ~> (Reached(b, i) \/ RejectedBefore(b, i))

=============================================================================
