----------------------------- MODULE MediaFiles -----------------------------
(***************************************************************************)
(* internal/media: a media item is a row of media_items and a file below   *)
(* the storage root, written and removed in separate steps.  A statement   *)
(* may fail without effect or commit with its answer lost; the process may *)
(* stop between any two steps, which ends the requests under way.          *)
(* The image pipeline crops, then rotates, then resizes.  An image is its  *)
(* width, its height and a function from its points, counted from 0, to    *)
(* pixels.  Encoding is left out but for the test of the asked format.     *)
(***************************************************************************)
EXTENDS Integers, FiniteSets

CONSTANTS Users,     \* concurrent callers
          MediaIds,  \* ids that newID draws, never twice
          Texts,     \* metadata a caller may set
          Queries,   \* transform options a reader asks for
          Picture,   \* the stored image
          NoRow, NoCall

\* A call as far as rows and files are concerned: an upload, or a call on an
\* item with its argument.
ItemCalls(arguments) ==
    [pc : {"update", "delete", "open", "remove"}, op : {"update", "delete", "open"},
     id : MediaIds, args : arguments]
Calls == [pc : {"insert", "remove"}, op : {"upload"}, id : MediaIds]
           \cup ItemCalls(Texts) \cup ItemCalls(Queries) \cup ItemCalls({""})

ASSUME MediaAssumption ==
    /\ NoRow \notin Texts \cup {""} /\ NoCall \notin Calls
    /\ Picture.w \in Nat \ {0} /\ Picture.h \in Nat \ {0}
    /\ Queries \subseteq [cropX : Int, cropY : Int, cropW : Int, cropH : Int,
                            rotate : Int, maxW : Int, maxH : Int, format : STRING]

VARIABLES row,       \* id -> its metadata, or NoRow
          files,     \* ids whose file is on disk
          drawn,     \* ids drawn so far
          call,      \* caller -> the call it has under way
          lost,      \* ids whose insert committed and was reported as failed
          blamed     \* ids a failed or interrupted request leaves a file of

mediaVars == <<row, files, drawn, call, lost, blamed>>

Rows == {i \in MediaIds : row[i] # NoRow}

MediaInit ==
    /\ row = [i \in MediaIds |-> NoRow]
    /\ files = {} /\ drawn = {} /\ lost = {} /\ blamed = {}
    /\ call = [u \in Users |-> NoCall]

At(u, pc) == call[u] # NoCall /\ call[u].pc = pc
Goto(u, pc) == call' = [call EXCEPT ![u].pc = pc]
End(u) == call' = [call EXCEPT ![u] = NoCall]

-----------------------------------------------------------------------------
\* The image pipeline.

Points(w, h) == (0 .. w - 1) \X (0 .. h - 1)
ImageOf(w, h, pixel(_, _)) ==
    [w |-> w, h |-> h, at |-> [p \in Points(w, h) |-> pixel(p[1], p[2])]]

\* cropImage's test of the rectangle.
CropFits(img, o) ==
    /\ o.cropW > 0 /\ o.cropH > 0 /\ o.cropX >= 0 /\ o.cropY >= 0
    /\ o.cropX + o.cropW <= img.w /\ o.cropY + o.cropH <= img.h

Crop(img, o) ==
    ImageOf(o.cropW, o.cropH, LAMBDA x, y : img.at[o.cropX + x, o.cropY + y])

\* Faulty rotation: a turn by 270 degrees is one by 90.
RotateOneWay(img, degrees) ==
    IF degrees = 180
    THEN ImageOf(img.w, img.h, LAMBDA u, v : img.at[img.w - 1 - u, img.h - 1 - v])
    ELSE ImageOf(img.h, img.w, LAMBDA u, v : img.at[v, img.h - 1 - u])

\* rotateImage, clockwise.
Rotate(img, degrees) ==
    CASE degrees = 90 ->
             ImageOf(img.h, img.w, LAMBDA u, v : img.at[v, img.h - 1 - u])
      [] degrees = 180 ->
             ImageOf(img.w, img.h, LAMBDA u, v : img.at[img.w - 1 - u, img.h - 1 - v])
      [] degrees = 270 ->
             ImageOf(img.h, img.w, LAMBDA u, v : img.at[img.w - 1 - v, u])
      [] OTHER -> img

\* int(float64(m) * n / d): the ratio is rounded first, so a quotient that is
\* an integer may come out just below it.
Scaled(m, n, d) == {q \in {(m * n) \div d, (m * n - 1) \div d} : q >= 0}

\* scaledDimensions; its comparison is on the rounded quotient too.
ScaledDimensions(w, h, maxW, maxH) ==
    LET byWidth == {maxW} \X Scaled(maxW, h, w)
        byHeight == Scaled(maxH, w, h) \X {maxH}
    IN  CASE maxW <= 0 /\ maxH <= 0 -> {<<w, h>>}
          [] maxW > 0 /\ maxH <= 0 -> byWidth
          [] maxW <= 0 /\ maxH > 0 -> byHeight
          [] OTHER -> {s \in byWidth : maxW * h <= maxH * w}
                      \cup {s \in byHeight : maxW * h >= maxH * w}

AtLeastOne(n) == IF n < 1 THEN 1 ELSE n

\* nearestNeighborResize.
Resize(img, s) ==
    LET w == AtLeastOne(s[1])
        h == AtLeastOne(s[2])
    IN  ImageOf(w, h, LAMBDA x, y : img.at[(x * img.w) \div w, (y * img.h) \div h])

\* What Transform refuses: a rectangle outside of the image, an angle that is
\* no quarter turn, a format it cannot encode.
TransformValid(img, o) ==
    /\ (o.cropW > 0 \/ o.cropH > 0) => CropFits(img, o)
    /\ o.rotate \in {0, 90, 180, 270}
    /\ o.format \in {"", "png", "jpeg"}

\* The images Transform may answer.
Transformed(img, o) ==
    LET cropped == IF o.cropW > 0 \/ o.cropH > 0 THEN Crop(img, o) ELSE img
        turned == Rotate(cropped, o.rotate)
    IN  IF o.maxW > 0 \/ o.maxH > 0
        THEN {Resize(turned, s) :
                s \in ScaledDimensions(turned.w, turned.h, o.maxW, o.maxH)}
        ELSE {turned}

-----------------------------------------------------------------------------
\* Upload.  The type is one of allowedTypes: any other changes nothing.

\* WriteFile under a new id; when it fails, what it wrote may stay.
BeginUpload(u, i) ==
    /\ call[u] = NoCall /\ i \notin drawn
    /\ drawn' = drawn \cup {i}
    /\ \/ /\ files' = files \cup {i}
          /\ call' = [call EXCEPT ![u] = [pc |-> "insert", op |-> "upload", id |-> i]]
          /\ UNCHANGED blamed
       \/ /\ files' \in {files, files \cup {i}}
          /\ blamed' = blamed \cup {i}
          /\ UNCHANGED call
    /\ UNCHANGED <<row, lost>>

\* The row; an error makes the upload take its file back.
InsertRow(u) ==
    /\ At(u, "insert")
    /\ \/ /\ row' = [row EXCEPT ![call[u].id] = ""]
          /\ End(u)
          /\ UNCHANGED lost
       \/ /\ Goto(u, "remove")
          /\ UNCHANGED <<row, lost>>
       \/ /\ row' = [row EXCEPT ![call[u].id] = ""]
          /\ lost' = lost \cup {call[u].id}
          /\ Goto(u, "remove")
    /\ UNCHANGED <<files, drawn, blamed>>

-----------------------------------------------------------------------------
\* Calls on an item: each reads its row first, and ends when there is none.
BeginCall(u, i, op, args) ==
    /\ call[u] = NoCall /\ row[i] # NoRow
    /\ call' = [call EXCEPT ![u] = [pc |-> op, op |-> op, id |-> i, args |-> args]]
    /\ UNCHANGED <<row, files, drawn, lost, blamed>>

\* UpdateMetadata: the last writer's; no row, no update.
UpdateRow(u) ==
    /\ At(u, "update")
    /\ row' = [row EXCEPT ![call[u].id] = IF @ = NoRow THEN NoRow ELSE call[u].args]
    /\ End(u)
    /\ UNCHANGED <<files, drawn, lost, blamed>>

\* Faulty deletion: the file first, then the row.
DeleteFileFirst(u) ==
    /\ At(u, "delete")
    /\ files' = files \ {call[u].id}
    /\ \/ row' = [row EXCEPT ![call[u].id] = NoRow]
       \/ UNCHANGED row
    /\ End(u)
    /\ UNCHANGED <<drawn, lost, blamed>>

\* Delete: the row first; only who deleted it and learns so removes the file.
\* Finding no row and failing without effect end alike.
DeleteRow(u) ==
    /\ At(u, "delete")
    /\ \/ /\ row[call[u].id] # NoRow
          /\ row' = [row EXCEPT ![call[u].id] = NoRow]
          /\ Goto(u, "remove")
          /\ UNCHANGED blamed
       \/ /\ row[call[u].id] # NoRow
          /\ row' = [row EXCEPT ![call[u].id] = NoRow]
          /\ blamed' = blamed \cup {call[u].id}
          /\ End(u)
       \/ /\ End(u)
          /\ UNCHANGED <<row, blamed>>
    /\ UNCHANGED <<files, drawn, lost>>

\* os.Remove, whose error nobody looks at.
RemoveFile(u) ==
    /\ At(u, "remove")
    /\ End(u)
    /\ \/ files' = files \ {call[u].id} /\ UNCHANGED blamed
       \/ blamed' = blamed \cup {call[u].id} /\ UNCHANGED files
    /\ UNCHANGED <<row, drawn, lost>>

\* Open and Transform: the file the row names, and the image made of it.
OpenFile(u) ==
    /\ At(u, "open")
    /\ IF /\ call[u].id \in files
          /\ TransformValid(Picture, call[u].args)
       THEN \E img \in Transformed(Picture, call[u].args) :
              call' = [call EXCEPT ![u] = [pc |-> "answer", op |-> "open",
                                           id |-> call[u].id,
                                           args |-> call[u].args, image |-> img]]
       ELSE End(u)
    /\ UNCHANGED <<row, files, drawn, lost, blamed>>

ReturnImage(u) ==
    /\ At(u, "answer")
    /\ End(u)
    /\ UNCHANGED <<row, files, drawn, lost, blamed>>

\* Files a request has written or is about to remove.
InHand == {call[u].id : u \in {v \in Users : At(v, "insert") \/ At(v, "remove")}}

\* The process stops.
MediaRestart ==
    /\ call' = [u \in Users |-> NoCall]
    /\ blamed' = blamed \cup InHand
    /\ UNCHANGED <<row, files, drawn, lost>>
=============================================================================
