---------------------------- MODULE LibraryProofs ----------------------------
(***************************************************************************)
(* Proofs about the content library (Library), for any callers, ids,       *)
(* texts, transform options, layouts, artifacts, catalog and tokens.       *)
(*                                                                         *)
(* FilesMatchRows is not inductive: that a row has its file needs that     *)
(* nobody else removes it meanwhile, hence that an upload's id is its own  *)
(* until the row is in, and that whoever is about to remove a file has     *)
(* seen its row go or has made it under a lost answer (MediaInv).  What an *)
(* image keeps follows from the options its reader asked with (ImagesInv). *)
(* The composition side rests on what was stored: valid artifacts that     *)
(* were signed as they are (ArtifactsInv), tokens that were genuine when   *)
(* they were registered (TokensInv), imports whose verdict holds for this  *)
(* boot's blocks and whose target is a layout (ImportsInv), and how far    *)
(* each import's report and what it wrote have come (PagesInv).            *)
(***************************************************************************)
EXTENDS Library, FiniteSetTheorems, TLAPS

Inserts(u, i) == At(u, "insert") /\ call[u].id = i
Removes(u, i) == At(u, "remove") /\ call[u].id = i

MediaTyped ==
    /\ row \in [MediaIds -> Texts \cup {"", NoRow}]
    /\ DOMAIN call = Users
    /\ \A u \in Users : call[u] = NoCall \/ call[u] \in Calls \/ call[u].pc = "answer"
    /\ \A u \in Users : At(u, "update") => call[u].args \in Texts

MediaInv ==
    /\ MediaTyped
    /\ FilesMatchRows
    /\ drawn \subseteq MediaIds /\ files \subseteq drawn /\ Rows \subseteq drawn
    /\ \A u \in Users, i \in MediaIds :
        /\ Inserts(u, i) => i \in files /\ i \notin Rows
        /\ Removes(u, i) => i \in drawn /\ (i \notin Rows \/ i \in lost)
    /\ \A u, v \in Users, i \in MediaIds :
        Inserts(u, i) /\ (Inserts(v, i) \/ Removes(v, i)) => u = v

LEMMA InitMedia == MediaInit => MediaInv
BY MediaAssumption DEF MediaInit, MediaInv, MediaTyped, FilesMatchRows, Rows, At, Inserts, Removes

\* InHand, by holder.
LEMMA HeldIs ==
    /\ \A i \in MediaIds : i \in InHand <=> \E u \in Users : Inserts(u, i) \/ Removes(u, i)
    /\ \A i \in MediaIds : i \in InHand' <=> \E u \in Users : Inserts(u, i)' \/ Removes(u, i)'
BY DEF InHand, Inserts, Removes

\* A call takes its next step, or ends; the others stay where they are.
LEMMA CallStays ==
    ASSUME MediaInv, NEW u \in Users, NEW c, call' = [call EXCEPT ![u] = c]
    PROVE /\ call'[u] = c /\ DOMAIN call' = Users
          /\ \A v \in Users \ {u} : call'[v] = call[v]
BY DEF MediaInv, MediaTyped

\* The shape of a call that inserts or removes, and of the ones that read.
LEMMA CallsOf ==
    ASSUME MediaInv, NEW u \in Users, NEW pc \in {"insert", "remove", "update", "delete", "open"},
           At(u, pc)
    PROVE call[u] \in Calls /\ call[u].id \in MediaIds
BY DEF MediaInv, MediaTyped, At, Calls, ItemCalls

LEMMA ToRemoval ==
    ASSUME MediaInv, NEW u \in Users, At(u, "insert") \/ At(u, "delete"), Goto(u, "remove")
    PROVE \E c \in Calls : /\ call' = [call EXCEPT ![u] = c]
                           /\ c.pc = "remove" /\ c.id = call[u].id
<1> DEFINE c == [call[u] EXCEPT !.pc = "remove"]
<1>1. call[u] \in Calls
  BY CallsOf
<1>2. \/ call[u] \in [pc : {"insert", "remove"}, op : {"upload"}, id : MediaIds]
      \/ \E args \in {Texts, Queries, {""}} : call[u] \in ItemCalls(args)
  BY <1>1 DEF Calls
<1>3. c \in Calls /\ c.pc = "remove" /\ c.id = call[u].id
  BY <1>2 DEF Calls, ItemCalls
<1>4. call' = [call EXCEPT ![u] = c]
  BY DEF Goto
<1> HIDE DEF c
<1> QED
  BY <1>3, <1>4

-----------------------------------------------------------------------------
\* The steps.

\* What remains to be shown of a step: who holds which id afterwards is known,
\* rows and files are typed.
LEMMA MediaStep ==
    ASSUME MediaInv, NEW u \in Users, NEW c, call' = [call EXCEPT ![u] = c],
           c = NoCall \/ c \in Calls \/ c.pc = "answer",
           c # NoCall /\ c.pc = "update" => c.args \in Texts,
           row' \in [MediaIds -> Texts \cup {"", NoRow}]
    PROVE /\ MediaTyped'
          /\ \A v \in Users \ {u}, i \in MediaIds :
                /\ Inserts(v, i)' <=> Inserts(v, i)
                /\ Removes(v, i)' <=> Removes(v, i)
          /\ \A i \in MediaIds : /\ Inserts(u, i)' <=> c # NoCall /\ c.pc = "insert" /\ c.id = i
                                 /\ Removes(u, i)' <=> c # NoCall /\ c.pc = "remove" /\ c.id = i
<1>1. call'[u] = c /\ DOMAIN call' = Users /\ \A v \in Users \ {u} : call'[v] = call[v]
  BY CallStays
<1>2. MediaTyped'
  BY <1>1 DEF MediaInv, MediaTyped, At
<1> QED
  BY <1>1, <1>2 DEF Inserts, Removes, At

LEMMA UploadBegins ==
    ASSUME MediaInv, NEW u \in Users, NEW i \in MediaIds, BeginUpload(u, i)
    PROVE MediaInv'
<1>1. i \notin drawn /\ i \notin files /\ i \notin Rows /\ call[u] = NoCall
  BY DEF BeginUpload, MediaInv
<1>2. \A v \in Users : ~ Inserts(v, i) /\ ~ Removes(v, i)
  BY <1>1 DEF MediaInv
<1>3. row' = row /\ Rows' = Rows /\ lost' = lost /\ drawn' = drawn \cup {i}
  BY DEF BeginUpload, Rows
<1>4. row' \in [MediaIds -> Texts \cup {"", NoRow}]
  BY <1>3 DEF MediaInv, MediaTyped
<1> DEFINE c == [pc |-> "insert", op |-> "upload", id |-> i]
<1>5. CASE call' = [call EXCEPT ![u] = c] /\ files' = files \cup {i} /\ blamed' = blamed
  <2>1. c \in Calls /\ c.pc = "insert" /\ c.id = i
    BY DEF Calls
  <2>2. c # NoCall
    BY <2>1, MediaAssumption
  <2> HIDE DEF c
  <2>3. /\ MediaTyped'
        /\ \A v \in Users \ {u}, j \in MediaIds :
              /\ Inserts(v, j)' <=> Inserts(v, j)
              /\ Removes(v, j)' <=> Removes(v, j)
        /\ \A j \in MediaIds : (Inserts(u, j)' <=> j = i) /\ ~ Removes(u, j)'
    BY <1>4, <1>5, <2>1, <2>2, MediaStep
  <2>4. \A j \in MediaIds : ~ Inserts(u, j) /\ ~ Removes(u, j)
    BY <1>1 DEF Inserts, Removes, At
  <2>5. FilesMatchRows'
    BY <1>1, <1>2, <1>3, <1>5, <2>3, <2>4, HeldIs DEF FilesMatchRows, MediaInv, Rows
  <2> QED
    BY <1>1, <1>2, <1>3, <1>5, <2>3, <2>5 DEF MediaInv
<1>6. CASE call' = call /\ files' \in {files, files \cup {i}} /\ blamed' = blamed \cup {i}
  <2>1. MediaTyped' /\ InHand' = InHand
        /\ \A v \in Users, j \in MediaIds :
              (Inserts(v, j)' <=> Inserts(v, j)) /\ (Removes(v, j)' <=> Removes(v, j))
    BY <1>3, <1>6 DEF MediaInv, MediaTyped, InHand, At, Inserts, Removes
  <2>2. FilesMatchRows'
    BY <1>3, <1>6, <2>1 DEF FilesMatchRows, MediaInv
  <2> QED
    BY <1>1, <1>2, <1>3, <1>6, <2>1, <2>2 DEF MediaInv
<1> QED
  BY <1>5, <1>6 DEF BeginUpload

\* A call that goes on to, or ends in, something else than insert or remove,
\* where rows and files stay, and which held nothing.
LEMMA ReaderSteps ==
    ASSUME MediaInv, NEW u \in Users, NEW c, call' = [call EXCEPT ![u] = c],
           c = NoCall \/ (c \in Calls /\ c.pc \in {"delete", "open"})
             \/ (c \in Calls /\ c.pc = "update" /\ c.args \in Texts) \/ c.pc = "answer",
           ~ At(u, "insert"), ~ At(u, "remove"),
           row' \in [MediaIds -> Texts \cup {"", NoRow}], Rows' = Rows,
           UNCHANGED <<files, drawn, lost, blamed>>
    PROVE MediaInv'
<1>1. /\ MediaTyped'
      /\ \A v \in Users \ {u}, j \in MediaIds :
            /\ Inserts(v, j)' <=> Inserts(v, j)
            /\ Removes(v, j)' <=> Removes(v, j)
      /\ \A j \in MediaIds : ~ Inserts(u, j)' /\ ~ Removes(u, j)'
  BY MediaStep
<1>2. \A j \in MediaIds : ~ Inserts(u, j) /\ ~ Removes(u, j)
  BY DEF Inserts, Removes
<1>3. \A v \in Users, j \in MediaIds : (Inserts(v, j)' <=> Inserts(v, j)) /\ (Removes(v, j)' <=> Removes(v, j))
  BY <1>1, <1>2
<1>4. FilesMatchRows'
  BY <1>3, HeldIs DEF FilesMatchRows, MediaInv
<1> QED
  BY <1>1, <1>3, <1>4 DEF MediaInv

LEMMA RowInserted ==
    ASSUME MediaInv, NEW u \in Users, InsertRow(u)
    PROVE MediaInv'
<1> DEFINE i == call[u].id
<1>1. At(u, "insert") /\ i \in MediaIds /\ call[u] \in Calls
  BY CallsOf DEF InsertRow
<1>2. /\ Inserts(u, i) /\ ~ Removes(u, i)
      /\ \A j \in MediaIds : j # i => ~ Inserts(u, j) /\ ~ Removes(u, j)
  BY <1>1 DEF Inserts, Removes, At
<1> HIDE DEF i
<1>3. i \in files /\ i \in drawn /\ i \notin Rows
      /\ \A v \in Users \ {u} : ~ Inserts(v, i) /\ ~ Removes(v, i)
  BY <1>1, <1>2 DEF MediaInv
<1>4. UNCHANGED <<files, drawn, blamed>>
  BY DEF InsertRow
<1>5. CASE row' = [row EXCEPT ![i] = ""] /\ End(u) /\ lost' = lost
  <2>1. Rows' = Rows \cup {i} /\ row' \in [MediaIds -> Texts \cup {"", NoRow}]
    BY <1>1, <1>5, MediaAssumption DEF Rows, MediaInv, MediaTyped
  <2>2. /\ MediaTyped'
        /\ \A v \in Users \ {u}, j \in MediaIds :
              /\ Inserts(v, j)' <=> Inserts(v, j)
              /\ Removes(v, j)' <=> Removes(v, j)
        /\ \A j \in MediaIds : ~ Inserts(u, j)' /\ ~ Removes(u, j)'
    BY <1>5, <2>1, MediaStep DEF End
  <2>3. FilesMatchRows'
    <3>1. \A j \in MediaIds \ {i} : j \in InHand' <=> j \in InHand
      <4> SUFFICES ASSUME NEW j \in MediaIds \ {i} PROVE j \in InHand' <=> j \in InHand
        OBVIOUS
      <4>1. \A v \in Users : (Inserts(v, j)' \/ Removes(v, j)') <=> (Inserts(v, j) \/ Removes(v, j))
        BY <1>2, <2>2
      <4> QED
        BY <4>1, HeldIs
    <3>2. FilesMatchRows /\ files \subseteq MediaIds
      BY DEF MediaInv
    <3>3. Rows' \ files' \subseteq lost'
      BY <1>3, <1>4, <1>5, <2>1, <3>2 DEF FilesMatchRows
    <3>4. files' \ Rows' \subseteq InHand' \cup blamed'
      BY <1>4, <2>1, <3>1, <3>2 DEF FilesMatchRows
    <3> QED
      BY <3>3, <3>4 DEF FilesMatchRows
  <2>4. drawn' \subseteq MediaIds /\ files' \subseteq drawn' /\ Rows' \subseteq drawn'
    BY <1>3, <1>4, <2>1 DEF MediaInv
  <2>5. ASSUME NEW v \in Users, NEW j \in MediaIds
        PROVE /\ Inserts(v, j)' => j \in files' /\ j \notin Rows'
              /\ Removes(v, j)' => j \in drawn' /\ (j \notin Rows' \/ j \in lost')
    <3>1. CASE v = u
      BY <2>2, <3>1
    <3>2. CASE v # u
      BY <1>3, <1>4, <1>5, <2>1, <2>2, <3>2 DEF MediaInv
    <3> QED
      BY <3>1, <3>2
  <2>6. ASSUME NEW v \in Users, NEW w \in Users, NEW j \in MediaIds,
               Inserts(v, j)', Inserts(w, j)' \/ Removes(w, j)'
        PROVE v = w
    BY <2>2, <2>6 DEF MediaInv
  <2> QED
    BY <2>2, <2>3, <2>4, <2>5, <2>6 DEF MediaInv
<1>6. CASE row' = row /\ lost' = lost /\ Goto(u, "remove")
  <2>1. Rows' = Rows /\ row' \in [MediaIds -> Texts \cup {"", NoRow}]
    BY <1>6 DEF Rows, MediaInv, MediaTyped
  <2>2. PICK c \in Calls : call' = [call EXCEPT ![u] = c] /\ c.pc = "remove" /\ c.id = i
    BY <1>1, <1>6, ToRemoval DEF i
  <2>3. /\ MediaTyped'
        /\ \A v \in Users \ {u}, j \in MediaIds :
              /\ Inserts(v, j)' <=> Inserts(v, j)
              /\ Removes(v, j)' <=> Removes(v, j)
        /\ \A j \in MediaIds : ~ Inserts(u, j)' /\ (Removes(u, j)' <=> j = i)
    BY <2>1, <2>2, MediaStep, MediaAssumption
  <2>4. FilesMatchRows'
    <3>1. \A j \in MediaIds \ {i} : j \in InHand' <=> j \in InHand
      <4> SUFFICES ASSUME NEW j \in MediaIds \ {i} PROVE j \in InHand' <=> j \in InHand
        OBVIOUS
      <4>1. \A v \in Users : (Inserts(v, j)' \/ Removes(v, j)') <=> (Inserts(v, j) \/ Removes(v, j))
        BY <1>2, <2>3
      <4> QED
        BY <4>1, HeldIs
    <3>2. i \in InHand'
      BY <1>1, <2>3, HeldIs
    <3> QED
      BY <1>1, <1>3, <1>4, <1>6, <2>1, <3>1, <3>2 DEF FilesMatchRows, MediaInv
  <2> QED
    BY <1>1, <1>2, <1>3, <1>4, <1>6, <2>1, <2>3, <2>4 DEF MediaInv
<1>7. CASE row' = [row EXCEPT ![i] = ""] /\ lost' = lost \cup {i} /\ Goto(u, "remove")
  <2>1. Rows' = Rows \cup {i} /\ row' \in [MediaIds -> Texts \cup {"", NoRow}]
    BY <1>1, <1>7, MediaAssumption DEF Rows, MediaInv, MediaTyped
  <2>2. PICK c \in Calls : call' = [call EXCEPT ![u] = c] /\ c.pc = "remove" /\ c.id = i
    BY <1>1, <1>7, ToRemoval DEF i
  <2>3. /\ MediaTyped'
        /\ \A v \in Users \ {u}, j \in MediaIds :
              /\ Inserts(v, j)' <=> Inserts(v, j)
              /\ Removes(v, j)' <=> Removes(v, j)
        /\ \A j \in MediaIds : ~ Inserts(u, j)' /\ (Removes(u, j)' <=> j = i)
    BY <2>1, <2>2, MediaStep, MediaAssumption
  <2>4. FilesMatchRows'
    <3>1. \A j \in MediaIds \ {i} : j \in InHand' <=> j \in InHand
      <4> SUFFICES ASSUME NEW j \in MediaIds \ {i} PROVE j \in InHand' <=> j \in InHand
        OBVIOUS
      <4>1. \A v \in Users : (Inserts(v, j)' \/ Removes(v, j)') <=> (Inserts(v, j) \/ Removes(v, j))
        BY <1>2, <2>3
      <4> QED
        BY <4>1, HeldIs
    <3>2. i \in InHand'
      BY <1>1, <2>3, HeldIs
    <3> QED
      BY <1>1, <1>3, <1>4, <1>7, <2>1, <3>1, <3>2 DEF FilesMatchRows, MediaInv
  <2>5. \A v \in Users, j \in MediaIds :
          /\ Inserts(v, j)' => Inserts(v, j) /\ j # i
          /\ Removes(v, j)' => Removes(v, j) \/ j = i
    BY <1>3, <2>3
  <2>6. drawn' \subseteq MediaIds /\ files' \subseteq drawn' /\ Rows' \subseteq drawn'
    BY <1>3, <1>4, <2>1 DEF MediaInv
  <2>7. \A v \in Users, j \in MediaIds :
          /\ Inserts(v, j)' => j \in files' /\ j \notin Rows'
          /\ Removes(v, j)' => j \in drawn' /\ (j \notin Rows' \/ j \in lost')
    BY <1>1, <1>3, <1>4, <1>7, <2>1, <2>5 DEF MediaInv
  <2>8. \A v, x \in Users, j \in MediaIds :
          Inserts(v, j)' /\ (Inserts(x, j)' \/ Removes(x, j)') => v = x
    BY <2>5 DEF MediaInv
  <2> QED
    BY <2>3, <2>4, <2>6, <2>7, <2>8 DEF MediaInv
<1> QED
  BY <1>5, <1>6, <1>7 DEF InsertRow, i

LEMMA CallBegins ==
    ASSUME MediaInv, NEW u \in Users, NEW i \in MediaIds, NEW op \in {"update", "delete", "open"},
           NEW args \in Texts \cup Queries \cup {""}, BeginCall(u, i, op, args),
           op = "update" => args \in Texts
    PROVE MediaInv'
<1> DEFINE c == [pc |-> op, op |-> op, id |-> i, args |-> args]
<1>1. c \in Calls /\ c.pc = op /\ c.args = args
  BY DEF Calls, ItemCalls
<1>2. call' = [call EXCEPT ![u] = c] /\ UNCHANGED <<row, files, drawn, lost, blamed>>
  BY DEF BeginCall
<1>3. ~ At(u, "insert") /\ ~ At(u, "remove")
  BY DEF BeginCall, At
<1>4. Rows' = Rows /\ row' \in [MediaIds -> Texts \cup {"", NoRow}]
  BY <1>2 DEF Rows, MediaInv, MediaTyped
<1> HIDE DEF c
<1> QED
  BY <1>1, <1>2, <1>3, <1>4, ReaderSteps

LEMMA RowUpdated ==
    ASSUME MediaInv, NEW u \in Users, UpdateRow(u)
    PROVE MediaInv'
<1>1. call[u] \in Calls /\ call[u].id \in MediaIds /\ At(u, "update")
  BY CallsOf DEF UpdateRow
<1>2. call[u].args \in Texts
  BY <1>1 DEF MediaInv, MediaTyped
<1>3. ~ At(u, "insert") /\ ~ At(u, "remove")
  BY <1>1 DEF At
<1>4. /\ call' = [call EXCEPT ![u] = NoCall] /\ UNCHANGED <<files, drawn, lost, blamed>>
      /\ row' = [row EXCEPT ![call[u].id] = IF @ = NoRow THEN NoRow ELSE call[u].args]
  BY DEF UpdateRow, End
<1>5. Rows' = Rows /\ row' \in [MediaIds -> Texts \cup {"", NoRow}]
  BY <1>1, <1>2, <1>4, MediaAssumption DEF Rows, MediaInv, MediaTyped
<1> QED
  BY <1>3, <1>4, <1>5, ReaderSteps

LEMMA RowDeleted ==
    ASSUME MediaInv, NEW u \in Users, DeleteRow(u)
    PROVE MediaInv'
<1> DEFINE i == call[u].id
<1>1. At(u, "delete") /\ i \in MediaIds
  BY CallsOf DEF DeleteRow
<1>2. \A j \in MediaIds : ~ Inserts(u, j) /\ ~ Removes(u, j)
  BY <1>1 DEF Inserts, Removes, At
<1>3. UNCHANGED <<files, drawn, lost>>
  BY DEF DeleteRow
<1> HIDE DEF i
<1>4. CASE row[i] # NoRow /\ row' = [row EXCEPT ![i] = NoRow] /\ Goto(u, "remove") /\ blamed' = blamed
  <2>1. Rows' = Rows \ {i} /\ row' \in [MediaIds -> Texts \cup {"", NoRow}]
    BY <1>1, <1>4 DEF Rows, MediaInv, MediaTyped
  <2>2. i \in drawn /\ \A v \in Users : ~ Inserts(v, i)
    BY <1>1, <1>4 DEF MediaInv, Rows
  <2>3. PICK c \in Calls : call' = [call EXCEPT ![u] = c] /\ c.pc = "remove" /\ c.id = i
    BY <1>1, <1>4, ToRemoval DEF i
  <2>4. /\ MediaTyped'
        /\ \A v \in Users \ {u}, j \in MediaIds :
              /\ Inserts(v, j)' <=> Inserts(v, j)
              /\ Removes(v, j)' <=> Removes(v, j)
        /\ \A j \in MediaIds : ~ Inserts(u, j)' /\ (Removes(u, j)' <=> j = i)
    BY <2>1, <2>3, MediaStep, MediaAssumption
  <2>5. FilesMatchRows'
    <3>1. \A j \in MediaIds : j \in InHand' <=> (j \in InHand \/ j = i)
      BY <1>2, <2>4, HeldIs
    <3> QED
      BY <1>1, <1>3, <1>4, <2>1, <3>1 DEF FilesMatchRows, MediaInv
  <2>6. \A v \in Users, j \in MediaIds :
          /\ Inserts(v, j)' => Inserts(v, j) /\ j # i
          /\ Removes(v, j)' => Removes(v, j) \/ j = i
    BY <2>2, <2>4
  <2> QED
    BY <1>3, <2>1, <2>2, <2>4, <2>5, <2>6 DEF MediaInv
<1>5. CASE row[i] # NoRow /\ row' = [row EXCEPT ![i] = NoRow] /\ End(u) /\ blamed' = blamed \cup {i}
  <2>1. Rows' = Rows \ {i} /\ row' \in [MediaIds -> Texts \cup {"", NoRow}]
    BY <1>1, <1>5 DEF Rows, MediaInv, MediaTyped
  <2>2. /\ MediaTyped'
        /\ \A v \in Users \ {u}, j \in MediaIds :
              /\ Inserts(v, j)' <=> Inserts(v, j)
              /\ Removes(v, j)' <=> Removes(v, j)
        /\ \A j \in MediaIds : ~ Inserts(u, j)' /\ ~ Removes(u, j)'
    BY <1>5, <2>1, MediaStep DEF End
  <2>3. FilesMatchRows'
    <3>1. \A j \in MediaIds : j \in InHand' <=> j \in InHand
      BY <1>2, <2>2, HeldIs
    <3> QED
      BY <1>1, <1>3, <1>5, <2>1, <3>1 DEF FilesMatchRows, MediaInv
  <2> QED
    BY <1>2, <1>3, <1>5, <2>1, <2>2, <2>3 DEF MediaInv
<1>6. CASE End(u) /\ UNCHANGED <<row, blamed>>
  <2>1. Rows' = Rows /\ row' \in [MediaIds -> Texts \cup {"", NoRow}]
    BY <1>6 DEF Rows, MediaInv, MediaTyped
  <2>2. ~ At(u, "insert") /\ ~ At(u, "remove")
    BY <1>1 DEF At
  <2> QED
    BY <1>3, <1>6, <2>1, <2>2, ReaderSteps DEF End
<1> QED
  BY <1>4, <1>5, <1>6 DEF DeleteRow, i

LEMMA FileRemoved ==
    ASSUME MediaInv, NEW u \in Users, RemoveFile(u)
    PROVE MediaInv'
<1> DEFINE i == call[u].id
<1>1. At(u, "remove") /\ i \in MediaIds
  BY CallsOf DEF RemoveFile
<1>2. /\ Removes(u, i) /\ ~ Inserts(u, i)
      /\ \A j \in MediaIds \ {i} : ~ Inserts(u, j) /\ ~ Removes(u, j)
  BY <1>1 DEF Inserts, Removes, At
<1>3. /\ UNCHANGED <<row, drawn, lost>> /\ End(u)
      /\ \/ files' = files \ {i} /\ blamed' = blamed
         \/ files' = files /\ blamed' = blamed \cup {i}
  BY DEF RemoveFile
<1> HIDE DEF i
<1>4. (i \notin Rows \/ i \in lost) /\ \A v \in Users : ~ Inserts(v, i)
  BY <1>1, <1>2 DEF MediaInv
<1>5. Rows' = Rows /\ row' \in [MediaIds -> Texts \cup {"", NoRow}]
  BY <1>3 DEF Rows, MediaInv, MediaTyped
<1>6. /\ MediaTyped'
      /\ \A v \in Users \ {u}, j \in MediaIds :
            /\ Inserts(v, j)' <=> Inserts(v, j)
            /\ Removes(v, j)' <=> Removes(v, j)
      /\ \A j \in MediaIds : ~ Inserts(u, j)' /\ ~ Removes(u, j)'
  BY <1>3, <1>5, MediaStep DEF End
<1>7. FilesMatchRows'
  <2>1. \A j \in MediaIds \ {i} : j \in InHand' <=> j \in InHand
    <3> SUFFICES ASSUME NEW j \in MediaIds \ {i} PROVE j \in InHand' <=> j \in InHand
      OBVIOUS
    <3>1. \A v \in Users : (Inserts(v, j)' \/ Removes(v, j)') <=> (Inserts(v, j) \/ Removes(v, j))
      BY <1>2, <1>6
    <3> QED
      BY <3>1, HeldIs
  <2> QED
    BY <1>1, <1>3, <1>4, <1>5, <2>1 DEF FilesMatchRows, MediaInv
<1>8. \A v \in Users, j \in MediaIds :
        /\ Inserts(v, j)' => Inserts(v, j) /\ j # i
        /\ Removes(v, j)' => Removes(v, j)
  BY <1>4, <1>6
<1>9. \A j \in MediaIds \ {i} : j \in files' <=> j \in files
  BY <1>3
<1> QED
  BY <1>3, <1>5, <1>6, <1>7, <1>8, <1>9 DEF MediaInv

LEMMA FileOpened ==
    ASSUME MediaInv, NEW u \in Users, OpenFile(u) \/ ReturnImage(u)
    PROVE MediaInv'
<1>1. ~ At(u, "insert") /\ ~ At(u, "remove")
  BY DEF OpenFile, ReturnImage, At
<1>2. UNCHANGED <<row, files, drawn, lost, blamed>>
  BY DEF OpenFile, ReturnImage
<1>3. Rows' = Rows /\ row' \in [MediaIds -> Texts \cup {"", NoRow}]
  BY <1>2 DEF Rows, MediaInv, MediaTyped
<1>4. \E c : call' = [call EXCEPT ![u] = c] /\ (c = NoCall \/ c.pc = "answer")
  <2>1. CASE End(u)
    BY <2>1 DEF End
  <2>2. CASE \E img \in Transformed(Picture, call[u].args) :
              call' = [call EXCEPT ![u] = [pc |-> "answer", op |-> "open", id |-> call[u].id,
                                           args |-> call[u].args, image |-> img]]
    <3>1. PICK img \in Transformed(Picture, call[u].args) :
              call' = [call EXCEPT ![u] = [pc |-> "answer", op |-> "open", id |-> call[u].id,
                                           args |-> call[u].args, image |-> img]]
      BY <2>2
    <3> DEFINE c == [pc |-> "answer", op |-> "open", id |-> call[u].id,
                     args |-> call[u].args, image |-> img]
    <3>2. c.pc = "answer" /\ call' = [call EXCEPT ![u] = c]
      BY <3>1
    <3> HIDE DEF c
    <3> QED
      BY <3>2
  <2> QED
    BY <2>1, <2>2 DEF OpenFile, ReturnImage
<1> QED
  BY <1>1, <1>2, <1>3, <1>4, ReaderSteps

LEMMA MediaStops ==
    ASSUME MediaInv, MediaRestart
    PROVE MediaInv'
<1>1. /\ UNCHANGED <<row, files, drawn, lost>> /\ Rows' = Rows
      /\ call' = [u \in Users |-> NoCall] /\ blamed' = blamed \cup InHand
  BY DEF MediaRestart, Rows
<1>2. MediaTyped' /\ \A v \in Users, j \in MediaIds : ~ Inserts(v, j)' /\ ~ Removes(v, j)'
  BY <1>1 DEF MediaInv, MediaTyped, At, Inserts, Removes
<1> QED
  BY <1>1, <1>2 DEF MediaInv, FilesMatchRows

LEMMA MediaRests ==
    ASSUME MediaInv, UNCHANGED mediaVars
    PROVE MediaInv'
<1>1. UNCHANGED <<row, files, drawn, call, lost, blamed>>
  BY DEF mediaVars
<1>2. Rows' = Rows /\ InHand' = InHand /\ MediaTyped'
  BY <1>1 DEF Rows, InHand, At, MediaInv, MediaTyped
<1>3. \A u \in Users, i \in MediaIds :
        (Inserts(u, i)' <=> Inserts(u, i)) /\ (Removes(u, i)' <=> Removes(u, i))
  BY <1>1 DEF Inserts, Removes, At
<1> QED
  BY <1>1, <1>2, <1>3 DEF MediaInv, FilesMatchRows

LEMMA MediaKept ==
    ASSUME MediaInv, [Next]_vars
    PROVE MediaInv'
<1>1. CASE CallMedia
  BY <1>1, UploadBegins, CallBegins DEF CallMedia
<1>2. CASE RunMedia
  BY <1>2, RowInserted, RowUpdated, RowDeleted, FileRemoved, FileOpened DEF RunMedia
<1>3. CASE Restart
  BY <1>3, MediaStops DEF Restart
<1>4. CASE UNCHANGED mediaVars
  BY <1>4, MediaRests
<1> QED
  BY <1>1, <1>2, <1>3, <1>4 DEF Next, vars

\* Media rows and their files part only where a step failed or the process
\* stopped (internal/media/media.go, Upload and Delete): whatever order the
\* steps of any number of uploads and deletions take, a row without a file
\* comes of an insert that committed and was reported as failed, and a file
\* without a row of a request that still holds it or failed over it.
THEOREM FilesHaveRows == Spec => []FilesMatchRows
<1>1. Init => MediaInv
  BY InitMedia DEF Init
<1>2. MediaInv => FilesMatchRows
  BY DEF MediaInv
<1> QED
  BY <1>1, <1>2, MediaKept, PTL DEF Spec

-----------------------------------------------------------------------------
\* The image pipeline.

LEMMA QuotientBound ==
    ASSUME NEW a \in Int, NEW d \in Nat \ {0}, NEW b \in Int, a <= b * d
    PROVE a \div d \in Int /\ a \div d <= b
<1> DEFINE q == a \div d
<1>1. q \in Int /\ d * q <= a
  OBVIOUS
<1> HIDE DEF q
<1>2. CASE q >= b + 1
  <2>1. d * q >= d * (b + 1)
    BY <1>1, <1>2
  <2>2. d * (b + 1) = b * d + d
    OBVIOUS
  <2> QED
    BY <1>1, <2>1, <2>2
<1> QED
  BY <1>1, <1>2 DEF q

\* Either rounding of a quotient keeps the quotient's bound.
LEMMA ScaledBound ==
    ASSUME NEW m \in Int, NEW n \in Int, NEW d \in Nat \ {0}, NEW b \in Int, m * n <= b * d
    PROVE \A q \in Scaled(m, n, d) : q \in Nat /\ q <= b
<1> DEFINE k == m * n  c == b * d
<1>1. k \in Int /\ c \in Int /\ k <= c /\ k - 1 <= c
  <2>1. k \in Int /\ c \in Int
    OBVIOUS
  <2> QED
    BY <2>1
<1>2. k \div d \in Int /\ k \div d <= b
  BY <1>1, QuotientBound
<1>3. k - 1 \in Int
  BY <1>1
<1>4. (k - 1) \div d \in Int /\ (k - 1) \div d <= b
  BY <1>1, <1>3, QuotientBound
<1> HIDE DEF k
<1> QED
  BY <1>2, <1>4 DEF Scaled, k

\* Each way of fitting one side keeps the other side's bound too.
LEMMA DimensionsFit ==
    ASSUME NEW w \in Nat \ {0}, NEW h \in Nat \ {0}, NEW maxW \in Int, NEW maxH \in Int,
           maxW > 0 \/ maxH > 0, NEW s \in ScaledDimensions(w, h, maxW, maxH)
    PROVE /\ s[1] \in Int /\ s[2] \in Int
          /\ maxW > 0 => s[1] <= maxW
          /\ maxH > 0 => s[2] <= maxH
<1>1. ASSUME NEW q \in Scaled(maxW, h, w)
      PROVE q \in Int
  BY <1>1 DEF Scaled
<1>2. ASSUME NEW q \in Scaled(maxH, w, h)
      PROVE q \in Int
  BY <1>2 DEF Scaled
<1>3. CASE maxW > 0 /\ maxH <= 0
  <2>1. s \in {maxW} \X Scaled(maxW, h, w)
    BY <1>3 DEF ScaledDimensions
  <2> QED
    BY <1>1, <1>3, <2>1
<1>4. CASE maxW <= 0 /\ maxH > 0
  <2>1. s \in Scaled(maxH, w, h) \X {maxH}
    BY <1>4 DEF ScaledDimensions
  <2> QED
    BY <1>2, <1>4, <2>1
<1>5. CASE maxW > 0 /\ maxH > 0
  <2>1. \/ s \in {maxW} \X Scaled(maxW, h, w) /\ maxW * h <= maxH * w
        \/ s \in Scaled(maxH, w, h) \X {maxH} /\ maxW * h >= maxH * w
    BY <1>5 DEF ScaledDimensions
  <2>2. CASE s \in {maxW} \X Scaled(maxW, h, w) /\ maxW * h <= maxH * w
    <3>1. \A q \in Scaled(maxW, h, w) : q \in Nat /\ q <= maxH
      BY <2>2, ScaledBound
    <3> QED
      BY <2>2, <3>1
  <2>3. CASE s \in Scaled(maxH, w, h) \X {maxH} /\ maxW * h >= maxH * w
    <3>1. maxH * w <= maxW * h
      BY <2>3
    <3>2. \A q \in Scaled(maxH, w, h) : q \in Nat /\ q <= maxW
      BY <3>1, ScaledBound
    <3> QED
      BY <2>3, <3>2
  <2> QED
    BY <2>1, <2>2, <2>3
<1> QED
  BY <1>3, <1>4, <1>5

LEMMA QuarterIs ==
    ASSUME NEW img, img.w \in Nat, img.h \in Nat
    PROVE /\ Quarter(img).w = img.h /\ Quarter(img).h = img.w
          /\ \A u \in 0 .. img.h - 1, v \in 0 .. img.w - 1 :
                Quarter(img).at[u, v] = img.at[v, img.h - 1 - u]
BY DEF Quarter, ImageOf, Points

\* What the pipeline's turns are, pixel by pixel.
LEMMA RotationsAre ==
    ASSUME NEW img
    PROVE /\ Rotate(img, 180) = [w |-> img.w, h |-> img.h,
              at |-> [p \in Points(img.w, img.h) |-> img.at[img.w - 1 - p[1], img.h - 1 - p[2]]]]
          /\ Rotate(img, 270) = [w |-> img.h, h |-> img.w,
              at |-> [p \in Points(img.h, img.w) |-> img.at[img.w - 1 - p[2], p[1]]]]
<1>1. Rotate(img, 180) = [w |-> img.w, h |-> img.h,
          at |-> [p \in Points(img.w, img.h) |-> img.at[img.w - 1 - p[1], img.h - 1 - p[2]]]]
  BY DEF Rotate, ImageOf
<1>2. Rotate(img, 270) = [w |-> img.h, h |-> img.w,
          at |-> [p \in Points(img.h, img.w) |-> img.at[img.w - 1 - p[2], p[1]]]]
  BY DEF Rotate, ImageOf
<1> QED
  BY <1>1, <1>2

LEMMA RotationSizes ==
    ASSUME NEW img
    PROVE /\ Rotate(img, 180).w = img.w /\ Rotate(img, 180).h = img.h
          /\ Rotate(img, 270).w = img.h /\ Rotate(img, 270).h = img.w
<1> DEFINE f == [p \in Points(img.w, img.h) |-> img.at[img.w - 1 - p[1], img.h - 1 - p[2]]]
           g == [p \in Points(img.h, img.w) |-> img.at[img.w - 1 - p[2], p[1]]]
<1>1. Rotate(img, 180) = [w |-> img.w, h |-> img.h, at |-> f]
  BY RotationsAre
<1>2. Rotate(img, 270) = [w |-> img.h, h |-> img.w, at |-> g]
  BY RotationsAre
<1> HIDE DEF f, g
<1> QED
  BY <1>1, <1>2

LEMMA HalfTurn ==
    ASSUME NEW img, img.w \in Nat, img.h \in Nat
    PROVE Rotate(img, 180) = Quarter(Quarter(img))
<1> DEFINE q == Quarter(img)
<1>1. /\ q.w = img.h /\ q.h = img.w
      /\ \A u \in 0 .. img.h - 1, v \in 0 .. img.w - 1 : q.at[u, v] = img.at[v, img.h - 1 - u]
  BY QuarterIs
<1> HIDE DEF q
<1>2. ASSUME NEW p \in Points(img.w, img.h)
      PROVE q.at[p[2], img.w - 1 - p[1]] = img.at[img.w - 1 - p[1], img.h - 1 - p[2]]
  <2>1. p[1] \in 0 .. img.w - 1 /\ p[2] \in 0 .. img.h - 1
    BY DEF Points
  <2>2. img.w - 1 - p[1] \in 0 .. img.w - 1
    BY <2>1
  <2> QED
    BY <1>1, <2>1, <2>2
<1>3. Quarter(q) = [w |-> img.w, h |-> img.h,
                    at |-> [p \in Points(img.w, img.h) |-> q.at[p[2], img.w - 1 - p[1]]]]
  BY <1>1 DEF Quarter, ImageOf
<1>5. [p \in Points(img.w, img.h) |-> q.at[p[2], img.w - 1 - p[1]]]
        = [p \in Points(img.w, img.h) |-> img.at[img.w - 1 - p[1], img.h - 1 - p[2]]]
  BY <1>2
<1> QED
  BY <1>3, <1>5, RotationsAre DEF q

LEMMA ThreeQuarters ==
    ASSUME NEW img, img.w \in Nat, img.h \in Nat
    PROVE Rotate(img, 270) = Quarter(Quarter(Quarter(img)))
<1> DEFINE q == Rotate(img, 180)
<1>1. /\ q.w = img.w /\ q.h = img.h
      /\ \A u \in 0 .. img.w - 1, v \in 0 .. img.h - 1 :
            q.at[u, v] = img.at[img.w - 1 - u, img.h - 1 - v]
  <2>1. q = [w |-> img.w, h |-> img.h,
             at |-> [p \in Points(img.w, img.h) |-> img.at[img.w - 1 - p[1], img.h - 1 - p[2]]]]
    BY RotationsAre
  <2> HIDE DEF q
  <2> QED
    BY <2>1 DEF Points
<1>2. q = Quarter(Quarter(img))
  BY HalfTurn
<1> HIDE DEF q
<1>3. ASSUME NEW p \in Points(img.h, img.w)
      PROVE q.at[p[2], img.h - 1 - p[1]] = img.at[img.w - 1 - p[2], p[1]]
  <2>1. p[1] \in 0 .. img.h - 1 /\ p[2] \in 0 .. img.w - 1
    BY DEF Points
  <2>2. img.h - 1 - p[1] \in 0 .. img.h - 1 /\ img.h - 1 - (img.h - 1 - p[1]) = p[1]
    BY <2>1
  <2> QED
    BY <1>1, <2>1, <2>2
<1>4. Quarter(q) = [w |-> img.h, h |-> img.w,
                    at |-> [p \in Points(img.h, img.w) |-> q.at[p[2], img.h - 1 - p[1]]]]
  BY <1>1 DEF Quarter, ImageOf
<1>5. [p \in Points(img.h, img.w) |-> q.at[p[2], img.h - 1 - p[1]]]
        = [p \in Points(img.h, img.w) |-> img.at[img.w - 1 - p[2], p[1]]]
  BY <1>3
<1> QED
  BY <1>2, <1>4, <1>5, RotationsAre

\* A turn is as many quarter turns, and turns no image into an empty one.
LEMMA RotatesByQuarters ==
    ASSUME NEW img, img.w \in Nat \ {0}, img.h \in Nat \ {0}, NEW degrees \in {0, 90, 180, 270}
    PROVE /\ Rotate(img, degrees) = Turned(img, degrees)
          /\ Rotate(img, degrees).w \in Nat \ {0} /\ Rotate(img, degrees).h \in Nat \ {0}
<1>1. CASE degrees = 0
  BY <1>1 DEF Rotate, Turned
<1>2. CASE degrees = 90
  <2>1. Rotate(img, 90) = Quarter(img)
    BY DEF Rotate, Quarter
  <2>2. Turned(img, 90) = Quarter(img)
    BY DEF Turned
  <2>3. Quarter(img).w = img.h /\ Quarter(img).h = img.w
    BY QuarterIs
  <2> QED
    BY <1>2, <2>1, <2>2, <2>3
<1>3. CASE degrees = 180
  <2>1. Turned(img, 180) = Quarter(Quarter(img))
    BY DEF Turned
  <2>2. Rotate(img, 180).w = img.w /\ Rotate(img, 180).h = img.h
    BY RotationSizes
  <2> QED
    BY <1>3, <2>1, <2>2, HalfTurn
<1>4. CASE degrees = 270
  <2>1. Turned(img, 270) = Quarter(Quarter(Quarter(img)))
    BY DEF Turned
  <2>2. Rotate(img, 270).w = img.h /\ Rotate(img, 270).h = img.w
    BY RotationSizes
  <2> QED
    BY <1>4, <2>1, <2>2, ThreeQuarters
<1> QED
  BY <1>1, <1>2, <1>3, <1>4

\* The whole pipeline, for any options of any reader.
LEMMA TransformedFits ==
    ASSUME NEW o \in Queries, TransformValid(Picture, o), NEW img \in Transformed(Picture, o)
    PROVE Fits(img, o)
<1> DEFINE cropped == IF o.cropW > 0 THEN Crop(Picture, o) ELSE Picture
           turned == Rotate(cropped, o.rotate)
<1>1. /\ o.cropX \in Int /\ o.cropY \in Int /\ o.cropW \in Int /\ o.cropH \in Int
      /\ o.maxW \in Int /\ o.maxH \in Int /\ Picture.w \in Nat \ {0} /\ Picture.h \in Nat \ {0}
  BY MediaAssumption
<1>2. (o.cropW > 0 \/ o.cropH > 0) => o.cropW > 0 /\ o.cropH > 0
  BY DEF TransformValid, CropFits
<1>3. cropped.w \in Nat \ {0} /\ cropped.h \in Nat \ {0}
  BY <1>1, <1>2 DEF Crop, ImageOf
<1>4. cropped = IF o.cropW > 0 \/ o.cropH > 0 THEN Crop(Picture, o) ELSE Picture
  BY <1>2
<1>5. img \in IF o.maxW > 0 \/ o.maxH > 0
              THEN {Resize(turned, s) : s \in ScaledDimensions(turned.w, turned.h, o.maxW, o.maxH)}
              ELSE {turned}
  BY <1>4 DEF Transformed
<1> HIDE DEF cropped
<1>6. turned = Turned(cropped, o.rotate) /\ turned.w \in Nat \ {0} /\ turned.h \in Nat \ {0}
  <2>1. o.rotate \in {0, 90, 180, 270}
    BY DEF TransformValid
  <2> QED
    BY <1>3, <2>1, RotatesByQuarters
<1> HIDE DEF turned
<1>7. CASE o.maxW > 0 \/ o.maxH > 0
  <2>1. PICK s \in ScaledDimensions(turned.w, turned.h, o.maxW, o.maxH) : img = Resize(turned, s)
    BY <1>5, <1>7
  <2>2. /\ s[1] \in Int /\ s[2] \in Int
        /\ o.maxW > 0 => s[1] <= o.maxW
        /\ o.maxH > 0 => s[2] <= o.maxH
    BY <1>1, <1>6, <1>7, <2>1, DimensionsFit
  <2>3. img.w = AtLeastOne(s[1]) /\ img.h = AtLeastOne(s[2])
    BY <2>1 DEF Resize, ImageOf
  <2> QED
    BY <1>1, <1>7, <2>2, <2>3 DEF Fits, AtLeastOne
<1>8. CASE ~ (o.maxW > 0 \/ o.maxH > 0)
  <2>1. img = turned
    BY <1>5, <1>8
  <2> QED
    BY <1>1, <1>6, <1>8, <2>1 DEF Fits, cropped
<1> QED
  BY <1>7, <1>8
\* A reader's options are the ones it asked with, until its image is made.
ImagesInv ==
    \A u \in Users : /\ At(u, "open") => call[u].args \in Queries
                     /\ At(u, "answer") => Fits(call[u].image, call[u].args)

LEMMA ImagesMove ==
    ASSUME MediaInv, ImagesInv, NEW u \in Users, NEW c, call' = [call EXCEPT ![u] = c],
           \/ c = NoCall
           \/ /\ c.pc = "open" => c.args \in Queries
              /\ c.pc = "answer" => Fits(c.image, c.args)
    PROVE ImagesInv'
<1>1. call'[u] = c /\ \A v \in Users \ {u} : call'[v] = call[v]
  BY CallStays
<1> QED
  BY <1>1 DEF ImagesInv, At

LEMMA ImagesRest ==
    ASSUME ImagesInv, UNCHANGED call
    PROVE ImagesInv'
BY DEF ImagesInv, At

LEMMA ImageOpened ==
    ASSUME MediaInv, ImagesInv, NEW u \in Users, OpenFile(u)
    PROVE ImagesInv'
<1>1. CASE End(u)
  BY <1>1, ImagesMove DEF End
<1>2. CASE ~ End(u)
  <2>1. At(u, "open") /\ TransformValid(Picture, call[u].args)
    BY <1>2 DEF OpenFile
  <2>2. PICK img \in Transformed(Picture, call[u].args) :
           call' = [call EXCEPT ![u] = [pc |-> "answer", op |-> "open", id |-> call[u].id,
                                        args |-> call[u].args, image |-> img]]
    BY <1>2 DEF OpenFile
  <2>3. Fits(img, call[u].args)
    BY <2>1, TransformedFits DEF ImagesInv
  <2> DEFINE c == [pc |-> "answer", op |-> "open", id |-> call[u].id,
                   args |-> call[u].args, image |-> img]
  <2>4. c.pc = "answer" /\ c.image = img /\ c.args = call[u].args
    OBVIOUS
  <2>5. call' = [call EXCEPT ![u] = c]
    BY <2>2
  <2> HIDE DEF c
  <2> QED
    BY <2>3, <2>4, <2>5, ImagesMove
<1> QED
  BY <1>1, <1>2

LEMMA ImagesKept ==
    ASSUME MediaInv, ImagesInv, [Next]_vars
    PROVE ImagesInv'
<1>1. ASSUME NEW u \in Users, NEW i \in MediaIds, BeginUpload(u, i)
      PROVE ImagesInv'
  <2> DEFINE c == [pc |-> "insert", op |-> "upload", id |-> i]
  <2>1. call' = [call EXCEPT ![u] = c] \/ UNCHANGED call
    BY <1>1 DEF BeginUpload
  <2>2. c.pc = "insert"
    OBVIOUS
  <2> HIDE DEF c
  <2> QED
    BY <2>1, <2>2, ImagesMove, ImagesRest
<1>2. ASSUME NEW u \in Users, NEW i \in MediaIds, NEW op \in {"update", "delete", "open"},
             NEW args, op = "open" => args \in Queries, BeginCall(u, i, op, args)
      PROVE ImagesInv'
  <2> DEFINE c == [pc |-> op, op |-> op, id |-> i, args |-> args]
  <2>1. call' = [call EXCEPT ![u] = c]
    BY <1>2 DEF BeginCall
  <2>2. c.pc = op /\ c.args = args
    OBVIOUS
  <2> HIDE DEF c
  <2> QED
    BY <1>2, <2>1, <2>2, ImagesMove
<1>3. ASSUME NEW u \in Users, InsertRow(u) \/ DeleteRow(u)
      PROVE ImagesInv'
  <2>1. CASE End(u)
    BY <2>1, ImagesMove DEF End
  <2>2. CASE Goto(u, "remove")
    <3>1. PICK c \in Calls : call' = [call EXCEPT ![u] = c] /\ c.pc = "remove"
      BY <1>3, <2>2, ToRemoval DEF InsertRow, DeleteRow
    <3> QED
      BY <3>1, ImagesMove
  <2> QED
    BY <1>3, <2>1, <2>2 DEF InsertRow, DeleteRow
<1>4. ASSUME NEW u \in Users, UpdateRow(u) \/ RemoveFile(u) \/ ReturnImage(u)
      PROVE ImagesInv'
  <2>1. End(u)
    BY <1>4 DEF UpdateRow, RemoveFile, ReturnImage
  <2> QED
    BY <2>1, ImagesMove DEF End
<1>5. CASE CallMedia
  BY <1>1, <1>2, <1>5 DEF CallMedia
<1>6. CASE RunMedia
  BY <1>3, <1>4, <1>6, ImageOpened DEF RunMedia
<1>7. CASE Restart
  BY <1>7 DEF Restart, MediaRestart, ImagesInv, At
<1>8. CASE UNCHANGED mediaVars
  BY <1>8, ImagesRest DEF mediaVars
<1> QED
  BY <1>5, <1>6, <1>7, <1>8 DEF Next, vars

\* A transformed image has a pixel, keeps the bounds it was asked to fit, and
\* without a resize is the cropped picture turned quarter by quarter
\* (internal/media/media.go, Transform): for every picture and all options,
\* however the quotients of scaledDimensions are rounded.
THEOREM ImagesFit == Spec => []TransformFits
<1>1. Init => MediaInv /\ ImagesInv
  BY InitMedia DEF Init, MediaInit, ImagesInv, At
<1>2. MediaInv /\ ImagesInv /\ [Next]_vars => (MediaInv /\ ImagesInv)'
  BY MediaKept, ImagesKept
<1>3. ImagesInv => TransformFits
  BY DEF ImagesInv, TransformFits
<1> QED
  BY <1>1, <1>2, <1>3, PTL DEF Spec

-----------------------------------------------------------------------------
\* Artifacts and tokens.

ArtifactsInv ==
    /\ keys \subseteq AllKeys
    /\ artifacts \in Seq(Authored \cup Releases)
    /\ \A i \in 1 .. Len(artifacts) : ArtifactValid(artifacts[i])

\* What is installed was signed as it is, by a key that was trusted.
LEMMA InstalledWasReleased ==
    ASSUME ArtifactsInv, NEW e \in ToSet(Catalog), Installs(e)
    PROVE Artifact(e.package) \in Releases /\ ArtifactValid(Artifact(e.package))
<1> DEFINE x == e.package
<1> DEFINE path == ArtifactPath[x.manifest.kind]
<1>1. x # NoContainer /\ Decodes(x, keys) /\ HasArtifact(x) /\ ArtifactValid(Artifact(x))
  BY DEF Installs
<1>2. /\ x.key \in AllKeys
      /\ x.signed = [key |-> x.key, manifest |-> x.manifest, sums |-> x.sums]
  BY <1>1 DEF Decodes, SignatureValid, ArtifactsInv
<1>3. path \in DOMAIN x.files /\ DOMAIN x.files = DOMAIN x.sums /\ x.sums[path] = x.files[path]
  BY <1>1 DEF Decodes, PayloadMatches, HasArtifact
<1>4. x.signed.key = x.key /\ x.signed.sums = x.sums
  BY <1>2
<1>5. x.sums[path] \in Releases
  BY <1>1, <1>2, <1>3, <1>4, LibraryAssumption
<1> QED
  BY <1>1, <1>3, <1>5 DEF Artifact

LEMMA Insertion ==
    ASSUME ArtifactsInv, NEW a \in Authored \cup Releases, ArtifactValid(a), Inserted(a)
    PROVE /\ ArtifactsInv' /\ Len(artifacts') = Len(artifacts) + 1
          /\ \A i \in 1 .. Len(artifacts) : artifacts'[i] = artifacts[i]
<1>1. artifacts \in Seq(Authored \cup Releases) /\ artifacts' = Append(artifacts, a) /\ keys' = keys
  BY DEF Inserted, ArtifactsInv
<1>2. /\ artifacts' \in Seq(Authored \cup Releases) /\ Len(artifacts') = Len(artifacts) + 1
      /\ Len(artifacts) \in Nat /\ artifacts'[Len(artifacts) + 1] = a
      /\ \A i \in 1 .. Len(artifacts) : artifacts'[i] = artifacts[i]
  BY <1>1
<1>3. ASSUME NEW i \in 1 .. Len(artifacts') PROVE ArtifactValid(artifacts'[i])
  <2>1. CASE i = Len(artifacts) + 1
    BY <1>2, <2>1
  <2>2. CASE i # Len(artifacts) + 1
    <3>1. i \in 1 .. Len(artifacts)
      BY <1>2, <2>2
    <3> QED
      BY <1>2, <3>1 DEF ArtifactsInv
  <2> QED
    BY <2>1, <2>2
<1> QED
  BY <1>1, <1>2, <1>3 DEF ArtifactsInv

\* Every other step leaves the artifacts alone.
LEMMA ArtifactsStep ==
    ASSUME [Next]_vars
    PROVE \/ \E a \in Authored : SaveArtifact(a)
          \/ \E e \in ToSet(Catalog) : Install(e)
          \/ artifacts' = artifacts /\ (keys' = keys \/ keys' \subseteq AllKeys)
<1>1. CASE CallImports
  BY <1>1 DEF CallImports, PutLayout, BeginImport, RegisterToken
<1>2. CASE RunImports
  BY <1>2 DEF RunImports, LoadTarget, SavePage, Seed, FailImport, ReturnImport, Tick
<1>3. CASE Restart
  BY <1>3 DEF Restart, ImportsRestart
<1>4. CASE UNCHANGED importVars
  BY <1>4 DEF importVars
<1> QED
  BY <1>1, <1>2, <1>3, <1>4 DEF Next, vars

LEMMA ArtifactsKept ==
    ASSUME ArtifactsInv, [Next]_vars
    PROVE /\ ArtifactsInv' /\ Len(artifacts) \in Nat /\ Len(artifacts') >= Len(artifacts)
          /\ \A i \in 1 .. Len(artifacts) : artifacts'[i] = artifacts[i]
<1>1. CASE \E a \in Authored : SaveArtifact(a)
  <2>1. PICK a \in Authored : SaveArtifact(a)
    BY <1>1
  <2>2. ArtifactValid(a) /\ Inserted(a)
    BY <2>1 DEF SaveArtifact, Accepted
  <2>3. Len(artifacts) \in Nat
    BY DEF ArtifactsInv
  <2> QED
    BY <2>2, <2>3, Insertion
<1>2. CASE \E e \in ToSet(Catalog) : Install(e)
  <2>1. PICK e \in ToSet(Catalog) : Install(e)
    BY <1>2
  <2>2. Installs(e) /\ Inserted(Artifact(e.package))
    BY <2>1 DEF Install
  <2>3. Artifact(e.package) \in Releases /\ ArtifactValid(Artifact(e.package))
    BY <2>2, InstalledWasReleased
  <2>4. Len(artifacts) \in Nat
    BY DEF ArtifactsInv
  <2> QED
    BY <2>2, <2>3, <2>4, Insertion
<1>3. CASE artifacts' = artifacts /\ (keys' = keys \/ keys' \subseteq AllKeys)
  <2>1. Len(artifacts) \in Nat
    BY DEF ArtifactsInv
  <2> QED
    BY <1>3, <2>1 DEF ArtifactsInv
<1> QED
  BY <1>1, <1>2, <1>3, ArtifactsStep

LEMMA InitArtifacts == Init => ArtifactsInv
BY DEF Init, ImportsInit, ArtifactsInv

\* Every stored preset and bundle is one that an administrator wrote or a
\* publisher released (pkg/packagefmt's Decode and the two
\* InstallFromPackage): a container whose files, checksums, manifest or
\* signature were altered on the way installs nothing, under any catalog
\* whose trusted keys signed releases only.
THEOREM InstalledAsReleased == Spec => []ArtifactsHaveAuthors
<1>1. ArtifactsInv => ArtifactsHaveAuthors
  BY DEF ArtifactsInv, ArtifactsHaveAuthors, ToSet
<1>2. ArtifactsInv /\ [Next]_vars => ArtifactsInv'
  BY ArtifactsKept
<1> QED
  BY <1>1, <1>2, InitArtifacts, PTL DEF Spec

\* The rows of the table are what was registered, and that was genuine.
Entries == [row : {Stored(tok) : tok \in Tokens}, was : Tokens]

TokensInv ==
    /\ tokens \in Seq(Entries)
    /\ \A i \in 1 .. Len(tokens) :
          tokens[i].row = Stored(tokens[i].was) /\ tokens[i].was.genuine

LEMMA GenuineWhenRegistrable ==
    ASSUME NEW tok \in Tokens, NEW k, NEW time, Registrable(k, tok, time)
    PROVE tok.genuine
<1> SUFFICES ASSUME ~ tok.genuine PROVE FALSE
  OBVIOUS
<1>1. \A key \in k : Verdict(key, tok, time) = "invalid"
  BY DEF Verdict
<1>2. {Verdict(key, tok, time) : key \in k} \ {"invalid"} = {}
  <2>1. \A v \in {Verdict(key, tok, time) : key \in k} : v = "invalid"
    BY <1>1
  <2> DEFINE verdicts == {Verdict(key, tok, time) : key \in k}
  <2> HIDE DEF verdicts
  <2>2. verdicts \ {"invalid"} = {}
    BY <2>1 DEF verdicts
  <2> QED
    BY <2>2 DEF verdicts
<1> QED
  BY <1>2 DEF Registrable, TokenStatus

LEMMA TokensStep ==
    ASSUME TokensInv, [Next]_vars
    PROVE TokensInv'
<1>1. CASE \E tok \in Tokens : RegisterToken(tok)
  <2>1. PICK tok \in Tokens : RegisterToken(tok)
    BY <1>1
  <2> DEFINE entry == [row |-> Stored(tok), was |-> tok]
  <2>2. entry \in Entries /\ entry.row = Stored(entry.was) /\ entry.was.genuine
    BY <2>1, GenuineWhenRegistrable DEF RegisterToken, Entries
  <2>3. tokens \in Seq(Entries) /\ tokens' = Append(tokens, entry)
    BY <2>1 DEF RegisterToken, TokensInv
  <2> HIDE DEF entry
  <2>4. /\ tokens' \in Seq(Entries) /\ Len(tokens') = Len(tokens) + 1 /\ Len(tokens) \in Nat
        /\ tokens'[Len(tokens) + 1] = entry
        /\ \A i \in 1 .. Len(tokens) : tokens'[i] = tokens[i]
    BY <2>2, <2>3
  <2>5. ASSUME NEW i \in 1 .. Len(tokens')
        PROVE tokens'[i].row = Stored(tokens'[i].was) /\ tokens'[i].was.genuine
    <3>1. CASE i = Len(tokens) + 1
      BY <2>2, <2>4, <3>1
    <3>2. CASE i # Len(tokens) + 1
      <4>1. i \in 1 .. Len(tokens)
        BY <2>4, <3>2
      <4> QED
        BY <2>4, <4>1 DEF TokensInv
    <3> QED
      BY <3>1, <3>2
  <2> QED
    BY <2>4, <2>5 DEF TokensInv
<1>2. CASE tokens' = tokens
  BY <1>2 DEF TokensInv
<1>3. \/ \E tok \in Tokens : RegisterToken(tok)
      \/ tokens' = tokens
  <2>1. CASE CallImports
    BY <2>1 DEF CallImports, PutLayout, SaveArtifact, Install, Inserted, BeginImport
  <2>2. CASE RunImports
    BY <2>2 DEF RunImports, LoadTarget, SavePage, Seed, FailImport, ReturnImport, Tick
  <2>3. CASE Restart
    BY <2>3 DEF Restart, ImportsRestart
  <2>4. CASE UNCHANGED importVars
    BY <2>4 DEF importVars
  <2> QED
    BY <2>1, <2>2, <2>3, <2>4 DEF Next, vars
<1> QED
  BY <1>1, <1>2, <1>3

\* A registered token is listed by its window while its signer is trusted, and
\* never as invalid, unless it was signed with an offset other than UTC
\* (internal/marketplace/store.go's Register and List, manager.go's
\* TokenStatus): for any keys, tokens and windows.
THEOREM TokensListed == Spec => []TokensStayGenuine
<1>1. Init => TokensInv
  BY DEF Init, ImportsInit, TokensInv
<1>2. TokensInv => TokensStayGenuine
  <2> SUFFICES ASSUME TokensInv, NEW i \in DOMAIN tokens,
                      tokens[i].was.utc, tokens[i].was.signer \in keys
               PROVE /\ ListedStatus(i) = TokenStatus(keys, tokens[i].was, now)
                     /\ ListedStatus(i) # "invalid"
    BY DEF TokensStayGenuine
  <2> DEFINE was == tokens[i].was
  <2>1. i \in 1 .. Len(tokens)
    BY DEF TokensInv
  <2>2. tokens[i].row = Stored(was) /\ was.genuine /\ was \in Tokens
    <3>1. tokens[i] \in Entries
      BY <2>1 DEF TokensInv
    <3>2. tokens[i].was \in Tokens
      BY <3>1 DEF Entries
    <3> QED
      BY <2>1, <3>2 DEF TokensInv
  <2>3. was \in [signer : AllKeys, genuine : BOOLEAN, utc : BOOLEAN,
                 notBefore : Nat, notAfter : Nat]
    BY <2>2, ImportsAssumption
  <2> HIDE DEF was
  <2>4. was.utc /\ was.signer \in keys
    BY DEF was
  <2>5. /\ Stored(was).genuine /\ Stored(was).signer = was.signer
        /\ Stored(was).notBefore = was.notBefore /\ Stored(was).notAfter = was.notAfter
    BY <2>2, <2>3, <2>4 DEF Stored
  <2>6. \A k : Verdict(k, Stored(was), now) = Verdict(k, was, now)
    BY <2>2, <2>5 DEF Verdict
  <2>7. TokenStatus(keys, Stored(was), now) = TokenStatus(keys, was, now)
    <3>1. {Verdict(k, Stored(was), now) : k \in keys} = {Verdict(k, was, now) : k \in keys}
      BY <2>6
    <3> QED
      BY <3>1 DEF TokenStatus
  <2>8. TokenStatus(keys, was, now) # "invalid"
    <3>1. Verdict(was.signer, was, now) # "invalid"
      BY <2>2 DEF Verdict
    <3> QED
      BY <2>4, <3>1 DEF TokenStatus
  <2> QED
    BY <2>2, <2>7, <2>8 DEF ListedStatus, was
<1> QED
  BY <1>1, <1>2, TokensStep, PTL DEF Spec

-----------------------------------------------------------------------------
\* Merged pages.

Targets == Layouts \cup {EmptyLayout}

LEMMA DraftIsLayout ==
    ASSUME NEW regions, NEW known \in SUBSET BlockTypes,
           regions = [n \in DOMAIN regions |-> regions[n]],
           DraftValid(LayoutOn(regions), known)
    PROVE LayoutOn(regions) \in Layouts
<1> DEFINE l == LayoutOn(regions)
<1>1. l.version = LayoutV1 /\ l.regions = regions
  BY DEF LayoutOn
<1> HIDE DEF l
<1>2. DOMAIN regions \subseteq Idents /\ Used(l) \subseteq known
  BY <1>1 DEF l, DraftValid, LayoutValid, Registered
<1>3. \A n \in DOMAIN regions : regions[n] \in SUBSET BlockTypes
  BY <1>1, <1>2 DEF Used
<1>4. regions \in [DOMAIN regions -> SUBSET BlockTypes]
  BY <1>3
<1>5. regions \in UNION {[names -> SUBSET BlockTypes] : names \in SUBSET Idents}
  BY <1>2, <1>4
<1> QED
  BY <1>5 DEF LayoutOn, Layouts

LEMMA OverlayIs ==
    ASSUME NEW page, NEW target \in Targets
    PROVE Overlay(page, target) =
             LayoutOn([n \in DOMAIN target.regions \cup DOMAIN page.regions |->
                          IF n \in DOMAIN page.regions THEN page.regions[n]
                          ELSE target.regions[n]])
<1>1. target = [version |-> LayoutV1, regions |-> target.regions]
  BY DEF Targets, Layouts, EmptyLayout, LayoutOn
<1> DEFINE f == [n \in DOMAIN target.regions \cup DOMAIN page.regions |->
                   IF n \in DOMAIN page.regions THEN page.regions[n] ELSE target.regions[n]]
<1>2. Overlay(page, target) = [target EXCEPT !.regions = f]
  BY DEF Overlay
<1> HIDE DEF f
<1>3. [target EXCEPT !.regions = f] = LayoutOn(f)
  BY <1>1 DEF LayoutOn
<1> QED
  BY <1>2, <1>3 DEF f

LEMMA OverlayIsLayout ==
    ASSUME NEW page, NEW target \in Targets, NEW known \in SUBSET BlockTypes,
           DraftValid(Overlay(page, target), known)
    PROVE Overlay(page, target) \in Layouts
<1> DEFINE f == [n \in DOMAIN target.regions \cup DOMAIN page.regions |->
                   IF n \in DOMAIN page.regions THEN page.regions[n] ELSE target.regions[n]]
<1>1. f = [n \in DOMAIN f |-> f[n]]
  OBVIOUS
<1>2. Overlay(page, target) = LayoutOn(f)
  BY OverlayIs
<1> HIDE DEF f
<1> QED
  BY <1>1, <1>2, DraftIsLayout

\* What is stored at a route has been validated, an import's verdict was given
\* on its artifact as stored and on this boot's blocks, and what an import has
\* loaded is a layout.
Verdicted(c) ==
    /\ DOMAIN job[c] = {"pc", "id", "merged", "todo", "target", "refused"}
    /\ job[c].id \in 1 .. Len(artifacts)
    /\ \E theme \in Themes : Compatible(CheckArtifact(artifacts[job[c].id], registry, theme))
    /\ job[c].pc = "save" /\ Turn(c) \in Routes => job[c].target \in Targets

ImportsInv ==
    /\ ArtifactsInv
    /\ registry \in SUBSET BlockTypes
    /\ layouts \in [Routes -> Layouts \cup {NoLayout}]
    /\ DOMAIN job = Clients
    /\ \A c \in Importing : Verdicted(c)

LEMMA InitImports == Init => ImportsInv
BY InitArtifacts DEF Init, ImportsInit, ImportsInv, Importing, Routes

LEMMA TargetIs == \A r \in Routes : ImportsInv => TargetAt(r) \in Targets
BY DEF ImportsInv, TargetAt, Targets

\* The layouts after a step.
LEMMA LayoutsStep ==
    ASSUME ImportsInv, [Next]_vars
    PROVE /\ layouts' \in [Routes -> Layouts \cup {NoLayout}]
          /\ registry' \in SUBSET BlockTypes
<1>1. CASE \E r \in Routes, l \in Drafts : PutLayout(r, l)
  <2>1. PICK r \in Routes, l \in Drafts : PutLayout(r, l)
    BY <1>1
  <2>2. l = LayoutOn([n \in DOMAIN l.regions |-> l.regions[n]])
    BY ImportsAssumption
  <2>3. l.regions = [n \in DOMAIN l.regions |-> l.regions[n]]
    BY <2>2 DEF LayoutOn
  <2>4. l = LayoutOn(l.regions)
    BY <2>2, <2>3
  <2>5. DraftValid(LayoutOn(l.regions), registry)
    BY <2>1, <2>4 DEF PutLayout
  <2>6. LayoutOn(l.regions) \in Layouts
    BY <2>3, <2>5, DraftIsLayout DEF ImportsInv
  <2> QED
    BY <2>1, <2>4, <2>6 DEF PutLayout, ImportsInv
<1>2. CASE \E c \in Clients : SavePage(c)
  <2>1. PICK c \in Clients : SavePage(c)
    BY <1>2
  <2>2. registry' = registry
    BY <2>1 DEF SavePage
  <2>3. CASE layouts' = layouts
    BY <2>2, <2>3 DEF ImportsInv
  <2>4. CASE MergePage(c)
    <3>1. Turn(c) \in Routes /\ DraftValid(Merged(c), registry)
      BY <2>4, ImportsAssumption DEF MergePage, Savable
    <3>2. job[c].target \in Targets
      BY <2>1, <3>1 DEF SavePage, ImportsInv, Importing, Verdicted
    <3>3. Merged(c) \in Layouts
      BY <3>1, <3>2, OverlayIsLayout DEF Merged, ImportsInv
    <3> QED
      BY <2>2, <2>4, <3>3 DEF MergePage, ImportsInv
  <2> QED
    BY <2>1, <2>3, <2>4 DEF SavePage, StopRefused
<1>3. CASE layouts' = layouts /\ (registry' = registry \/ registry' \in SUBSET BlockTypes)
  BY <1>3 DEF ImportsInv
<1>4. \/ \E r \in Routes, l \in Drafts : PutLayout(r, l)
      \/ \E c \in Clients : SavePage(c)
      \/ layouts' = layouts /\ (registry' = registry \/ registry' \in SUBSET BlockTypes)
  <2>1. CASE CallImports
    BY <2>1 DEF CallImports, SaveArtifact, Install, Inserted, BeginImport, RegisterToken
  <2>2. CASE RunImports
    BY <2>2 DEF RunImports, LoadTarget, Seed, FailImport, ReturnImport, Tick
  <2>3. CASE Restart
    BY <2>3 DEF Restart, ImportsRestart
  <2>4. CASE UNCHANGED importVars
    BY <2>4 DEF importVars
  <2> QED
    BY <2>1, <2>2, <2>3, <2>4 DEF Next, vars
<1> QED
  BY <1>1, <1>2, <1>3, <1>4

\* An import takes its next step, or ends; the others stay where they are.
LEMMA JobMoves ==
    ASSUME ImportsInv, [Next]_vars, registry' = registry,
           NEW d \in Clients, NEW j, job' = [job EXCEPT ![d] = j],
           j # NoJob => Verdicted(d)'
    PROVE DOMAIN job' = Clients /\ \A c \in Importing' : Verdicted(c)'
<1>1. /\ DOMAIN job' = Clients /\ job'[d] = j
      /\ \A c \in Clients \ {d} : job'[c] = job[c]
  BY DEF ImportsInv
<1>2. ASSUME NEW c \in Clients \ {d}, job'[c] # NoJob PROVE Verdicted(c)'
  <2>1. job'[c] = job[c] /\ Verdicted(c)
    BY <1>1, <1>2 DEF ImportsInv, Importing
  <2>2. /\ job[c].id \in 1 .. Len(artifacts) /\ job[c].id \in 1 .. Len(artifacts')
        /\ artifacts'[job[c].id] = artifacts[job[c].id]
    BY <2>1, ArtifactsKept DEF ImportsInv, Verdicted
  <2>3. Turn(c)' = Turn(c)
    BY <2>1 DEF Turn
  <2> QED
    BY <2>1, <2>2, <2>3 DEF Verdicted
<1> QED
  BY <1>1, <1>2 DEF Importing

\* A step of an import under its verdict.
LEMMA JobGoesOn ==
    ASSUME ImportsInv, [Next]_vars, registry' = registry, artifacts' = artifacts,
           NEW d \in Clients, job[d] # NoJob, NEW j, job' = [job EXCEPT ![d] = j],
           DOMAIN j = DOMAIN job[d], j.id = job[d].id,
           j.pc # "save" \/ (/\ j.todo = job[d].todo /\ j.merged = job[d].merged
                             /\ Turn(d) \in Routes => j.target \in Targets)
    PROVE DOMAIN job' = Clients /\ \A c \in Importing' : Verdicted(c)'
<1>1. job'[d] = j /\ Verdicted(d)
  BY DEF ImportsInv, Importing
<1>2. j.pc = "save" => Turn(d)' = Turn(d) /\ (Turn(d) \in Routes => j.target \in Targets)
  BY <1>1 DEF Turn
<1>3. Verdicted(d)'
  BY <1>1, <1>2 DEF Verdicted
<1> QED
  BY <1>3, JobMoves

LEMMA JobsStep ==
    ASSUME ImportsInv, [Next]_vars
    PROVE DOMAIN job' = Clients /\ \A c \in Importing' : Verdicted(c)'
<1>1. ASSUME NEW c \in Clients, NEW i \in 1 .. MaxArtifacts, NEW r \in Routes, NEW theme \in Themes,
             BeginImport(c, i, r, theme)
      PROVE DOMAIN job' = Clients /\ \A d \in Importing' : Verdicted(d)'
  <2>0. PICK itinerary \in Itineraries(artifacts[i], r) :
          job' = [job EXCEPT ![c] = [pc |-> "load", id |-> i, merged |-> <<>>, todo |-> itinerary,
                                     target |-> NoLayout, refused |-> FALSE]]
    BY <1>1 DEF BeginImport
  <2> DEFINE j == [pc |-> "load", id |-> i, merged |-> <<>>, todo |-> itinerary,
                   target |-> NoLayout, refused |-> FALSE]
  <2>1. /\ j.pc = "load" /\ j.id = i
        /\ DOMAIN j = {"pc", "id", "merged", "todo", "target", "refused"}
    OBVIOUS
  <2>2. /\ job' = [job EXCEPT ![c] = j] /\ registry' = registry /\ artifacts' = artifacts
        /\ Compatible(CheckArtifact(artifacts[i], registry, theme)) /\ i \in DOMAIN artifacts
    BY <1>1, <2>0 DEF BeginImport
  <2> HIDE DEF j
  <2>3. i \in 1 .. Len(artifacts)
    BY <2>2 DEF ImportsInv, ArtifactsInv
  <2>4. job'[c] = j
    BY <2>2 DEF ImportsInv
  <2>5. Verdicted(c)'
    BY <2>1, <2>2, <2>3, <2>4 DEF Verdicted
  <2> QED
    BY <2>2, <2>5, JobMoves
<1>2. ASSUME NEW c \in Clients, LoadTarget(c)
      PROVE DOMAIN job' = Clients /\ \A d \in Importing' : Verdicted(d)'
  <2> DEFINE j == [job[c] EXCEPT !.pc = "save", !.target = TargetAt(Turn(c))]
  <2>1. job' = [job EXCEPT ![c] = j] /\ registry' = registry /\ artifacts' = artifacts
        /\ job[c] # NoJob
    BY <1>2 DEF LoadTarget
  <2>2. DOMAIN job[c] = {"pc", "id", "merged", "todo", "target", "refused"}
    BY <2>1 DEF ImportsInv, Importing, Verdicted
  <2>3. /\ DOMAIN j = DOMAIN job[c] /\ j.id = job[c].id /\ j.todo = job[c].todo
        /\ j.merged = job[c].merged /\ j.target = TargetAt(Turn(c))
    BY <2>2
  <2> HIDE DEF j
  <2>4. Turn(c) \in Routes => j.target \in Targets
    BY <2>3, TargetIs
  <2> QED
    BY <2>1, <2>3, <2>4, JobGoesOn
<1>3. ASSUME NEW c \in Clients, SavePage(c) \/ Seed(c) \/ FailImport(c)
      PROVE DOMAIN job' = Clients /\ \A d \in Importing' : Verdicted(d)'
  <2>1. /\ registry' = registry /\ artifacts' = artifacts /\ job[c] # NoJob
        /\ \/ \E pc \in {"stopped", "seed"} : job' = [job EXCEPT ![c].pc = pc]
           \/ job' = [job EXCEPT ![c].pc = "stopped", ![c].refused = TRUE]
           \/ job' = [job EXCEPT ![c].pc = "load", ![c].merged = Append(@, Turn(c))]
    BY <1>3 DEF SavePage, StopRefused, MergePage, Seed, FailImport
  <2>2. DOMAIN job[c] = {"pc", "id", "merged", "todo", "target", "refused"}
    BY <2>1 DEF ImportsInv, Importing, Verdicted
  <2>3. CASE job' = [job EXCEPT ![c].pc = "stopped"]
    <3> DEFINE j == [job[c] EXCEPT !.pc = "stopped"]
    <3>1. /\ job' = [job EXCEPT ![c] = j] /\ DOMAIN j = DOMAIN job[c]
          /\ j.id = job[c].id /\ j.pc # "save"
      BY <2>2, <2>3
    <3> HIDE DEF j
    <3> QED
      BY <2>1, <3>1, JobGoesOn
  <2>4. CASE job' = [job EXCEPT ![c].pc = "seed"]
    <3> DEFINE j == [job[c] EXCEPT !.pc = "seed"]
    <3>1. /\ job' = [job EXCEPT ![c] = j] /\ DOMAIN j = DOMAIN job[c]
          /\ j.id = job[c].id /\ j.pc # "save"
      BY <2>2, <2>4
    <3> HIDE DEF j
    <3> QED
      BY <2>1, <3>1, JobGoesOn
  <2>5. CASE job' = [job EXCEPT ![c].pc = "stopped", ![c].refused = TRUE]
    <3> DEFINE j == [job[c] EXCEPT !.pc = "stopped", !.refused = TRUE]
    <3>1. /\ job' = [job EXCEPT ![c] = j] /\ DOMAIN j = DOMAIN job[c]
          /\ j.id = job[c].id /\ j.pc # "save"
      BY <2>2, <2>5
    <3> HIDE DEF j
    <3> QED
      BY <2>1, <3>1, JobGoesOn
  <2>6. CASE job' = [job EXCEPT ![c].pc = "load", ![c].merged = Append(@, Turn(c))]
    <3> DEFINE j == [job[c] EXCEPT !.pc = "load", !.merged = Append(@, Turn(c))]
    <3>1. /\ job' = [job EXCEPT ![c] = j] /\ DOMAIN j = DOMAIN job[c]
          /\ j.id = job[c].id /\ j.pc # "save"
      BY <2>2, <2>6
    <3> HIDE DEF j
    <3> QED
      BY <2>1, <3>1, JobGoesOn
  <2> QED
    BY <2>1, <2>3, <2>4, <2>5, <2>6
<1>4. ASSUME NEW c \in Clients, ReturnImport(c)
      PROVE DOMAIN job' = Clients /\ \A d \in Importing' : Verdicted(d)'
  <2>1. job' = [job EXCEPT ![c] = NoJob] /\ registry' = registry
    BY <1>4 DEF ReturnImport, Answered
  <2> QED
    BY <2>1, JobMoves
<1>5. ASSUME job' = [c \in Clients |-> NoJob]
      PROVE DOMAIN job' = Clients /\ \A d \in Importing' : Verdicted(d)'
  BY <1>5 DEF Importing
<1>6. ASSUME job' = job, registry' = registry
      PROVE DOMAIN job' = Clients /\ \A d \in Importing' : Verdicted(d)'
  <2>1. DOMAIN job' = Clients /\ Importing' = Importing
    BY <1>6 DEF ImportsInv, Importing
  <2>2. ASSUME NEW d \in Importing PROVE Verdicted(d)'
    <3>1. Verdicted(d)
      BY DEF ImportsInv
    <3>2. /\ job[d].id \in 1 .. Len(artifacts) /\ job[d].id \in 1 .. Len(artifacts')
          /\ artifacts'[job[d].id] = artifacts[job[d].id]
      BY <3>1, ArtifactsKept DEF ImportsInv, Verdicted
    <3>3. Turn(d)' = Turn(d)
      BY <1>6 DEF Turn
    <3> QED
      BY <1>6, <3>1, <3>2, <3>3 DEF Verdicted
  <2> QED
    BY <2>1, <2>2
<1>7. CASE CallImports
  <2>1. \/ \E c \in Clients, i \in 1 .. MaxArtifacts, r \in Routes, theme \in Themes :
              BeginImport(c, i, r, theme)
        \/ job' = job /\ registry' = registry
    BY <1>7 DEF CallImports, PutLayout, SaveArtifact, Install, Inserted, RegisterToken
  <2> QED
    BY <1>1, <1>6, <2>1
<1>8. CASE RunImports
  <2>1. \/ \E c \in Clients : LoadTarget(c) \/ SavePage(c) \/ Seed(c)
                              \/ FailImport(c) \/ ReturnImport(c)
        \/ job' = job /\ registry' = registry
    BY <1>8 DEF RunImports, Tick
  <2> QED
    BY <1>2, <1>3, <1>4, <1>6, <2>1
<1>9. CASE Restart
  BY <1>5, <1>9 DEF Restart, ImportsRestart
<1>10. CASE UNCHANGED importVars
  BY <1>6, <1>10 DEF importVars
<1> QED
  BY <1>7, <1>8, <1>9, <1>10 DEF Next, vars

LEMMA ImportsStep ==
    ASSUME ImportsInv, [Next]_vars
    PROVE ImportsInv'
<1>1. ArtifactsInv
  BY DEF ImportsInv
<1> QED
  BY <1>1, ArtifactsKept, LayoutsStep, JobsStep DEF ImportsInv

\* Only an import's own save changes it and a layout at once.
LEMMA OwnSave ==
    ASSUME ImportsInv, [Next]_vars, NEW c \in Importing,
           job[c].pc = "save", job'[c] # job[c], layouts' # layouts
    PROVE MergePage(c)
<1>1. CASE \E d \in Clients : SavePage(d)
  <2>1. PICK d \in Clients : SavePage(d)
    BY <1>1
  <2>2. \E j : job' = [job EXCEPT ![d] = j]
    BY <2>1 DEF SavePage, StopRefused, MergePage
  <2>3. c \in Clients /\ DOMAIN job = Clients
    BY DEF ImportsInv, Importing
  <2>4. d = c
    BY <2>2, <2>3
  <2> QED
    BY <2>1, <2>4 DEF SavePage, StopRefused
<1>2. \/ \E d \in Clients : SavePage(d)
      \/ job' = job \/ layouts' = layouts
  <2>1. CASE CallImports
    BY <2>1 DEF CallImports, PutLayout, SaveArtifact, Install, Inserted, BeginImport, RegisterToken
  <2>2. CASE RunImports
    BY <2>2 DEF RunImports, LoadTarget, Seed, FailImport, ReturnImport, Tick
  <2>3. CASE Restart
    BY <2>3 DEF Restart, ImportsRestart
  <2>4. CASE UNCHANGED importVars
    BY <2>4 DEF importVars
  <2> QED
    BY <2>1, <2>2, <2>3, <2>4 DEF Next, vars
<1> QED
  BY <1>1, <1>2

\* A verdict under some theme is one under none.
LEMMA VerdictWithoutTheme ==
    ASSUME NEW p, NEW known, NEW theme, Compatible(CheckPreset(p, known, theme))
    PROVE Compatible(CheckPreset(p, known, NoTheme))
<1>1. /\ CheckPreset(p, known, theme).blocks = CheckPreset(p, known, NoTheme).blocks
      /\ CheckPreset(p, known, theme).unsupported = CheckPreset(p, known, NoTheme).unsupported
      /\ CheckPreset(p, known, NoTheme).slots = {}
  BY DEF CheckPreset, CheckAgainst, Check, MissingSlots
<1> QED
  BY <1>1 DEF Compatible

LEMMA SavedPage ==
    ASSUME ImportsInv, NEW c \in Importing, job[c].pc = "save", MergePage(c)
    PROVE LET r == Turn(c)
              page == PageOf(c, r)
              a == artifacts[job[c].id]
          IN  /\ \A n \in Idents :
                   IF n \in DOMAIN page.regions
                   THEN RegionAt(layouts'[r], n) = <<page.regions[n]>>
                   ELSE \/ RegionAt(layouts'[r], n) = RegionAt(layouts[r], n)
                        \/ TargetAt(r) # job[c].target
              /\ (a.kind = "preset" /\ TargetAt(r) = job[c].target) =>
                   layouts'[r] = Compose(a, r, NoTheme)
<1> DEFINE r == Turn(c)
<1> DEFINE page == PageOf(c, r)
<1> DEFINE a == artifacts[job[c].id]
<1> DEFINE target == job[c].target
<1>1. r \in Routes /\ DraftValid(Overlay(page, target), registry) /\ registry \in SUBSET BlockTypes
  BY ImportsAssumption DEF MergePage, Savable, Merged, ImportsInv
<1>2. Verdicted(c)
  BY DEF ImportsInv
<1>3. target \in Targets
  BY <1>1, <1>2 DEF Verdicted
<1>4. layouts' = [layouts EXCEPT ![r] = Overlay(page, target)]
  BY DEF MergePage, Merged
<1>5. layouts'[r] = Overlay(page, target) /\ layouts[r] \in Layouts \cup {NoLayout}
  BY <1>1, <1>4 DEF ImportsInv
<1> HIDE DEF page, target
<1>6. Overlay(page, target) \in Layouts /\ Overlay(page, target) # NoLayout
  BY <1>1, <1>3, OverlayIsLayout, ImportsAssumption
<1> DEFINE f == [n \in DOMAIN target.regions \cup DOMAIN page.regions |->
                   IF n \in DOMAIN page.regions THEN page.regions[n] ELSE target.regions[n]]
<1>7. Overlay(page, target).regions = f
  <2>1. Overlay(page, target) = LayoutOn(f)
    BY <1>3, OverlayIs
  <2> HIDE DEF f
  <2> QED
    BY <2>1 DEF LayoutOn
<1>8. \A n \in Idents : RegionAt(layouts'[r], n) =
                          IF n \in DOMAIN f THEN <<f[n]>> ELSE <<>>
  BY <1>5, <1>6, <1>7 DEF RegionAt
<1>9. ASSUME NEW n \in Idents
      PROVE IF n \in DOMAIN page.regions
            THEN RegionAt(layouts'[r], n) = <<page.regions[n]>>
            ELSE \/ RegionAt(layouts'[r], n) = RegionAt(layouts[r], n)
                 \/ TargetAt(r) # target
  <2>1. CASE n \in DOMAIN page.regions
    BY <1>8, <2>1
  <2>2. CASE n \notin DOMAIN page.regions /\ TargetAt(r) = target
    <3>1. RegionAt(layouts'[r], n) = IF n \in DOMAIN target.regions THEN <<target.regions[n]>> ELSE <<>>
      BY <1>8, <2>2
    <3>2. CASE layouts[r] = NoLayout
      <4>1. DOMAIN target.regions = {}
        BY <2>2, <3>2 DEF TargetAt, EmptyLayout, LayoutOn
      <4>2. RegionAt(layouts'[r], n) = <<>>
        BY <3>1, <4>1
      <4>3. RegionAt(layouts[r], n) = <<>>
        BY <3>2 DEF RegionAt
      <4> QED
        BY <2>2, <4>2, <4>3
    <3>3. CASE layouts[r] # NoLayout
      BY <2>2, <3>1, <3>3 DEF TargetAt, RegionAt
    <3> QED
      BY <3>2, <3>3
  <2> QED
    BY <2>1, <2>2
<1>10. ASSUME a.kind = "preset", TargetAt(r) = target
       PROVE layouts'[r] = Compose(a, r, NoTheme)
  <2>1. page = a.layout
    BY <1>10 DEF page, PageOf, Pages
  <2>2. PresetValid(a)
    BY <1>2, <1>10 DEF ImportsInv, ArtifactsInv, Verdicted, ArtifactValid
  <2>3. PICK theme \in Themes : Compatible(CheckPreset(a, registry, theme))
    BY <1>2, <1>10 DEF Verdicted, CheckArtifact
  <2>4. Compatible(CheckPreset(a, registry, NoTheme))
    BY <2>3, VerdictWithoutTheme
  <2>5. Compose(a, r, NoTheme) = Preview(Overlay(a.layout, TargetAt(r)))
    BY <2>2, <2>4 DEF Compose
  <2>6. Preview(Overlay(page, target)) = Overlay(page, target)
    BY <1>1 DEF Preview, page, target
  <2> QED
    BY <1>5, <1>10, <2>1, <2>5, <2>6
<1> QED
  BY <1>9, <1>10 DEF page, target

\* An import writes the regions its page brings and keeps every other as it
\* read it, and what it stores is what composing the same fragment had shown
\* (internal/preset/store.go's and internal/bundle/store.go's Import,
\* internal/api/ai.go's handleAICompose): for any number of imports, layouts
\* put meanwhile, failures and restarts, and for any artifacts.
THEOREM ImportsKeepTheRest == Spec => OnlyImportedRegionsChange
<1>1. ImportsInv /\ [Next]_vars => ImportsInv'
  BY ImportsStep
<1>2. ImportsInv /\ [Next]_vars =>
        [\A c \in Importing :
           LET r == Turn(c)  page == PageOf(c, r)  a == artifacts[job[c].id] IN
             (job[c].pc = "save" /\ job'[c] # job[c] /\ layouts' # layouts) =>
                /\ \A n \in Idents :
                     IF n \in DOMAIN page.regions
                     THEN RegionAt(layouts'[r], n) = <<page.regions[n]>>
                     ELSE \/ RegionAt(layouts'[r], n) = RegionAt(layouts[r], n)
                          \/ TargetAt(r) # job[c].target
                /\ (a.kind = "preset" /\ TargetAt(r) = job[c].target) =>
                     layouts'[r] = Compose(a, r, NoTheme)]_vars
  BY OwnSave, SavedPage
<1> QED
  BY <1>1, <1>2, InitImports, PTL DEF Spec, OnlyImportedRegionsChange
-----------------------------------------------------------------------------
\* What an import says of itself.

\* How far an import is: it has merged a prefix of its pages, and what it did
\* beyond what it counts is the one save whose answer it did not see.
Progress(c) ==
    LET todo == job[c].todo  merged == job[c].merged  n == Len(job[c].merged) IN
    /\ todo \in Seq(Routes) /\ merged \in Seq(Routes) /\ made[c].created \in Nat
    /\ n <= Len(todo)
    /\ \A i \in 1 .. n : merged[i] = todo[i] /\ merged[i] \in made[c].merged
    /\ \A r \in made[c].merged : \/ \E i \in 1 .. n : r = todo[i]
                                 \/ job[c].pc = "stopped" /\ r = todo[n + 1]
    /\ job[c].pc \in {"save", "stopped"} => n < Len(todo)
    /\ made[c].created > 0 => n = Len(todo)

\* A bundle's import visits the bundle's own pages.
Visits(c) ==
    artifacts[job[c].id].kind # "preset" =>
        \A i \in 1 .. Len(job[c].todo) : job[c].todo[i] \in DOMAIN artifacts[job[c].id].pages

\* What it merged and nobody wrote since carries its page's regions.
Holds(c) ==
    /\ made[c].held \subseteq Routes
    /\ \A r \in made[c].held, n \in Idents :
          n \in DOMAIN PageOf(c, r).regions =>
             RegionAt(layouts[r], n) = <<PageOf(c, r).regions[n]>>

\* Why it was refused.
Refusal(c) ==
    /\ job[c].refused \in BOOLEAN
    /\ job[c].refused =>
          /\ job[c].pc = "stopped"
          /\ \/ Turn(c) \notin ValidRoutes
             \/ \E n \in DOMAIN job[c].target.regions \ DOMAIN PageOf(c, Turn(c)).regions :
                   ~ job[c].target.regions[n] \subseteq registry

PagesInv ==
    /\ ImportsInv
    /\ DOMAIN made = Clients
    /\ \A c \in Clients : DOMAIN made[c] = {"merged", "created", "held"}
    /\ \A c \in Importing : Progress(c) /\ Visits(c) /\ Holds(c) /\ Refusal(c)

Paged(c) == Progress(c) /\ Visits(c) /\ Holds(c) /\ Refusal(c)

\* An itinerary lists routes of the artifact's pages.
LEMMA ItinerariesAre ==
    ASSUME NEW a, NEW route, NEW s \in Itineraries(a, route)
    PROVE s \in Seq(Routes) /\ \A i \in 1 .. Len(s) : s[i] \in DOMAIN Pages(a, route)
<1> DEFINE here == Routes \cap DOMAIN Pages(a, route)
<1>1. RouteOrder \in [1 .. Len(RouteOrder) -> Routes] /\ Len(RouteOrder) \in Nat
  BY ImportsAssumption
<1>2. \A r \in Routes : \E i \in 1 .. Len(RouteOrder) : RouteOrder[i] = r
  BY <1>1 DEF Routes, ToSet
<1>3. RouteOrder \in Surjection(1 .. Len(RouteOrder), Routes)
  BY <1>1, <1>2 DEF Surjection
<1>4. IsFiniteSet(Routes)
  BY <1>1, <1>3, FS_Interval, FS_Surjection
<1>5. Cardinality(here) \in Nat
  BY <1>4, FS_Subset, FS_CardinalityType
<1>6. s \in [1 .. Cardinality(here) -> here]
  BY DEF Itineraries
<1> HIDE DEF here
<1>7. s \in Seq(here) /\ \A i \in 1 .. Len(s) : s[i] \in here
  BY <1>5, <1>6
<1> QED
  BY <1>7 DEF here

\* The artifact of an import stays what it was.
LEMMA ArtifactStays ==
    ASSUME ImportsInv, [Next]_vars, NEW c \in Importing, job'[c].id = job[c].id
    PROVE /\ artifacts'[job[c].id] = artifacts[job[c].id]
          /\ \A r : PageOf(c, r)' = PageOf(c, r)
<1>1. job[c].id \in 1 .. Len(artifacts)
  BY DEF ImportsInv, Verdicted
<1>2. artifacts'[job[c].id] = artifacts[job[c].id]
  BY <1>1, ArtifactsKept DEF ImportsInv
<1> QED
  BY <1>2 DEF PageOf

\* An import that takes no step of its own.
LEMMA PagesRest ==
    ASSUME PagesInv, [Next]_vars, registry' = registry, NEW c \in Importing, job'[c] = job[c],
           made'[c].merged = made[c].merged, made'[c].created = made[c].created,
           made'[c].held \subseteq made[c].held,
           \A r \in made'[c].held : layouts'[r] = layouts[r]
    PROVE Paged(c)'
<1>1. Progress(c) /\ Visits(c) /\ Holds(c) /\ Refusal(c) /\ ImportsInv
  BY DEF PagesInv
<1>2. /\ artifacts'[job[c].id] = artifacts[job[c].id]
      /\ \A r : PageOf(c, r)' = PageOf(c, r)
  BY <1>1, ArtifactStays
<1>3. Turn(c)' = Turn(c)
  BY DEF Turn
<1>4. Progress(c)'
  BY <1>1 DEF Progress
<1>5. Visits(c)'
  BY <1>1, <1>2 DEF Visits
<1>6. Holds(c)'
  BY <1>1, <1>2 DEF Holds
<1>7. Refusal(c)'
  BY <1>1, <1>2, <1>3 DEF Refusal
<1> QED
  BY <1>4, <1>5, <1>6, <1>7 DEF Paged

\* One client's import moves; what the others merged stays theirs unless its
\* route is written.
LEMMA PagesMove ==
    ASSUME PagesInv, [Next]_vars, registry' = registry,
           NEW d \in Clients, NEW j, job' = [job EXCEPT ![d] = j],
           j # NoJob => Paged(d)',
           DOMAIN made' = Clients,
           \A c \in Clients : DOMAIN made'[c] = {"merged", "created", "held"},
           \A c \in Clients \ {d} :
              /\ made'[c].merged = made[c].merged /\ made'[c].created = made[c].created
              /\ made'[c].held \subseteq made[c].held
              /\ \A r \in made'[c].held : layouts'[r] = layouts[r]
    PROVE PagesInv'
<1>1. ImportsInv /\ ImportsInv'
  BY ImportsStep DEF PagesInv
<1>2. job'[d] = j /\ \A c \in Clients \ {d} : job'[c] = job[c]
  BY <1>1 DEF ImportsInv
<1>3. ASSUME NEW c \in Importing' PROVE Paged(c)'
  <2>1. CASE c = d
    BY <1>2, <1>3, <2>1 DEF Importing
  <2>2. CASE c # d
    <3>1. c \in Importing /\ c \in Clients \ {d} /\ job'[c] = job[c]
      BY <1>2, <1>3, <2>2 DEF Importing
    <3> QED
      BY <3>1, PagesRest
  <2> QED
    BY <2>1, <2>2
<1> QED
  BY <1>1, <1>3 DEF PagesInv, Paged

\* No import moves.
LEMMA PagesStay ==
    ASSUME PagesInv, [Next]_vars, registry' = registry, job' = job,
           DOMAIN made' = Clients,
           \A c \in Clients : DOMAIN made'[c] = {"merged", "created", "held"},
           \A c \in Clients :
              /\ made'[c].merged = made[c].merged /\ made'[c].created = made[c].created
              /\ made'[c].held \subseteq made[c].held
              /\ \A r \in made'[c].held : layouts'[r] = layouts[r]
    PROVE PagesInv'
<1>1. ImportsInv'
  BY ImportsStep DEF PagesInv
<1>2. ASSUME NEW c \in Importing' PROVE Paged(c)'
  <2>1. c \in Importing /\ c \in Clients
    BY <1>2 DEF Importing
  <2> QED
    BY <2>1, PagesRest
<1> QED
  BY <1>1, <1>2 DEF PagesInv, Paged

LEMMA UsedOfEach ==
    ASSUME NEW known, NEW trees, UsedTypes(trees) \subseteq known, NEW tree \in trees
    PROVE Used(tree) \ {BadBlock} \subseteq known
BY DEF UsedTypes, Used

\* A page of a compatible artifact: well formed, of blocks that are registered.
LEMMA PageIsKnown ==
    ASSUME ImportsInv, NEW c \in Importing, NEW r,
           artifacts[job[c].id].kind # "preset" => r \in DOMAIN artifacts[job[c].id].pages
    PROVE /\ DOMAIN PageOf(c, r).regions \subseteq Idents
          /\ \A n \in DOMAIN PageOf(c, r).regions :
                BadBlock \notin PageOf(c, r).regions[n] /\ PageOf(c, r).regions[n] \subseteq registry
<1> DEFINE a == artifacts[job[c].id]
<1> DEFINE page == PageOf(c, r)
<1>1. PICK theme \in Themes : Compatible(CheckArtifact(a, registry, theme))
  BY DEF ImportsInv, Verdicted
<1>2. ArtifactValid(a)
  BY DEF ImportsInv, ArtifactsInv, Verdicted
<1>3. LayoutValid(page) /\ Used(page) \ {BadBlock} \subseteq registry
  <2>1. CASE a.kind = "preset"
    <3>1. page = a.layout
      BY <2>1 DEF PageOf, Pages
    <3>2. LayoutValid(page) /\ CheckPreset(a, registry, theme).blocks = {}
      BY <1>1, <1>2, <2>1, <3>1 DEF ArtifactValid, PresetValid, CheckArtifact, Compatible
    <3>3. UsedTypes({page}) \subseteq registry
      BY <3>1, <3>2 DEF CheckPreset, CheckAgainst, Check
    <3> QED
      BY <3>2, <3>3, UsedOfEach
  <2>2. CASE a.kind # "preset"
    <3>1. page = a.pages[r] /\ r \in DOMAIN a.pages
      BY <2>2 DEF PageOf, Pages
    <3>2. LayoutValid(page) /\ page \in PageLayouts(a)
      BY <1>2, <2>2, <3>1 DEF ArtifactValid, BundleValid, PageLayouts
    <3>3. CheckBundle(a, registry, theme).blocks = {}
      BY <1>1, <2>2 DEF CheckArtifact, Compatible
    <3>4. CheckAgainst(a, PageLayouts(a), registry, theme).blocks = {}
      BY <3>3 DEF CheckBundle, MergeResults
    <3>5. UsedTypes(PageLayouts(a)) \subseteq registry
      BY <3>4 DEF CheckAgainst, Check
    <3> QED
      BY <3>2, <3>5, UsedOfEach
  <2> QED
    BY <2>1, <2>2
<1> HIDE DEF page
<1>4. \A n \in DOMAIN page.regions : page.regions[n] \subseteq Used(page)
  BY DEF Used
<1> QED
  BY <1>3, <1>4 DEF LayoutValid, page

\* What an import is refused for.
LEMMA RefusedFor ==
    ASSUME ImportsInv, NEW c \in Importing, job[c].pc = "save",
           artifacts[job[c].id].kind # "preset" => Turn(c) \in DOMAIN artifacts[job[c].id].pages,
           Turn(c) \in ValidRoutes, ~ Savable(c)
    PROVE \E n \in DOMAIN job[c].target.regions \ DOMAIN PageOf(c, Turn(c)).regions :
             ~ job[c].target.regions[n] \subseteq registry
<1> DEFINE page == PageOf(c, Turn(c))
<1> DEFINE target == job[c].target
<1>1. /\ DOMAIN page.regions \subseteq Idents
      /\ \A n \in DOMAIN page.regions :
            BadBlock \notin page.regions[n] /\ page.regions[n] \subseteq registry
  BY PageIsKnown
<1>2. target \in Targets
  BY ImportsAssumption DEF ImportsInv, Verdicted
<1>3. ~ DraftValid(Overlay(page, target), registry)
  BY DEF Savable, Merged
<1> HIDE DEF page, target
<1>4. /\ DOMAIN target.regions \subseteq Idents
      /\ \A n \in DOMAIN target.regions : target.regions[n] \subseteq BlockTypes
  <2>1. CASE target = EmptyLayout
    BY <2>1 DEF EmptyLayout, LayoutOn
  <2>2. CASE target \in Layouts
    BY <2>2 DEF Layouts
  <2> QED
    BY <1>2, <2>1, <2>2 DEF Targets
<1> DEFINE f == [n \in DOMAIN target.regions \cup DOMAIN page.regions |->
                   IF n \in DOMAIN page.regions THEN page.regions[n] ELSE target.regions[n]]
<1> DEFINE l == Overlay(page, target)
<1>5. l.version = LayoutV1 /\ l.regions = f
  <2>1. l = LayoutOn(f)
    BY <1>2, OverlayIs
  <2> HIDE DEF f
  <2> QED
    BY <2>1 DEF LayoutOn
<1> HIDE DEF l
<1>6. \A n \in DOMAIN f : BadBlock \notin f[n]
  BY <1>1, <1>4, CompatAssumption
<1>7. LayoutValid(l)
  <2>1. DOMAIN f \subseteq Idents
    BY <1>1, <1>4
  <2> HIDE DEF f
  <2> QED
    BY <1>5, <1>6, <2>1 DEF LayoutValid, Used
<1>8. PICK n \in DOMAIN f : ~ f[n] \subseteq registry
  <2>1. ~ Used(l) \subseteq registry
    BY <1>3, <1>7 DEF DraftValid, Registered, l
  <2> HIDE DEF f
  <2> QED
    BY <1>5, <2>1 DEF Used
<1>9. n \in DOMAIN target.regions \ DOMAIN page.regions /\ ~ target.regions[n] \subseteq registry
  BY <1>1, <1>8
<1> QED
  BY <1>9 DEF page, target

\* The route whose turn it is is a page's.
LEMMA TurnIsPage ==
    ASSUME NEW c \in Importing, Progress(c), Visits(c),
           Len(job[c].merged) < Len(job[c].todo)
    PROVE /\ Len(job[c].merged) + 1 \in 1 .. Len(job[c].todo) /\ Turn(c) \in Routes
          /\ artifacts[job[c].id].kind # "preset" => Turn(c) \in DOMAIN artifacts[job[c].id].pages
<1>1. Len(job[c].merged) + 1 \in 1 .. Len(job[c].todo)
  BY DEF Progress
<1> QED
  BY <1>1 DEF Progress, Visits, Turn

\* A step of an import that counts no page, its history and layouts as they were.
LEMMA PagesGoOn ==
    ASSUME PagesInv, [Next]_vars, registry' = registry, NEW c \in Importing,
           job'[c].id = job[c].id, job'[c].todo = job[c].todo, job'[c].merged = job[c].merged,
           made'[c].merged = made[c].merged, made'[c].held = made[c].held,
           made'[c].created \in Nat,
           made'[c].created > 0 => Len(job[c].merged) = Len(job[c].todo),
           job[c].pc # "stopped",
           job'[c].pc \in {"save", "stopped"} => Len(job[c].merged) < Len(job[c].todo),
           layouts' = layouts, Refusal(c)'
    PROVE Paged(c)'
<1>1. Progress(c) /\ Visits(c) /\ Holds(c) /\ ImportsInv
  BY DEF PagesInv
<1>2. /\ artifacts'[job[c].id] = artifacts[job[c].id]
      /\ \A r : PageOf(c, r)' = PageOf(c, r)
  BY <1>1, ArtifactStays
<1>3. Progress(c)'
  BY <1>1 DEF Progress
<1>4. Visits(c)'
  BY <1>1, <1>2 DEF Visits
<1>5. Holds(c)'
  BY <1>1, <1>2 DEF Holds
<1> QED
  BY <1>3, <1>4, <1>5 DEF Paged

\* An import moves on without writing a layout.
LEMMA PagesOwn ==
    ASSUME PagesInv, [Next]_vars, registry' = registry, layouts' = layouts,
           NEW c \in Importing, NEW j, job' = [job EXCEPT ![c] = j],
           DOMAIN j = DOMAIN job[c], j.id = job[c].id, j.todo = job[c].todo,
           j.merged = job[c].merged,
           DOMAIN made' = Clients, \A d \in Clients \ {c} : made'[d] = made[d],
           DOMAIN made'[c] = {"merged", "created", "held"},
           made'[c].merged = made[c].merged, made'[c].held = made[c].held,
           made'[c].created \in Nat,
           made'[c].created > 0 => Len(job[c].merged) = Len(job[c].todo),
           job[c].pc # "stopped",
           j.pc \in {"save", "stopped"} => Len(job[c].merged) < Len(job[c].todo),
           \/ j.refused = job[c].refused
           \/ job[c].pc = "save" /\ ~ Savable(c) /\ j.target = job[c].target
              /\ j.pc = "stopped" /\ j.refused = TRUE
    PROVE PagesInv'
<1>1. /\ ImportsInv /\ c \in Clients /\ DOMAIN made = Clients /\ DOMAIN job = Clients
      /\ Progress(c) /\ Visits(c) /\ Refusal(c)
  BY DEF PagesInv, ImportsInv, Importing
<1>2. job'[c] = j /\ Turn(c)' = Turn(c)
  BY <1>1 DEF Turn
<1>3. /\ DOMAIN made' = Clients
      /\ \A d \in Clients : DOMAIN made'[d] = {"merged", "created", "held"}
      /\ \A d \in Clients \ {c} : made'[d] = made[d]
  BY <1>1, <1>2 DEF PagesInv
<1>4. Refusal(c)'
  <2>1. CASE j.refused = job[c].refused
    BY <1>1, <1>2, <2>1 DEF Refusal
  <2>2. CASE /\ job[c].pc = "save" /\ ~ Savable(c) /\ j.target = job[c].target
             /\ j.pc = "stopped" /\ j.refused = TRUE
    <3>1. Len(job[c].merged) < Len(job[c].todo)
      BY <2>2
    <3>2. \/ Turn(c) \notin ValidRoutes
          \/ \E n \in DOMAIN job[c].target.regions \ DOMAIN PageOf(c, Turn(c)).regions :
                ~ job[c].target.regions[n] \subseteq registry
      BY <1>1, <2>2, <3>1, TurnIsPage, RefusedFor
    <3>3. PageOf(c, Turn(c))' = PageOf(c, Turn(c))
      <4>1. \A r : PageOf(c, r)' = PageOf(c, r)
        BY <1>1, <1>2, ArtifactStays
      <4>2. PageOf(c, Turn(c))' = Pages(artifacts'[job'[c].id], Turn(c)')[Turn(c)']
        BY DEF PageOf
      <4>3. artifacts'[job[c].id] = artifacts[job[c].id]
        BY <1>1, <1>2, ArtifactStays
      <4> QED
        BY <1>2, <4>2, <4>3 DEF PageOf
    <3> QED
      BY <1>2, <2>2, <3>2, <3>3 DEF Refusal
  <2> QED
    BY <2>1, <2>2
<1>5. Paged(c)'
  BY <1>2, <1>4, PagesGoOn
<1>6. \A d \in Clients \ {c} :
         /\ made'[d].merged = made[d].merged /\ made'[d].created = made[d].created
         /\ made'[d].held \subseteq made[d].held
         /\ \A r \in made'[d].held : layouts'[r] = layouts[r]
  BY <1>3
<1> QED
  BY <1>1, <1>3, <1>5, <1>6, PagesMove

LEMMA TargetLoaded ==
    ASSUME PagesInv, [Next]_vars, NEW c \in Clients, LoadTarget(c)
    PROVE PagesInv'
<1> DEFINE j == [job[c] EXCEPT !.pc = "save", !.target = TargetAt(Turn(c))]
<1>1. /\ job' = [job EXCEPT ![c] = j] /\ UNCHANGED <<registry, layouts, made>>
      /\ c \in Importing /\ job[c].pc = "load" /\ Len(job[c].merged) < Len(job[c].todo)
  BY DEF LoadTarget, Importing
<1>2. DOMAIN job[c] = {"pc", "id", "merged", "todo", "target", "refused"} /\ Progress(c)
      /\ DOMAIN made = Clients /\ DOMAIN made[c] = {"merged", "created", "held"}
  BY <1>1 DEF PagesInv, ImportsInv, Verdicted
<1>3. /\ DOMAIN j = DOMAIN job[c] /\ j.id = job[c].id /\ j.todo = job[c].todo
      /\ j.merged = job[c].merged /\ j.pc = "save" /\ j.refused = job[c].refused
  BY <1>2
<1> HIDE DEF j
<1>4. made[c].created \in Nat /\ (made[c].created > 0 => Len(job[c].merged) = Len(job[c].todo))
  BY <1>2 DEF Progress
<1> QED
  BY <1>1, <1>2, <1>3, <1>4, PagesOwn

LEMMA ImportFailed ==
    ASSUME PagesInv, [Next]_vars, NEW c \in Clients, FailImport(c)
    PROVE PagesInv'
<1> DEFINE j == [job[c] EXCEPT !.pc = "stopped"]
<1>1. /\ job' = [job EXCEPT ![c] = j] /\ UNCHANGED <<registry, layouts, made>>
      /\ c \in Importing /\ job[c].pc # "stopped" /\ Len(job[c].merged) < Len(job[c].todo)
  BY DEF FailImport, Importing
<1>2. DOMAIN job[c] = {"pc", "id", "merged", "todo", "target", "refused"} /\ Progress(c)
      /\ DOMAIN made = Clients /\ DOMAIN made[c] = {"merged", "created", "held"}
  BY <1>1 DEF PagesInv, ImportsInv, Verdicted
<1>3. /\ DOMAIN j = DOMAIN job[c] /\ j.id = job[c].id /\ j.todo = job[c].todo
      /\ j.merged = job[c].merged /\ j.pc = "stopped" /\ j.refused = job[c].refused
  BY <1>2
<1> HIDE DEF j
<1>4. made[c].created \in Nat /\ (made[c].created > 0 => Len(job[c].merged) = Len(job[c].todo))
  BY <1>2 DEF Progress
<1> QED
  BY <1>1, <1>2, <1>3, <1>4, PagesOwn

LEMMA PageRefused ==
    ASSUME PagesInv, [Next]_vars, NEW c \in Clients, SavePage(c), StopRefused(c)
    PROVE PagesInv'
<1> DEFINE j == [job[c] EXCEPT !.pc = "stopped", !.refused = TRUE]
<1>1. /\ job' = [job EXCEPT ![c] = j] /\ UNCHANGED <<registry, layouts, made>>
      /\ c \in Importing /\ job[c].pc = "save" /\ ~ Savable(c)
  BY DEF SavePage, StopRefused, Importing
<1>2. DOMAIN job[c] = {"pc", "id", "merged", "todo", "target", "refused"} /\ Progress(c)
      /\ DOMAIN made = Clients /\ DOMAIN made[c] = {"merged", "created", "held"}
  BY <1>1 DEF PagesInv, ImportsInv, Verdicted
<1>3. /\ DOMAIN j = DOMAIN job[c] /\ j.id = job[c].id /\ j.todo = job[c].todo
      /\ j.merged = job[c].merged /\ j.pc = "stopped" /\ j.refused = TRUE
      /\ j.target = job[c].target
  BY <1>2
<1> HIDE DEF j
<1>4. /\ made[c].created \in Nat /\ (made[c].created > 0 => Len(job[c].merged) = Len(job[c].todo))
      /\ Len(job[c].merged) < Len(job[c].todo)
  BY <1>1, <1>2 DEF Progress
<1> QED
  BY <1>1, <1>2, <1>3, <1>4, PagesOwn

LEMMA Seeded ==
    ASSUME PagesInv, [Next]_vars, NEW c \in Clients, Seed(c)
    PROVE PagesInv'
<1> DEFINE j == [job[c] EXCEPT !.pc = "seed"]
<1> DEFINE m == [made[c] EXCEPT !.created = @ + 1]
<1>1. /\ job' = [job EXCEPT ![c] = j] /\ UNCHANGED <<registry, layouts>>
      /\ made' = [made EXCEPT ![c] = m]
      /\ c \in Importing /\ job[c].pc # "stopped" /\ Len(job[c].merged) = Len(job[c].todo)
  BY DEF Seed, Importing
<1>2. DOMAIN job[c] = {"pc", "id", "merged", "todo", "target", "refused"} /\ Progress(c)
      /\ DOMAIN made = Clients /\ DOMAIN made[c] = {"merged", "created", "held"}
  BY <1>1 DEF PagesInv, ImportsInv, Verdicted
<1>3. /\ DOMAIN j = DOMAIN job[c] /\ j.id = job[c].id /\ j.todo = job[c].todo
      /\ j.merged = job[c].merged /\ j.pc = "seed" /\ j.refused = job[c].refused
  BY <1>2
<1>4. made[c].created \in Nat
  BY <1>2 DEF Progress
<1>5. /\ DOMAIN m = {"merged", "created", "held"} /\ m.merged = made[c].merged
      /\ m.held = made[c].held /\ m.created \in Nat
  BY <1>2, <1>4
<1> HIDE DEF j, m
<1>6. /\ DOMAIN made' = Clients /\ made'[c] = m
      /\ \A d \in Clients \ {c} : made'[d] = made[d]
  BY <1>1, <1>2
<1> QED
  BY <1>1, <1>2, <1>3, <1>5, <1>6, PagesOwn

\* A page is saved: counted as merged, or not when the answer was lost.
LEMMA MergedProgress ==
    ASSUME NEW c \in Importing, Progress(c), job[c].pc = "save",
           job'[c].todo = job[c].todo,
           \/ job'[c].pc = "load" /\ job'[c].merged = Append(job[c].merged, Turn(c))
           \/ job'[c].pc = "stopped" /\ job'[c].merged = job[c].merged,
           made'[c].merged = made[c].merged \cup {Turn(c)},
           made'[c].created = made[c].created
    PROVE Progress(c)'
<1> DEFINE todo == job[c].todo
<1> DEFINE merged == job[c].merged
<1> DEFINE n == Len(merged)
<1>1. /\ todo \in Seq(Routes) /\ merged \in Seq(Routes) /\ made[c].created \in Nat
      /\ n \in Nat /\ Len(todo) \in Nat /\ n < Len(todo) /\ ~ made[c].created > 0
      /\ \A i \in 1 .. n : merged[i] = todo[i] /\ merged[i] \in made[c].merged
      /\ \A r \in made[c].merged : \E i \in 1 .. n : r = todo[i]
  BY DEF Progress
<1>2. Turn(c) = todo[n + 1] /\ Turn(c) \in Routes
  BY <1>1 DEF Turn
<1>3. CASE job'[c].pc = "load" /\ job'[c].merged = Append(job[c].merged, Turn(c))
  <2>1. /\ job'[c].merged \in Seq(Routes) /\ Len(job'[c].merged) = n + 1
        /\ job'[c].merged[n + 1] = todo[n + 1]
        /\ \A i \in 1 .. n : job'[c].merged[i] = merged[i]
    BY <1>1, <1>2, <1>3
  <2>2. ASSUME NEW i \in 1 .. n + 1
        PROVE job'[c].merged[i] = todo[i] /\ job'[c].merged[i] \in made'[c].merged
    <3>1. CASE i = n + 1
      BY <1>2, <2>1, <3>1
    <3>2. CASE i # n + 1
      <4>1. i \in 1 .. n
        BY <1>1, <3>2
      <4> QED
        BY <1>1, <2>1, <4>1
    <3> QED
      BY <3>1, <3>2
  <2>3. ASSUME NEW r \in made'[c].merged
        PROVE \E i \in 1 .. n + 1 : r = todo[i]
    <3>1. CASE r \in made[c].merged
      <4>1. PICK i \in 1 .. n : r = todo[i]
        BY <1>1, <3>1
      <4>2. i \in 1 .. n + 1
        BY <1>1
      <4> QED
        BY <4>1, <4>2
    <3>2. CASE r = Turn(c)
      <4>1. n + 1 \in 1 .. n + 1
        BY <1>1
      <4> QED
        BY <1>2, <3>2, <4>1
    <3> QED
      BY <3>1, <3>2
  <2> HIDE DEF todo, merged
  <2>4. n + 1 <= Len(todo)
    BY <1>1
  <2> QED
    BY <1>1, <1>3, <2>1, <2>2, <2>3, <2>4 DEF Progress, todo, merged
<1>4. CASE job'[c].pc = "stopped" /\ job'[c].merged = job[c].merged
  <2>1. \A r \in made'[c].merged : (\E i \in 1 .. n : r = todo[i]) \/ r = todo[n + 1]
    BY <1>1, <1>2
  <2>2. \A i \in 1 .. n : merged[i] \in made'[c].merged
    BY <1>1
  <2> QED
    BY <1>1, <1>4, <2>1, <2>2 DEF Progress
<1> QED
  BY <1>3, <1>4

LEMMA PageMerged ==
    ASSUME PagesInv, [Next]_vars, NEW c \in Clients, SavePage(c), MergePage(c)
    PROVE PagesInv'
<1>1. /\ c \in Importing /\ job[c].pc = "save" /\ UNCHANGED <<registry, artifacts>>
      /\ Turn(c) \in ValidRoutes
      /\ layouts' = [layouts EXCEPT ![Turn(c)] = Merged(c)]
  BY DEF SavePage, MergePage, Savable, Importing
<1>2. /\ ImportsInv /\ Progress(c) /\ Visits(c) /\ Holds(c) /\ Refusal(c)
      /\ DOMAIN made = Clients /\ DOMAIN job = Clients
      /\ \A d \in Clients : DOMAIN made[d] = {"merged", "created", "held"}
      /\ layouts \in [Routes -> Layouts \cup {NoLayout}]
  BY <1>1 DEF PagesInv, ImportsInv
<1>3. DOMAIN job[c] = {"pc", "id", "merged", "todo", "target", "refused"}
  BY <1>1, <1>2 DEF ImportsInv, Verdicted
<1>4. made' = [d \in Clients |->
                  IF d = c THEN [made[c] EXCEPT !.merged = @ \cup {Turn(c)},
                                                !.held = @ \cup {Turn(c)}]
                  ELSE [made[d] EXCEPT !.held = @ \ {Turn(c)}]]
  BY DEF MergePage
<1>5. /\ DOMAIN made' = Clients /\ made'[c].merged = made[c].merged \cup {Turn(c)}
      /\ DOMAIN made'[c] = {"merged", "created", "held"}
      /\ made'[c].held = made[c].held \cup {Turn(c)} /\ made'[c].created = made[c].created
  BY <1>2, <1>4
<1>6. \A d \in Clients \ {c} :
         /\ DOMAIN made'[d] = {"merged", "created", "held"}
         /\ made'[d].merged = made[d].merged /\ made'[d].created = made[d].created
         /\ made'[d].held = made[d].held \ {Turn(c)}
  BY <1>2, <1>4
<1>7. Turn(c) \in Routes /\ \A r : r # Turn(c) /\ r \in Routes => layouts'[r] = layouts[r]
  BY <1>1, <1>2, ImportsAssumption
<1>8. \A d \in Clients \ {c} : \A r \in made'[d].held : layouts'[r] = layouts[r]
  <2> SUFFICES ASSUME NEW d \in Clients \ {c}, NEW r \in made'[d].held
               PROVE layouts'[r] = layouts[r]
    OBVIOUS
  <2>1. r # Turn(c)
    BY <1>6
  <2> QED
    BY <1>1, <1>2, <2>1
<1>9. PICK j : /\ job' = [job EXCEPT ![c] = j] /\ j.id = job[c].id /\ j.todo = job[c].todo
               /\ j.refused = job[c].refused
               /\ \/ j.pc = "load" /\ j.merged = Append(job[c].merged, Turn(c))
                  \/ j.pc = "stopped" /\ j.merged = job[c].merged
  <2>1. CASE job' = [job EXCEPT ![c].pc = "load", ![c].merged = Append(@, Turn(c))]
    <3> DEFINE j == [job[c] EXCEPT !.pc = "load", !.merged = Append(@, Turn(c))]
    <3>1. /\ job' = [job EXCEPT ![c] = j] /\ j.id = job[c].id /\ j.todo = job[c].todo
          /\ j.refused = job[c].refused
          /\ j.pc = "load" /\ j.merged = Append(job[c].merged, Turn(c))
      BY <1>3, <2>1
    <3> HIDE DEF j
    <3> QED
      BY <3>1
  <2>2. CASE job' = [job EXCEPT ![c].pc = "stopped"]
    <3> DEFINE j == [job[c] EXCEPT !.pc = "stopped"]
    <3>1. /\ job' = [job EXCEPT ![c] = j] /\ j.id = job[c].id /\ j.todo = job[c].todo
          /\ j.refused = job[c].refused /\ j.pc = "stopped" /\ j.merged = job[c].merged
      BY <1>3, <2>2
    <3> HIDE DEF j
    <3> QED
      BY <3>1
  <2> QED
    BY <2>1, <2>2 DEF MergePage
<1>10. job'[c] = j
  BY <1>2, <1>9
<1>11. Progress(c)'
  BY <1>1, <1>2, <1>5, <1>9, <1>10, MergedProgress
<1>12. /\ artifacts'[job[c].id] = artifacts[job[c].id]
       /\ \A r : PageOf(c, r)' = PageOf(c, r)
  BY <1>1, <1>2, <1>9, <1>10, ArtifactStays
<1>13. Visits(c)'
  BY <1>2, <1>9, <1>10, <1>12 DEF Visits
<1>14. Holds(c)'
  <2>1. \A n \in Idents : n \in DOMAIN PageOf(c, Turn(c)).regions =>
           RegionAt(layouts'[Turn(c)], n) = <<PageOf(c, Turn(c)).regions[n]>>
    BY <1>1, <1>2, SavedPage
  <2>2. ASSUME NEW r \in made'[c].held, NEW n \in Idents, n \in DOMAIN PageOf(c, r).regions
        PROVE RegionAt(layouts'[r], n) = <<PageOf(c, r).regions[n]>>
    <3>1. CASE r = Turn(c)
      BY <2>1, <2>2, <3>1
    <3>2. CASE r # Turn(c)
      <4>1. r \in made[c].held /\ r \in Routes
        BY <1>2, <1>5, <3>2 DEF Holds
      <4> QED
        BY <1>2, <1>7, <2>2, <3>2, <4>1 DEF Holds
    <3> QED
      BY <3>1, <3>2
  <2>3. made'[c].held \subseteq Routes
    BY <1>2, <1>5, <1>7 DEF Holds
  <2> QED
    BY <1>12, <2>2, <2>3 DEF Holds
<1>15. Refusal(c)'
  BY <1>1, <1>2, <1>9, <1>10 DEF Refusal
<1>16. Paged(c)'
  BY <1>11, <1>13, <1>14, <1>15 DEF Paged
<1>17. \A d \in Clients \ {c} :
          /\ made'[d].merged = made[d].merged /\ made'[d].created = made[d].created
          /\ made'[d].held \subseteq made[d].held
          /\ \A r \in made'[d].held : layouts'[r] = layouts[r]
  BY <1>6, <1>8
<1>18. \A d \in Clients : DOMAIN made'[d] = {"merged", "created", "held"}
  BY <1>5, <1>6
<1> QED
  BY <1>1, <1>5, <1>9, <1>16, <1>17, <1>18, PagesMove

LEMMA ImportBegins ==
    ASSUME PagesInv, [Next]_vars, NEW c \in Clients, NEW i \in 1 .. MaxArtifacts,
           NEW r \in Routes, NEW theme \in Themes, BeginImport(c, i, r, theme)
    PROVE PagesInv'
<1>1. PICK todo \in Itineraries(artifacts[i], r) :
         job' = [job EXCEPT ![c] = [pc |-> "load", id |-> i, merged |-> <<>>, todo |-> todo,
                                    target |-> NoLayout, refused |-> FALSE]]
  BY DEF BeginImport
<1> DEFINE j == [pc |-> "load", id |-> i, merged |-> <<>>, todo |-> todo,
                 target |-> NoLayout, refused |-> FALSE]
<1>2. /\ j.pc = "load" /\ j.id = i /\ j.merged = <<>> /\ j.todo = todo /\ j.refused = FALSE
      /\ job' = [job EXCEPT ![c] = j]
  BY <1>1
<1> HIDE DEF j
<1>3. /\ DOMAIN made = Clients /\ DOMAIN job = Clients
      /\ \A d \in Clients : DOMAIN made[d] = {"merged", "created", "held"}
  BY DEF PagesInv, ImportsInv
<1>4. /\ UNCHANGED <<registry, layouts, artifacts>> /\ made' = [made EXCEPT ![c] = NothingMade]
      /\ job'[c] = j
  BY <1>2, <1>3 DEF BeginImport
<1>5. /\ DOMAIN made' = Clients /\ made'[c] = NothingMade
      /\ \A d \in Clients \ {c} : made'[d] = made[d]
  BY <1>3, <1>4
<1>6. /\ NothingMade.merged = {} /\ NothingMade.created = 0 /\ NothingMade.held = {}
      /\ DOMAIN NothingMade = {"merged", "created", "held"}
  BY DEF NothingMade
<1>7. todo \in Seq(Routes) /\ \A k \in 1 .. Len(todo) : todo[k] \in DOMAIN Pages(artifacts[i], r)
  BY ItinerariesAre
<1>8. Progress(c)'
  <2>1. /\ job'[c].todo = todo /\ job'[c].merged = <<>> /\ job'[c].pc = "load"
        /\ made'[c].created = 0 /\ made'[c].merged = {}
    BY <1>2, <1>4, <1>5, <1>6
  <2>2. <<>> \in Seq(Routes) /\ Len(<<>>) = 0 /\ Len(todo) \in Nat
    BY <1>7
  <2> QED
    BY <1>7, <2>1, <2>2 DEF Progress
<1>9. Visits(c)'
  BY <1>2, <1>4, <1>7 DEF Visits, Pages
<1>10. Holds(c)'
  BY <1>5, <1>6 DEF Holds
<1>11. Refusal(c)'
  BY <1>2, <1>4 DEF Refusal
<1>12. Paged(c)'
  BY <1>8, <1>9, <1>10, <1>11 DEF Paged
<1>13. \A d \in Clients : DOMAIN made'[d] = {"merged", "created", "held"}
  BY <1>3, <1>5, <1>6
<1>14. \A d \in Clients \ {c} :
          /\ made'[d].merged = made[d].merged /\ made'[d].created = made[d].created
          /\ made'[d].held \subseteq made[d].held
          /\ \A k \in made'[d].held : layouts'[k] = layouts[k]
  BY <1>4, <1>5
<1> QED
  BY <1>2, <1>4, <1>5, <1>12, <1>13, <1>14, PagesMove

\* A layout is put: its route is nobody's any more.
LEMMA LayoutPut ==
    ASSUME PagesInv, [Next]_vars, NEW r \in Routes, NEW l \in Drafts, PutLayout(r, l)
    PROVE PagesInv'
<1>1. /\ \A d \in Clients : DOMAIN made[d] = {"merged", "created", "held"}
      /\ layouts \in [Routes -> Layouts \cup {NoLayout}]
  BY DEF PagesInv, ImportsInv
<1>2. /\ UNCHANGED <<registry, job>> /\ layouts' = [layouts EXCEPT ![r] = l]
      /\ made' = [c \in Clients |-> [made[c] EXCEPT !.held = @ \ {r}]]
  BY DEF PutLayout
<1>3. DOMAIN made' = Clients
  BY <1>2
<1>4. \A c \in Clients : /\ DOMAIN made'[c] = {"merged", "created", "held"}
                         /\ made'[c].merged = made[c].merged /\ made'[c].created = made[c].created
                         /\ made'[c].held = made[c].held \ {r}
  BY <1>1, <1>2
<1>5. \A c \in Clients : \A k \in made'[c].held : layouts'[k] = layouts[k]
  <2> SUFFICES ASSUME NEW c \in Clients, NEW k \in made'[c].held
               PROVE layouts'[k] = layouts[k]
    OBVIOUS
  <2>1. k # r
    BY <1>4
  <2> QED
    BY <1>1, <1>2, <2>1
<1>6. \A c \in Clients :
         /\ made'[c].merged = made[c].merged /\ made'[c].created = made[c].created
         /\ made'[c].held \subseteq made[c].held
         /\ \A k \in made'[c].held : layouts'[k] = layouts[k]
  BY <1>4, <1>5
<1> QED
  BY <1>2, <1>3, <1>4, <1>6, PagesStay

\* An import answers, or the imports are left alone.
LEMMA ImportReturns ==
    ASSUME PagesInv, [Next]_vars, NEW c \in Clients, ReturnImport(c)
    PROVE PagesInv'
<1>1. /\ job' = [job EXCEPT ![c] = NoJob] /\ UNCHANGED <<registry, layouts, made>>
  BY DEF ReturnImport, Answered
<1>2. /\ DOMAIN made' = Clients
      /\ \A d \in Clients : DOMAIN made'[d] = {"merged", "created", "held"}
  BY <1>1 DEF PagesInv
<1>3. \A d \in Clients \ {c} :
         /\ made'[d].merged = made[d].merged /\ made'[d].created = made[d].created
         /\ made'[d].held \subseteq made[d].held
         /\ \A k \in made'[d].held : layouts'[k] = layouts[k]
  BY <1>1
<1> QED
  BY <1>1, <1>2, <1>3, PagesMove

LEMMA PagesUntouched ==
    ASSUME PagesInv, [Next]_vars, UNCHANGED <<registry, layouts, job, made>>
    PROVE PagesInv'
<1>1. /\ DOMAIN made' = Clients
      /\ \A d \in Clients : DOMAIN made'[d] = {"merged", "created", "held"}
  BY DEF PagesInv
<1>2. \A d \in Clients :
         /\ made'[d].merged = made[d].merged /\ made'[d].created = made[d].created
         /\ made'[d].held \subseteq made[d].held
         /\ \A k \in made'[d].held : layouts'[k] = layouts[k]
  OBVIOUS
<1> QED
  BY <1>1, <1>2, PagesStay

LEMMA ImportsStop ==
    ASSUME PagesInv, [Next]_vars, ImportsRestart
    PROVE PagesInv'
<1>1. ImportsInv'
  BY ImportsStep DEF PagesInv
<1>2. Importing' = {} /\ made' = [c \in Clients |-> NothingMade]
  BY DEF ImportsRestart, Importing
<1>3. DOMAIN NothingMade = {"merged", "created", "held"}
  BY DEF NothingMade
<1> QED
  BY <1>1, <1>2, <1>3 DEF PagesInv

LEMMA InitPages == Init => PagesInv
<1>1. Init => /\ DOMAIN made = Clients /\ Importing = {}
              /\ \A c \in Clients : made[c] = NothingMade
  BY DEF Init, ImportsInit, Importing
<1>2. DOMAIN NothingMade = {"merged", "created", "held"}
  BY DEF NothingMade
<1> QED
  BY <1>1, <1>2, InitImports DEF PagesInv

LEMMA PagesStep ==
    ASSUME PagesInv, [Next]_vars
    PROVE PagesInv'
<1>1. CASE CallImports
  <2>1. CASE \E r \in Routes, l \in Drafts : PutLayout(r, l)
    BY <2>1, LayoutPut
  <2>2. CASE \E c \in Clients, i \in 1 .. MaxArtifacts, r \in Routes, t \in Themes :
                BeginImport(c, i, r, t)
    BY <2>2, ImportBegins
  <2>3. CASE UNCHANGED <<registry, layouts, job, made>>
    BY <2>3, PagesUntouched
  <2> QED
    BY <1>1, <2>1, <2>2, <2>3 DEF CallImports, SaveArtifact, Install, Inserted, RegisterToken
<1>2. CASE RunImports
  <2>1. CASE \E c \in Clients : SavePage(c)
    BY <2>1, PageRefused, PageMerged DEF SavePage
  <2>2. CASE Tick
    BY <2>2, PagesUntouched DEF Tick
  <2> QED
    BY <1>2, <2>1, <2>2, TargetLoaded, Seeded, ImportFailed, ImportReturns DEF RunImports
<1>3. CASE Restart
  BY <1>3, ImportsStop DEF Restart
<1>4. CASE UNCHANGED importVars
  BY <1>4, PagesUntouched DEF importVars
<1> QED
  BY <1>1, <1>2, <1>3, <1>4 DEF Next, vars

\* A compatible verdict is worth its name (pkg/compat's CheckPreset and
\* CheckBundle before internal/layout's Save): an import it let through is
\* refused only for its route or for blocks that stood in the target and lost
\* their plugin, for any artifacts, registries, layouts and interleaving.
THEOREM VerdictsAreSavable == Spec => []CompatibleIsSavable
<1>1. PagesInv => CompatibleIsSavable
  BY DEF PagesInv, CompatibleIsSavable, Refusal
<1> QED
  BY <1>1, InitPages, PagesStep, PTL DEF Spec

\* What the invariant says of one import, as the report of it.
LEMMA ReportIsPrefix ==
    ASSUME NEW c \in Importing, Progress(c)
    PROVE LET j == job[c] IN
          /\ j.merged = SubSeq(j.todo, 1, Len(j.merged))
          /\ ToSet(j.merged) \subseteq made[c].merged
          /\ made[c].merged \subseteq
                ToSet(SubSeq(j.todo, 1, IF j.pc = "stopped" THEN Len(j.merged) + 1
                                        ELSE Len(j.merged)))
          /\ made[c].created > 0 => j.merged = j.todo
<1> DEFINE todo == job[c].todo
<1> DEFINE merged == job[c].merged
<1> DEFINE n == Len(merged)
<1>1. /\ todo \in Seq(Routes) /\ merged \in Seq(Routes) /\ n \in Nat /\ Len(todo) \in Nat
      /\ n <= Len(todo)
      /\ \A i \in 1 .. n : merged[i] = todo[i] /\ merged[i] \in made[c].merged
      /\ \A r \in made[c].merged : \/ \E i \in 1 .. n : r = todo[i]
                                   \/ job[c].pc = "stopped" /\ r = todo[n + 1]
      /\ job[c].pc = "stopped" => n < Len(todo)
      /\ made[c].created > 0 => n = Len(todo)
  BY DEF Progress
<1> HIDE DEF todo, merged
<1>2. ASSUME NEW k \in Nat, k <= Len(todo)
      PROVE /\ SubSeq(todo, 1, k) \in Seq(Routes) /\ Len(SubSeq(todo, 1, k)) = k
            /\ \A i \in 1 .. k : SubSeq(todo, 1, k)[i] = todo[i]
            /\ ToSet(SubSeq(todo, 1, k)) = {todo[i] : i \in 1 .. k}
  <2>1. /\ SubSeq(todo, 1, k) \in Seq(Routes) /\ Len(SubSeq(todo, 1, k)) = k
        /\ \A i \in 1 .. k : SubSeq(todo, 1, k)[i] = todo[i]
    BY <1>1, <1>2
  <2>2. DOMAIN SubSeq(todo, 1, k) = 1 .. k
    BY <2>1
  <2> QED
    BY <2>1, <2>2 DEF ToSet
<1>3. merged = SubSeq(todo, 1, n)
  <2>1. \A i \in 1 .. n : merged[i] = SubSeq(todo, 1, n)[i]
    BY <1>1, <1>2
  <2> QED
    BY <1>1, <1>2, <2>1
<1>4. ToSet(merged) \subseteq made[c].merged
  BY <1>1 DEF ToSet
<1>5. ASSUME NEW r \in made[c].merged
      PROVE r \in ToSet(SubSeq(todo, 1, IF job[c].pc = "stopped" THEN n + 1 ELSE n))
  <2>1. CASE job[c].pc = "stopped"
    <3>1. ToSet(SubSeq(todo, 1, n + 1)) = {todo[i] : i \in 1 .. n + 1}
      BY <1>1, <1>2, <2>1
    <3>2. \E i \in 1 .. n + 1 : r = todo[i]
      BY <1>1
    <3> QED
      BY <2>1, <3>1, <3>2
  <2>2. CASE job[c].pc # "stopped"
    BY <1>1, <1>2, <2>2
  <2> QED
    BY <2>1, <2>2
<1>6. made[c].created > 0 => merged = todo
  <2> SUFFICES ASSUME n = Len(todo) PROVE merged = todo
    BY <1>1
  <2> QED
    BY <1>1
<1> QED
  BY <1>3, <1>4, <1>5, <1>6 DEF todo, merged

\* What an import reports is what it did, up to the one page whose answer was
\* lost (internal/bundle/store.go's Import): a prefix of its pages in their
\* order, sample content after the last of them only, and a merged page stands
\* until somebody else writes its route; for any number of imports and writers.
THEOREM ImportsReportPrefixes == Spec => []ImportIsPrefix
<1>1. PagesInv => ImportIsPrefix
  BY ReportIsPrefix DEF PagesInv, ImportIsPrefix, Holds
<1> QED
  BY <1>1, InitPages, PagesStep, PTL DEF Spec
=============================================================================
