--------------------------- MODULE KbIndex_proofs ---------------------------
(***************************************************************************)
(* The live index and the stored vectors, for any number of documents,     *)
(* requests, embedders and edits.  Each document is followed on its own:   *)
(* what a thread knows of it lasts until another thread writes it, and     *)
(* that is when the history says so.                                       *)
(***************************************************************************)
EXTENDS KbIndex, TLAPS

TextOp == [at : {"insert", "index added", "update", "index renamed", "clear"},
           d : Doc \ VaultDoc, t : Text, old : BOOLEAN]
PlainOp == [at : {"rows", "document", "index deleted"}, d : Doc \ VaultDoc, old : BOOLEAN]
HaveOp == [at : {"have"}, d : Doc, t : Text]
PutOp == [at : {"put"}, d : Doc, t : Text, missing : (SUBSET Chunk) \ {{}}]
OpType == {Idle} \cup TextOp \cup PlainOp \cup HaveOp \cup PutOp

Types ==
  /\ text \in [Doc -> TextOrNone] /\ live \in [Doc -> TextOrNone]
  /\ rows \in [Doc -> [Chunk -> TextOrNone]]
  /\ built \in BOOLEAN /\ used \subseteq Doc
  /\ edits \in 0..MaxEdits /\ stops \in 0..MaxStops
  /\ raced \subseteq Doc /\ overtaken \subseteq Doc
  /\ op \in [Thread -> OpType]

Touches(s, d) == s.at # "idle" /\ s.d = d

(* An id is minted before anything is stored under it, and whoever inserts *)
(* its document is the only one who knows it.                              *)
FreshAt(d) ==
  /\ d \notin used => /\ text[d] = NoText /\ rows[d] = NoRows
                      /\ \A w \in Thread : ~Touches(op[w], d)
  /\ \A w \in Thread : (op[w].at = "insert" /\ op[w].d = d) =>
       /\ text[d] = NoText /\ rows[d] = NoRows
       /\ \A x \in Thread : Touches(op[x], d) => x = w

(* What the one writer of a document knows of it.                          *)
Knows(s, t, l, b) ==
  /\ s.old = FALSE
  /\ s.at \in {"index added", "index renamed"} => t = s.t
  /\ s.at = "index deleted" => t = NoText
  /\ s.at = "update" => t # NoText
  /\ s.at \in {"insert", "update", "clear", "rows", "document"} /\ b => l = t

IndexAt(d) ==
  d \notin VaultDoc /\ d \notin raced =>
    /\ \A w, x \in Thread : Writes(op[w], d) /\ Writes(op[x], d) => w = x
    /\ \A w \in Thread : Writes(op[w], d) => Knows(op[w], text[d], live[d], built)
    /\ built /\ (\A w \in Thread : ~Writes(op[w], d)) => live[d] = text[d]

(* A text that was renamed and whose vectors are still to be dropped.      *)
Dirty(s, d) == s.at \in {"index renamed", "clear"} /\ s.d = d

VectorAt(d) ==
  d \notin overtaken =>
    /\ \A w \in Thread : Embeds(op[w], d) => op[w].t = text[d]
    /\ text[d] # NoText /\ (\A w \in Thread : ~Dirty(op[w], d)) =>
         \A i \in Chunk : rows[d][i] \in {text[d], NoText}

DocInv(d) == FreshAt(d) /\ IndexAt(d) /\ VectorAt(d)

IInv == Types /\ \A d \in Doc : DocInv(d)

-----------------------------------------------------------------------------
(* A thread that steps leaves the documents it does not touch as they are. *)
LEMMA Elsewhere ==
  ASSUME Types, NEW w \in Thread, NEW s, op' = [op EXCEPT ![w] = s],
         NEW d \in Doc, DocInv(d), ~Touches(op[w], d), ~Touches(s, d),
         text'[d] = text[d], rows'[d] = rows[d], live'[d] = live[d], built' = built,
         used \subseteq used', raced \subseteq raced', overtaken \subseteq overtaken'
  PROVE  DocInv(d)'
<1>1. \A x \in Thread : op'[x] = IF x = w THEN s ELSE op[x]
  BY DEF Types
<1>2. /\ ~Writes(op[w], d) /\ ~Writes(s, d) /\ ~Embeds(op[w], d) /\ ~Embeds(s, d)
      /\ ~Dirty(op[w], d) /\ ~Dirty(s, d)
  BY DEF Touches, Writes, Embeds, Dirty
<1>3. FreshAt(d)'
  BY <1>1 DEF DocInv, FreshAt, Touches
<1>4. IndexAt(d)'
  BY <1>1, <1>2 DEF DocInv, IndexAt
<1>5. VectorAt(d)'
  BY <1>1, <1>2 DEF DocInv, VectorAt
<1>6. QED
  BY <1>3, <1>4, <1>5 DEF DocInv

LEMMA OneOp ==
  ASSUME Types, NEW w \in Thread, NEW n \in OpType, op' = [op EXCEPT ![w] = n]
  PROVE  /\ \A x \in Thread : op'[x] = IF x = w THEN n ELSE op[x]
         /\ op' \in [Thread -> OpType] /\ op[w] \in OpType
BY DEF Types

(* Whoever works at a document works at one that has been inserted.        *)
LEMMA FreshAfter ==
  ASSUME NEW d \in Doc, FreshAt(d), NEW w \in Thread, NEW n,
         \A x \in Thread : op'[x] = IF x = w THEN n ELSE op[x],
         used \subseteq used',
         Touches(op[w], d) \/ text[d] # NoText, ~(n.at = "insert" /\ n.d = d)
  PROVE  FreshAt(d)'
<1>1. d \in used
  BY DEF FreshAt
<1>2. ASSUME NEW x \in Thread, op[x].at = "insert", op[x].d = d PROVE x = w
  BY <1>2 DEF FreshAt, Touches
<1>3. \A x \in Thread : ~(op'[x].at = "insert" /\ op'[x].d = d)
  BY <1>2
<1>4. QED
  BY <1>1, <1>3 DEF FreshAt

(* A step of the one writer of a document, which leaves it at n. *)
IndexKept(n, d) ==
  /\ Writes(n, d) => Knows(n, text'[d], live'[d], built)
  /\ ~Writes(n, d) /\ built => live'[d] = text'[d]

LEMMA WriterIndex ==
  ASSUME NEW d \in Doc, IndexAt(d), NEW w \in Thread, NEW n,
         \A x \in Thread : op'[x] = IF x = w THEN n ELSE op[x],
         Writes(op[w], d), raced' = raced, built' = built,
         Knows(op[w], text[d], live[d], built) => IndexKept(n, d)
  PROVE  IndexAt(d)'
<1> SUFFICES ASSUME d \notin VaultDoc, d \notin raced
    PROVE  /\ \A x, y \in Thread : Writes(op'[x], d) /\ Writes(op'[y], d) => x = y
           /\ \A x \in Thread : Writes(op'[x], d) => Knows(op'[x], text'[d], live'[d], built')
           /\ built' /\ (\A x \in Thread : ~Writes(op'[x], d)) => live'[d] = text'[d]
  BY DEF IndexAt, Writes, Knows
<1>1. \A x \in Thread : Writes(op[x], d) => x = w
  BY DEF IndexAt
<1>2. Knows(op[w], text[d], live[d], built)
  BY DEF IndexAt
<1>3. \A x \in Thread : Writes(op'[x], d) => x = w /\ Writes(n, d) /\ op'[x] = n
  BY <1>1
<1>4. Writes(n, d) => Writes(op'[w], d)
  OBVIOUS
<1>5. QED
  BY <1>2, <1>3, <1>4 DEF IndexKept

(* A step that leaves the text and the index alone, of no writer. *)
LEMMA EmbedderIndex ==
  ASSUME NEW d \in Doc, IndexAt(d), NEW w \in Thread, NEW n,
         \A x \in Thread : op'[x] = IF x = w THEN n ELSE op[x],
         ~Writes(op[w], d), ~Writes(n, d),
         UNCHANGED <<text, live, built, raced>>
  PROVE  IndexAt(d)'
<1>1. \A x \in Thread : Writes(op'[x], d) <=> Writes(op[x], d)
  OBVIOUS
<1>2. \A x \in Thread : Writes(op[x], d) => op'[x] = op[x]
  OBVIOUS
<1>3. QED
  BY <1>1, <1>2 DEF IndexAt

(* What a step of w, which leaves it at n, has to keep of the vectors.     *)
VectorsKept(w, n, d) ==
  /\ Embeds(n, d) => n.t = text'[d]
  /\ text'[d] = text[d] \/ \A x \in Thread : ~Embeds(op[x], d)
  /\ text'[d] # NoText /\ ~Dirty(n, d) /\ (\A x \in Thread \ {w} : ~Dirty(op[x], d)) =>
       \A i \in Chunk : rows'[d][i] \in {text'[d], NoText}

LEMMA VectorAfter ==
  ASSUME NEW d \in Doc, VectorAt(d), NEW w \in Thread, NEW n,
         \A x \in Thread : op'[x] = IF x = w THEN n ELSE op[x],
         overtaken \subseteq overtaken',
         d \notin overtaken' => VectorsKept(w, n, d)
  PROVE  VectorAt(d)'
<1> SUFFICES ASSUME d \notin overtaken'
    PROVE  /\ \A x \in Thread : Embeds(op'[x], d) => op'[x].t = text'[d]
           /\ text'[d] # NoText /\ (\A x \in Thread : ~Dirty(op'[x], d)) =>
                \A i \in Chunk : rows'[d][i] \in {text'[d], NoText}
  BY DEF VectorAt, Embeds, Dirty
<1>1. ASSUME NEW x \in Thread, Embeds(op'[x], d) PROVE op'[x].t = text'[d]
  <2>1. CASE x = w
    BY <1>1, <2>1 DEF VectorsKept
  <2>2. CASE x # w
    <3>1. op'[x] = op[x]
      BY <2>2
    <3>2. QED
      BY <1>1, <3>1 DEF VectorAt, VectorsKept
  <2>3. QED
    BY <2>1, <2>2
<1>2. ASSUME \A x \in Thread : ~Dirty(op'[x], d)
      PROVE  ~Dirty(n, d) /\ \A x \in Thread \ {w} : ~Dirty(op[x], d)
  <2>1. op'[w] = n /\ \A x \in Thread \ {w} : op'[x] = op[x]
    OBVIOUS
  <2>2. QED
    BY <1>2, <2>1
<1>3. QED
  BY <1>1, <1>2 DEF VectorsKept

LEMMA InitInv == Init => IInv
<1> SUFFICES ASSUME Init PROVE IInv
  OBVIOUS
<1>1. Types
  <2>1. Idle \in OpType
    BY DEF OpType
  <2>2. NoRows \in [Chunk -> TextOrNone] /\ NoText \in TextOrNone
    BY DEF NoRows, TextOrNone
  <2>3. op \in [Thread -> OpType] /\ rows \in [Doc -> [Chunk -> TextOrNone]]
    BY <2>1, <2>2 DEF Init
  <2>4. text \in [Doc -> TextOrNone] /\ live \in [Doc -> TextOrNone]
    BY <2>2 DEF Init
  <2>5. edits \in 0..MaxEdits /\ stops \in 0..MaxStops
    BY KbAssumption DEF Init
  <2>6. built \in BOOLEAN /\ used \subseteq Doc /\ raced \subseteq Doc /\ overtaken \subseteq Doc
    BY DEF Init
  <2>7. QED
    BY <2>3, <2>4, <2>5, <2>6 DEF Types
<1>2. ASSUME NEW d \in Doc PROVE DocInv(d)
  BY DEF Init, DocInv, FreshAt, IndexAt, VectorAt, Touches, Writes, Embeds, Idle, NoRows
<1>3. QED
  BY <1>1, <1>2 DEF IInv
-----------------------------------------------------------------------------
(* What a thread holds. *)
LEMMA OpFacts ==
  ASSUME NEW s \in OpType
  PROVE  /\ s.at = "idle" => s = Idle
         /\ s.at \in {"insert", "index added", "update", "index renamed", "clear"} => s \in TextOp
         /\ s.at \in {"rows", "document", "index deleted"} => s \in PlainOp
         /\ s.at = "have" => s \in HaveOp
         /\ s.at = "put" => s \in PutOp
         /\ s.at \in {"idle", "have", "put"} \cup Writing
<1>1. CASE s = Idle
  BY <1>1 DEF Idle
<1>2. CASE s \in TextOp
  BY <1>2 DEF TextOp, Writing
<1>3. CASE s \in PlainOp
  BY <1>3 DEF PlainOp, Writing
<1>4. CASE s \in HaveOp
  BY <1>4 DEF HaveOp
<1>5. CASE s \in PutOp
  BY <1>5 DEF PutOp
<1>6. QED
  BY <1>1, <1>2, <1>3, <1>4, <1>5 DEF OpType

(* A request that goes on with what it does. *)
LEMMA TextGoesOn ==
  ASSUME NEW s \in TextOp, NEW at \in {"index added", "index renamed", "clear"}
  PROVE  /\ [s EXCEPT !.at = at] \in TextOp
         /\ [s EXCEPT !.at = at].at = at /\ [s EXCEPT !.at = at].d = s.d
         /\ [s EXCEPT !.at = at].old = s.old /\ [s EXCEPT !.at = at].t = s.t
         /\ s.d \in Doc \ VaultDoc /\ s.t \in Text
BY DEF TextOp

LEMMA PlainGoesOn ==
  ASSUME NEW s \in PlainOp, NEW at \in {"document", "index deleted"}
  PROVE  /\ [s EXCEPT !.at = at] \in PlainOp
         /\ [s EXCEPT !.at = at].at = at /\ [s EXCEPT !.at = at].d = s.d
         /\ [s EXCEPT !.at = at].old = s.old
         /\ s.d \in Doc \ VaultDoc
BY DEF PlainOp

-----------------------------------------------------------------------------
(* The invariant is inductive, one lemma per action. *)

(* A thread that is writing a document, and a step of its. *)
LEMMA WriterStep ==
  ASSUME IInv, NEW w \in Thread, NEW s, s = op[w], NEW d \in Doc \ VaultDoc, Writes(s, d),
         NEW n \in OpType, op' = [op EXCEPT ![w] = n], n = Idle \/ n.d = d, n.at # "insert",
         UNCHANGED <<built, used, edits, stops, raced>>,
         text' = [text EXCEPT ![d] = text'[d]], text'[d] \in TextOrNone,
         rows' = [rows EXCEPT ![d] = rows'[d]], rows'[d] \in [Chunk -> TextOrNone],
         live' = [live EXCEPT ![d] = live'[d]], live'[d] \in TextOrNone,
         overtaken' = overtaken \/ Overtakes(d),
         Knows(s, text[d], live[d], built) => IndexKept(n, d),
         FreshAt(d) /\ VectorAt(d) /\ d \notin overtaken' => VectorsKept(w, n, d)
  PROVE  IInv'
<1>1. /\ \A x \in Thread : op'[x] = IF x = w THEN n ELSE op[x]
      /\ op' \in [Thread -> OpType]
  BY OneOp DEF IInv
<1>2. /\ text' \in [Doc -> TextOrNone] /\ rows' \in [Doc -> [Chunk -> TextOrNone]]
      /\ live' \in [Doc -> TextOrNone]
      /\ \A x \in Doc \ {d} : text'[x] = text[x] /\ rows'[x] = rows[x] /\ live'[x] = live[x]
  BY DEF IInv, Types
<1>3. /\ overtaken \subseteq overtaken' /\ overtaken' \subseteq Doc
      /\ used \subseteq used' /\ raced \subseteq raced' /\ built' = built
  BY DEF Overtakes, IInv, Types
<1>4. Types'
  BY <1>1, <1>2, <1>3 DEF IInv, Types
<1>5. FreshAt(d) /\ IndexAt(d) /\ VectorAt(d)
  BY DEF IInv, DocInv
<1>6. Touches(op[w], d) /\ Writes(op[w], d)
  BY DEF Touches, Writes
<1>7. FreshAt(d)'
  BY <1>1, <1>5, <1>6, FreshAfter
<1>8. IndexAt(d)'
  BY <1>1, <1>5, <1>6, WriterIndex
<1>9. VectorAt(d)'
  BY <1>1, <1>3, <1>5, VectorAfter
<1>10. \A x \in Doc : Touches(op[w], x) \/ Touches(n, x) => x = d
  BY <1>6 DEF Touches, Idle
<1>11. DocInv(d)'
  BY <1>7, <1>8, <1>9 DEF DocInv
<1>12. ASSUME NEW x \in Doc \ {d} PROVE DocInv(x)'
  <2>1. ~Touches(op[w], x) /\ ~Touches(n, x) /\ DocInv(x) /\ Types
    BY <1>10 DEF IInv
  <2>2. text'[x] = text[x] /\ rows'[x] = rows[x] /\ live'[x] = live[x]
    BY <1>2
  <2>3. QED
    BY <1>3, <2>1, <2>2, Elsewhere
<1>13. QED
  BY <1>4, <1>11, <1>12 DEF IInv

(* A write that overtakes nobody is one that no embedder is at. *)
LEMMA OvertakesNone ==
  ASSUME NEW d \in Doc, Overtakes(d), d \notin overtaken'
  PROVE  \A x \in Thread : ~Embeds(op[x], d)
BY DEF Overtakes, Embedders

(* A step that changes neither a text nor its vectors.                     *)
LEMMA VectorsStay ==
  ASSUME NEW d \in Doc, VectorAt(d), NEW w \in Thread, NEW n,
         d \notin overtaken, text' = text, rows' = rows,
         Dirty(op[w], d) => Dirty(n, d),
         Embeds(n, d) => n.t = text[d]
  PROVE  VectorsKept(w, n, d)
<1>1. ~Dirty(n, d) /\ (\A x \in Thread \ {w} : ~Dirty(op[x], d))
        => \A x \in Thread : ~Dirty(op[x], d)
  OBVIOUS
<1>2. text[d] # NoText /\ (\A x \in Thread : ~Dirty(op[x], d)) =>
        \A i \in Chunk : rows[d][i] \in {text[d], NoText}
  BY DEF VectorAt
<1>3. QED
  BY <1>1, <1>2 DEF VectorsKept

LEMMA InsertInv ==
  ASSUME IInv, NEW w \in Thread, Insert(w)
  PROVE  IInv'
<1>1. PICK s : s = op[w]
  OBVIOUS
<1>2. s \in TextOp /\ s.at = "insert"
  BY <1>1, OpFacts, OneOp DEF IInv, Types, Insert
<1>3. PICK d \in Doc \ VaultDoc : d = s.d
  BY <1>2, TextGoesOn
<1>4. PICK n \in OpType : n = [s EXCEPT !.at = "index added"]
  BY <1>2, TextGoesOn DEF OpType
<1>5. n.at = "index added" /\ n.d = d /\ n.old = s.old /\ n.t = s.t /\ s.t \in Text
  BY <1>2, <1>3, <1>4, TextGoesOn
<1>6. /\ text' = [text EXCEPT ![d] = s.t] /\ op' = [op EXCEPT ![w] = n]
      /\ UNCHANGED <<rows, built, live, used, edits, stops, raced, overtaken>>
  BY <1>1, <1>3, <1>4 DEF Insert, Goto
<1>7. /\ text'[d] = s.t /\ text'[d] \in TextOrNone /\ text' = [text EXCEPT ![d] = text'[d]]
      /\ rows' = [rows EXCEPT ![d] = rows'[d]] /\ rows'[d] \in [Chunk -> TextOrNone]
      /\ live' = [live EXCEPT ![d] = live'[d]] /\ live'[d] \in TextOrNone
  BY <1>5, <1>6 DEF IInv, Types, TextOrNone
<1>8. Writes(s, d) /\ Writes(n, d)
  BY <1>2, <1>3, <1>5 DEF Writes
<1>9. Knows(s, text[d], live[d], built) => IndexKept(n, d)
  BY <1>2, <1>5, <1>6, <1>7, <1>8 DEF Knows, IndexKept
<1>10. ASSUME FreshAt(d) PROVE VectorsKept(w, n, d)
  <2>1. rows[d] = NoRows /\ \A x \in Thread : Touches(op[x], d) => x = w
    BY <1>1, <1>2, <1>3, <1>10 DEF FreshAt
  <2>2. \A x \in Thread : ~Embeds(op[x], d)
    BY <1>1, <1>2, <2>1 DEF Embeds, Touches
  <2>3. \A i \in Chunk : rows'[d][i] \in {text'[d], NoText}
    BY <1>6, <2>1 DEF NoRows
  <2>4. QED
    BY <1>5, <1>7, <2>2, <2>3 DEF VectorsKept
<1>11. QED
  BY <1>1, <1>5, <1>6, <1>7, <1>8, <1>9, <1>10, WriterStep

LEMMA IndexAddedInv ==
  ASSUME IInv, NEW w \in Thread, IndexAdded(w)
  PROVE  IInv'
<1>1. PICK s : s = op[w]
  OBVIOUS
<1>2. s \in TextOp /\ s.at = "index added"
  BY <1>1, OpFacts, OneOp DEF IInv, Types, IndexAdded
<1>3. PICK d \in Doc \ VaultDoc : d = s.d
  BY <1>2, TextGoesOn
<1>4. PICK n \in OpType : /\ op' = [op EXCEPT ![w] = n]
                          /\ n = Idle \/ n = [at |-> "have", d |-> d, t |-> s.t]
  <2>1. Idle \in OpType /\ [at |-> "have", d |-> d, t |-> s.t] \in OpType
    BY <1>2, <1>3, TextGoesOn DEF OpType, HaveOp
  <2>2. QED
    BY <1>1, <1>3, <2>1 DEF IndexAdded, Goto
<1>5. /\ n.at \in {"idle", "have"}
      /\ n.at # "idle" => n.d = d /\ n.t = s.t
      /\ n = Idle \/ n.d = d
      /\ ~Writes(n, d) /\ ~Dirty(n, d) /\ s.t \in Text
  <2>1. s.t \in Text
    BY <1>2, TextGoesOn
  <2>2. CASE n = Idle
    BY <2>1, <2>2 DEF Idle, Writes, Dirty
  <2>3. CASE n = [at |-> "have", d |-> d, t |-> s.t]
    BY <2>1, <2>3 DEF Writes, Dirty
  <2>4. QED
    BY <1>4, <2>2, <2>3
<1>6. /\ live' = IF built /\ ~s.old THEN [live EXCEPT ![d] = s.t] ELSE live
      /\ UNCHANGED <<text, rows, built, used, edits, stops, raced, overtaken>>
  BY <1>1, <1>3 DEF IndexAdded, IndexHolds
<1>7. /\ live'[d] = (IF built /\ ~s.old THEN s.t ELSE live[d])
      /\ text' = [text EXCEPT ![d] = text'[d]] /\ text'[d] \in TextOrNone
      /\ rows' = [rows EXCEPT ![d] = rows'[d]] /\ rows'[d] \in [Chunk -> TextOrNone]
      /\ live' = [live EXCEPT ![d] = live'[d]] /\ live'[d] \in TextOrNone
  BY <1>5, <1>6 DEF IInv, Types, TextOrNone
<1>8. Writes(s, d) /\ Embeds(s, d) /\ ~Dirty(s, d)
  BY <1>2, <1>3 DEF Writes, Embeds, Dirty
<1>9. Knows(s, text[d], live[d], built) => IndexKept(n, d)
  BY <1>2, <1>5, <1>6, <1>7 DEF Knows, IndexKept
<1>10. ASSUME VectorAt(d), d \notin overtaken' PROVE VectorsKept(w, n, d)
  <2>1. s.t = text[d]
    BY <1>1, <1>6, <1>8, <1>10 DEF VectorAt
  <2>2. Embeds(n, d) => n.t = text[d]
    BY <1>5, <2>1 DEF Embeds
  <2>3. QED
    BY <1>1, <1>6, <1>8, <1>10, <2>2, VectorsStay
<1>11. QED
  BY <1>1, <1>4, <1>5, <1>6, <1>7, <1>8, <1>9, <1>10, WriterStep

LEMMA UpdateInv ==
  ASSUME IInv, NEW w \in Thread, Update(w)
  PROVE  IInv'
<1>1. PICK s : s = op[w]
  OBVIOUS
<1>2. s \in TextOp /\ s.at = "update"
  BY <1>1, OpFacts, OneOp DEF IInv, Types, Update
<1>3. PICK d \in Doc \ VaultDoc : d = s.d
  BY <1>2, TextGoesOn
<1>4. PICK n \in OpType : n = [s EXCEPT !.at = "index renamed"]
  BY <1>2, TextGoesOn DEF OpType
<1>5. n.at = "index renamed" /\ n.d = d /\ n.old = s.old /\ n.t = s.t /\ s.t \in Text
  BY <1>2, <1>3, <1>4, TextGoesOn
<1>6. /\ text' = IF text[d] = NoText THEN text ELSE [text EXCEPT ![d] = s.t]
      /\ op' = [op EXCEPT ![w] = n] /\ Overtakes(d)
      /\ UNCHANGED <<rows, built, live, used, edits, stops, raced>>
  BY <1>1, <1>3, <1>4 DEF Update, Goto
<1>7. /\ text'[d] = (IF text[d] = NoText THEN NoText ELSE s.t) /\ text'[d] \in TextOrNone
      /\ text' = [text EXCEPT ![d] = text'[d]]
      /\ rows' = [rows EXCEPT ![d] = rows'[d]] /\ rows'[d] \in [Chunk -> TextOrNone]
      /\ live' = [live EXCEPT ![d] = live'[d]] /\ live'[d] \in TextOrNone
  BY <1>5, <1>6 DEF IInv, Types, TextOrNone
<1>8. Writes(s, d) /\ Writes(n, d) /\ Dirty(n, d) /\ ~Embeds(n, d)
  BY <1>2, <1>3, <1>5 DEF Writes, Dirty, Embeds
<1>9. Knows(s, text[d], live[d], built) => IndexKept(n, d)
  BY <1>2, <1>5, <1>6, <1>7, <1>8 DEF Knows, IndexKept
<1>10. d \notin overtaken' => VectorsKept(w, n, d)
  BY <1>6, <1>8, OvertakesNone DEF VectorsKept
<1>11. QED
  BY <1>1, <1>5, <1>6, <1>7, <1>8, <1>9, <1>10, WriterStep

LEMMA IndexRenamedInv ==
  ASSUME IInv, NEW w \in Thread, IndexRenamed(w)
  PROVE  IInv'
<1>1. PICK s : s = op[w]
  OBVIOUS
<1>2. s \in TextOp /\ s.at = "index renamed"
  BY <1>1, OpFacts, OneOp DEF IInv, Types, IndexRenamed
<1>3. PICK d \in Doc \ VaultDoc : d = s.d
  BY <1>2, TextGoesOn
<1>4. PICK n \in OpType : n = [s EXCEPT !.at = "clear"]
  BY <1>2, TextGoesOn DEF OpType
<1>5. n.at = "clear" /\ n.d = d /\ n.old = s.old /\ n.t = s.t /\ s.t \in Text
  BY <1>2, <1>3, <1>4, TextGoesOn
<1>6. /\ live' = IF built /\ ~s.old THEN [live EXCEPT ![d] = s.t] ELSE live
      /\ op' = [op EXCEPT ![w] = n]
      /\ UNCHANGED <<text, rows, built, used, edits, stops, raced, overtaken>>
  BY <1>1, <1>3, <1>4 DEF IndexRenamed, IndexHolds, Goto
<1>7. /\ live'[d] = (IF built /\ ~s.old THEN s.t ELSE live[d])
      /\ text' = [text EXCEPT ![d] = text'[d]] /\ text'[d] \in TextOrNone
      /\ rows' = [rows EXCEPT ![d] = rows'[d]] /\ rows'[d] \in [Chunk -> TextOrNone]
      /\ live' = [live EXCEPT ![d] = live'[d]] /\ live'[d] \in TextOrNone
  BY <1>5, <1>6 DEF IInv, Types, TextOrNone
<1>8. Writes(s, d) /\ Writes(n, d) /\ Dirty(n, d) /\ ~Embeds(n, d)
  BY <1>2, <1>3, <1>5 DEF Writes, Dirty, Embeds
<1>9. Knows(s, text[d], live[d], built) => IndexKept(n, d)
  BY <1>2, <1>5, <1>6, <1>7, <1>8 DEF Knows, IndexKept
<1>10. VectorsKept(w, n, d)
  BY <1>6, <1>8 DEF VectorsKept
<1>11. QED
  BY <1>1, <1>5, <1>6, <1>7, <1>8, <1>9, <1>10, WriterStep

(* Dropping the vectors of a document leaves none to be wrong.             *)
LEMMA DroppedKept ==
  ASSUME NEW w \in Thread, NEW n, NEW d \in Doc, Overtakes(d), d \notin overtaken',
         rows'[d] = NoRows, text' = text, ~Embeds(n, d)
  PROVE  VectorsKept(w, n, d)
BY DEF NoRows, VectorsKept

LEMMA ClearEmbeddingsInv ==
  ASSUME IInv, NEW w \in Thread, ClearEmbeddings(w)
  PROVE  IInv'
<1>1. PICK s : s = op[w]
  OBVIOUS
<1>2. s \in TextOp /\ s.at = "clear"
  BY <1>1, OpFacts, OneOp DEF IInv, Types, ClearEmbeddings
<1>3. PICK d \in Doc \ VaultDoc : d = s.d
  BY <1>2, TextGoesOn
<1>4. PICK n \in OpType : n = Idle
  BY DEF OpType
<1>5. n.at = "idle" /\ ~Writes(n, d) /\ ~Embeds(n, d) /\ Writes(s, d)
  BY <1>2, <1>3, <1>4 DEF Idle, Writes, Embeds
<1>6. /\ rows' = [rows EXCEPT ![d] = NoRows]
      /\ op' = [op EXCEPT ![w] = n] /\ Overtakes(d)
      /\ UNCHANGED <<text, built, live, used, edits, stops, raced>>
  BY <1>1, <1>3, <1>4 DEF ClearEmbeddings, Goto
<1>7. /\ rows'[d] = NoRows /\ rows'[d] \in [Chunk -> TextOrNone]
      /\ text' = [text EXCEPT ![d] = text'[d]] /\ text'[d] \in TextOrNone
      /\ rows' = [rows EXCEPT ![d] = rows'[d]]
      /\ live' = [live EXCEPT ![d] = live'[d]] /\ live'[d] \in TextOrNone
  BY <1>6 DEF IInv, Types, TextOrNone, NoRows
<1>8. Knows(s, text[d], live[d], built) => IndexKept(n, d)
  BY <1>2, <1>5, <1>6 DEF Knows, IndexKept
<1>9. d \notin overtaken' => VectorsKept(w, n, d)
  BY <1>5, <1>6, <1>7, DroppedKept
<1>10. QED
  BY <1>1, <1>4, <1>5, <1>6, <1>7, <1>8, <1>9, WriterStep

LEMMA DeleteRowsInv ==
  ASSUME IInv, NEW w \in Thread, DeleteRows(w)
  PROVE  IInv'
<1>1. PICK s : s = op[w]
  OBVIOUS
<1>2. s \in PlainOp /\ s.at = "rows"
  BY <1>1, OpFacts, OneOp DEF IInv, Types, DeleteRows
<1>3. PICK d \in Doc \ VaultDoc : d = s.d
  BY <1>2, PlainGoesOn
<1>4. PICK n \in OpType : n = [s EXCEPT !.at = "document"]
  BY <1>2, PlainGoesOn DEF OpType
<1>5. n.at = "document" /\ n.d = d /\ n.old = s.old
  BY <1>2, <1>3, <1>4, PlainGoesOn
<1>6. /\ rows' = [rows EXCEPT ![d] = NoRows]
      /\ op' = [op EXCEPT ![w] = n] /\ Overtakes(d)
      /\ UNCHANGED <<text, built, live, used, edits, stops, raced>>
  BY <1>1, <1>3, <1>4 DEF DeleteRows, Goto
<1>7. /\ rows'[d] = NoRows /\ rows'[d] \in [Chunk -> TextOrNone]
      /\ text' = [text EXCEPT ![d] = text'[d]] /\ text'[d] \in TextOrNone
      /\ rows' = [rows EXCEPT ![d] = rows'[d]]
      /\ live' = [live EXCEPT ![d] = live'[d]] /\ live'[d] \in TextOrNone
  BY <1>6 DEF IInv, Types, TextOrNone, NoRows
<1>8. Writes(s, d) /\ Writes(n, d) /\ ~Embeds(n, d)
  BY <1>2, <1>3, <1>5 DEF Writes, Embeds
<1>9. Knows(s, text[d], live[d], built) => IndexKept(n, d)
  BY <1>2, <1>5, <1>6, <1>8 DEF Knows, IndexKept
<1>10. d \notin overtaken' => VectorsKept(w, n, d)
  BY <1>6, <1>7, <1>8, DroppedKept
<1>11. QED
  BY <1>1, <1>5, <1>6, <1>7, <1>8, <1>9, <1>10, WriterStep

LEMMA DeleteDocumentInv ==
  ASSUME IInv, NEW w \in Thread, DeleteDocument(w)
  PROVE  IInv'
<1>1. PICK s : s = op[w]
  OBVIOUS
<1>2. s \in PlainOp /\ s.at = "document"
  BY <1>1, OpFacts, OneOp DEF IInv, Types, DeleteDocument
<1>3. PICK d \in Doc \ VaultDoc : d = s.d
  BY <1>2, PlainGoesOn
<1>4. PICK n \in OpType : n = [s EXCEPT !.at = "index deleted"]
  BY <1>2, PlainGoesOn DEF OpType
<1>5. n.at = "index deleted" /\ n.d = d /\ n.old = s.old
  BY <1>2, <1>3, <1>4, PlainGoesOn
<1>6. /\ text' = [text EXCEPT ![d] = NoText]
      /\ op' = [op EXCEPT ![w] = n] /\ Overtakes(d)
      /\ UNCHANGED <<rows, built, live, used, edits, stops, raced>>
  BY <1>1, <1>3, <1>4 DEF DeleteDocument, Goto
<1>7. /\ text'[d] = NoText /\ rows'[d] \in [Chunk -> TextOrNone]
      /\ text' = [text EXCEPT ![d] = text'[d]] /\ text'[d] \in TextOrNone
      /\ rows' = [rows EXCEPT ![d] = rows'[d]]
      /\ live' = [live EXCEPT ![d] = live'[d]] /\ live'[d] \in TextOrNone
  BY <1>6 DEF IInv, Types, TextOrNone
<1>8. Writes(s, d) /\ Writes(n, d) /\ ~Embeds(n, d)
  BY <1>2, <1>3, <1>5 DEF Writes, Embeds
<1>9. Knows(s, text[d], live[d], built) => IndexKept(n, d)
  BY <1>2, <1>5, <1>6, <1>7, <1>8 DEF Knows, IndexKept
<1>10. d \notin overtaken' => VectorsKept(w, n, d)
  BY <1>6, <1>7, <1>8, OvertakesNone DEF VectorsKept
<1>11. QED
  BY <1>1, <1>5, <1>6, <1>7, <1>8, <1>9, <1>10, WriterStep

LEMMA IndexDeletedInv ==
  ASSUME IInv, NEW w \in Thread, IndexDeleted(w)
  PROVE  IInv'
<1>1. PICK s : s = op[w]
  OBVIOUS
<1>2. s \in PlainOp /\ s.at = "index deleted"
  BY <1>1, OpFacts, OneOp DEF IInv, Types, IndexDeleted
<1>3. PICK d \in Doc \ VaultDoc : d = s.d
  BY <1>2, PlainGoesOn
<1>4. PICK n \in OpType : n = Idle
  BY DEF OpType
<1>5. n.at = "idle" /\ ~Writes(n, d) /\ ~Embeds(n, d) /\ Writes(s, d) /\ ~Dirty(s, d)
  BY <1>2, <1>3, <1>4 DEF Idle, Writes, Embeds, Dirty
<1>6. /\ live' = IF built /\ ~s.old THEN [live EXCEPT ![d] = NoText] ELSE live
      /\ op' = [op EXCEPT ![w] = n]
      /\ UNCHANGED <<text, rows, built, used, edits, stops, raced, overtaken>>
  BY <1>1, <1>3, <1>4 DEF IndexDeleted, IndexHolds, Goto
<1>7. /\ live'[d] = (IF built /\ ~s.old THEN NoText ELSE live[d])
      /\ text' = [text EXCEPT ![d] = text'[d]] /\ text'[d] \in TextOrNone
      /\ rows' = [rows EXCEPT ![d] = rows'[d]] /\ rows'[d] \in [Chunk -> TextOrNone]
      /\ live' = [live EXCEPT ![d] = live'[d]] /\ live'[d] \in TextOrNone
  BY <1>6 DEF IInv, Types, TextOrNone
<1>8. Knows(s, text[d], live[d], built) => IndexKept(n, d)
  BY <1>2, <1>5, <1>6, <1>7 DEF Knows, IndexKept
<1>9. VectorAt(d) /\ d \notin overtaken' => VectorsKept(w, n, d)
  BY <1>1, <1>5, <1>6, VectorsStay
<1>10. QED
  BY <1>1, <1>4, <1>5, <1>6, <1>7, <1>8, <1>9, WriterStep

-----------------------------------------------------------------------------
(* A thread that embeds, or comes to embed, a document. *)
LEMMA EmbedderStep ==
  ASSUME IInv, NEW w \in Thread, NEW s, s = op[w], NEW d \in Doc,
         NEW n \in OpType, op' = [op EXCEPT ![w] = n],
         s.at \in {"idle", "have", "put"}, n.at \in {"idle", "have", "put"},
         s.at # "idle" => s.d = d, n.at # "idle" => n.d = d,
         s.at # "idle" \/ text[d] # NoText,
         UNCHANGED <<text, live, built, used, edits, raced, overtaken>>,
         stops' \in 0..MaxStops,
         rows' = [rows EXCEPT ![d] = rows'[d]], rows'[d] \in [Chunk -> TextOrNone],
         VectorAt(d) /\ d \notin overtaken => VectorsKept(w, n, d)
  PROVE  IInv'
<1>1. /\ \A x \in Thread : op'[x] = IF x = w THEN n ELSE op[x]
      /\ op' \in [Thread -> OpType]
  BY OneOp DEF IInv
<1>2. /\ rows' \in [Doc -> [Chunk -> TextOrNone]]
      /\ \A x \in Doc \ {d} : text'[x] = text[x] /\ rows'[x] = rows[x] /\ live'[x] = live[x]
      /\ used \subseteq used' /\ raced \subseteq raced' /\ overtaken \subseteq overtaken'
      /\ built' = built
  BY DEF IInv, Types
<1>3. Types'
  BY <1>1, <1>2 DEF IInv, Types
<1>4. FreshAt(d) /\ IndexAt(d) /\ VectorAt(d)
  BY DEF IInv, DocInv
<1>5. /\ Touches(op[w], d) \/ text[d] # NoText
      /\ ~Writes(op[w], d) /\ ~Writes(n, d) /\ n.at # "insert"
  BY DEF Touches, Writes
<1>6. FreshAt(d)'
  BY <1>1, <1>2, <1>4, <1>5, FreshAfter
<1>7. IndexAt(d)'
  BY <1>1, <1>4, <1>5, EmbedderIndex
<1>8. VectorAt(d)'
  BY <1>1, <1>2, <1>4, VectorAfter
<1>9. DocInv(d)'
  BY <1>6, <1>7, <1>8 DEF DocInv
<1>10. \A x \in Doc : Touches(op[w], x) \/ Touches(n, x) => x = d
  BY DEF Touches
<1>11. ASSUME NEW x \in Doc \ {d} PROVE DocInv(x)'
  <2>1. ~Touches(op[w], x) /\ ~Touches(n, x) /\ DocInv(x) /\ Types
    BY <1>10 DEF IInv
  <2>2. text'[x] = text[x] /\ rows'[x] = rows[x] /\ live'[x] = live[x]
    BY <1>2
  <2>3. QED
    BY <1>2, <2>1, <2>2, Elsewhere
<1>12. QED
  BY <1>3, <1>9, <1>11 DEF IInv

LEMMA PickInv ==
  ASSUME IInv, NEW w \in Thread, NEW d \in Doc, Pick(w, d)
  PROVE  IInv'
<1>1. op[w] = Idle /\ op[w].at = "idle" /\ text[d] # NoText
  BY DEF Pick, Pending, Idle
<1>2. text[d] \in Text
  BY <1>1 DEF IInv, Types, TextOrNone
<1>3. PICK n \in OpType : n = [at |-> "have", d |-> d, t |-> text[d]]
  BY <1>2 DEF OpType, HaveOp
<1>4. n.at = "have" /\ n.d = d /\ n.t = text[d]
  BY <1>3
<1>5. /\ op' = [op EXCEPT ![w] = n]
      /\ UNCHANGED <<text, rows, built, live, used, edits, stops, raced, overtaken>>
  BY <1>3 DEF Pick, Goto
<1>6. /\ rows' = [rows EXCEPT ![d] = rows'[d]] /\ rows'[d] \in [Chunk -> TextOrNone]
      /\ stops' \in 0..MaxStops
  BY <1>5 DEF IInv, Types
<1>7. ~Dirty(op[w], d)
  BY <1>1 DEF Dirty
<1>8. VectorAt(d) /\ d \notin overtaken => VectorsKept(w, n, d)
  BY <1>4, <1>5, <1>7, VectorsStay
<1>9. QED
  BY <1>1, <1>4, <1>5, <1>6, <1>8, EmbedderStep

LEMMA FindMissingInv ==
  ASSUME IInv, NEW w \in Thread, FindMissing(w)
  PROVE  IInv'
<1>1. PICK s : s = op[w]
  OBVIOUS
<1>2. s \in HaveOp /\ s.at = "have"
  BY <1>1, OpFacts, OneOp DEF IInv, Types, FindMissing
<1>3. PICK d \in Doc : d = s.d
  BY <1>2 DEF HaveOp
<1>4. PICK m : m = ChunksOf(s.t) \ Have(d)
  OBVIOUS
<1>5. m \subseteq Chunk
  BY <1>4 DEF ChunksOf, ChunkCount, Chunk
<1>6. PICK n \in OpType : n = IF m = {} THEN Idle
                              ELSE [at |-> "put", d |-> d, t |-> s.t, missing |-> m]
  <2>1. Idle \in OpType
    BY DEF OpType
  <2>2. m # {} => [at |-> "put", d |-> d, t |-> s.t, missing |-> m] \in OpType
    BY <1>2, <1>5 DEF OpType, PutOp, HaveOp
  <2>3. QED
    BY <2>1, <2>2
<1>7. n.at \in {"idle", "put"} /\ (n.at # "idle" => n.d = d /\ n.t = s.t)
  <2>1. CASE m = {}
    BY <1>6, <2>1 DEF Idle
  <2>2. CASE m # {}
    BY <1>6, <2>2
  <2>3. QED
    BY <2>1, <2>2
<1>8. /\ op' = [op EXCEPT ![w] = n]
      /\ UNCHANGED <<text, rows, built, live, used, edits, stops, raced, overtaken>>
  BY <1>1, <1>3, <1>4, <1>6 DEF FindMissing, Goto
<1>9. /\ rows' = [rows EXCEPT ![d] = rows'[d]] /\ rows'[d] \in [Chunk -> TextOrNone]
      /\ stops' \in 0..MaxStops
  BY <1>8 DEF IInv, Types
<1>10. Embeds(op[w], d) /\ ~Dirty(op[w], d)
  BY <1>1, <1>2, <1>3 DEF Embeds, Dirty
<1>11. VectorAt(d) /\ d \notin overtaken => VectorsKept(w, n, d)
  <2>1. VectorAt(d) /\ d \notin overtaken /\ Embeds(n, d) => n.t = text[d]
    BY <1>1, <1>7, <1>10 DEF VectorAt, Embeds
  <2>2. QED
    BY <1>8, <1>10, <2>1, VectorsStay
<1>12. QED
  BY <1>1, <1>2, <1>3, <1>7, <1>8, <1>9, <1>11, EmbedderStep

LEMMA PutChunkInv ==
  ASSUME IInv, NEW w \in Thread, PutChunk(w)
  PROVE  IInv'
<1>1. PICK s : s = op[w]
  OBVIOUS
<1>2. s \in PutOp /\ s.at = "put"
  BY <1>1, OpFacts, OneOp DEF IInv, Types, PutChunk
<1>3. PICK d \in Doc : d = s.d
  BY <1>2 DEF PutOp
<1>4. PICK i \in s.missing : i = Min(s.missing)
  <2>1. s.missing \subseteq {0, 1} /\ s.missing # {}
    BY <1>2 DEF PutOp, Chunk
  <2>2. \E x \in s.missing : \A y \in s.missing : x <= y
    BY <2>1
  <2>3. QED
    BY <2>2 DEF Min
<1>5. s.missing \subseteq Chunk /\ s.t \in Text /\ i \in Chunk
  BY <1>2, <1>4 DEF PutOp
<1>6. PICK n \in OpType : n = IF s.missing = {i} THEN Idle
                              ELSE [s EXCEPT !.missing = @ \ {i}]
  <2>1. Idle \in OpType
    BY DEF OpType
  <2>2. s.missing # {i} => [s EXCEPT !.missing = @ \ {i}] \in PutOp
    BY <1>2, <1>4, <1>5 DEF PutOp
  <2>3. QED
    BY <2>1, <2>2 DEF OpType
<1>7. n.at \in {"idle", "put"} /\ (n.at # "idle" => n.d = d /\ n.t = s.t)
  <2>1. CASE s.missing = {i}
    BY <1>6, <2>1 DEF Idle
  <2>2. CASE s.missing # {i}
    BY <1>2, <1>3, <1>6, <2>2 DEF PutOp
  <2>3. QED
    BY <2>1, <2>2
<1>8. /\ op' = [op EXCEPT ![w] = n] /\ rows' = [rows EXCEPT ![d][i] = s.t]
      /\ UNCHANGED <<text, built, live, used, edits, stops, raced, overtaken>>
  BY <1>1, <1>3, <1>4, <1>6 DEF PutChunk, Goto
<1>9. /\ rows'[d] = [rows[d] EXCEPT ![i] = s.t]
      /\ rows' = [rows EXCEPT ![d] = rows'[d]] /\ rows'[d] \in [Chunk -> TextOrNone]
      /\ stops' \in 0..MaxStops
  BY <1>5, <1>8 DEF IInv, Types, TextOrNone
<1>10. Embeds(op[w], d) /\ ~Dirty(op[w], d)
  BY <1>1, <1>2, <1>3 DEF Embeds, Dirty
<1>11. ASSUME VectorAt(d), d \notin overtaken PROVE VectorsKept(w, n, d)
  <2>1. s.t = text[d] /\ text'[d] = text[d]
    BY <1>1, <1>8, <1>10, <1>11 DEF VectorAt
  <2>2. Embeds(n, d) => n.t = text[d]
    BY <1>7, <2>1 DEF Embeds
  <2>3. (\A x \in Thread \ {w} : ~Dirty(op[x], d)) => \A x \in Thread : ~Dirty(op[x], d)
    BY <1>10
  <2>4. text[d] # NoText /\ (\A x \in Thread : ~Dirty(op[x], d)) =>
          \A j \in Chunk : rows[d][j] \in {text[d], NoText}
    BY <1>11 DEF VectorAt
  <2>5. \A j \in Chunk : rows'[d][j] = IF j = i THEN text[d] ELSE rows[d][j]
    BY <1>5, <1>9, <2>1 DEF IInv, Types
  <2>6. QED
    BY <2>1, <2>2, <2>3, <2>4, <2>5 DEF VectorsKept
<1>12. /\ op' = [op EXCEPT ![w] = n] /\ s.at = "put" /\ s.d = d
       /\ UNCHANGED <<text, built, live, used, edits, raced, overtaken>>
  BY <1>2, <1>3, <1>8
<1>13. rows' = [rows EXCEPT ![d] = rows'[d]] /\ rows'[d] \in [Chunk -> TextOrNone]
  BY <1>9
<1>14. stops' \in 0..MaxStops
  BY <1>9
<1>15. QED
  BY <1>1, <1>7, <1>11, <1>12, <1>13, <1>14, EmbedderStep

LEMMA StopEmbeddingInv ==
  ASSUME IInv, NEW w \in Thread, StopEmbedding(w)
  PROVE  IInv'
<1>1. PICK s : s = op[w]
  OBVIOUS
<1>2. s \in PutOp /\ s.at = "put"
  BY <1>1, OpFacts, OneOp DEF IInv, Types, StopEmbedding
<1>3. PICK d \in Doc : d = s.d
  BY <1>2 DEF PutOp
<1>4. PICK n \in OpType : n = Idle
  BY DEF OpType
<1>5. n.at = "idle" /\ ~Embeds(n, d) /\ ~Dirty(op[w], d)
  BY <1>1, <1>2, <1>4 DEF Idle, Embeds, Dirty
<1>6. /\ op' = [op EXCEPT ![w] = n]
      /\ UNCHANGED <<text, rows, built, live, used, edits, raced, overtaken>>
      /\ stops' \in 0..MaxStops
  BY <1>4, KbAssumption DEF StopEmbedding, Goto, IInv, Types
<1>7. rows' = [rows EXCEPT ![d] = rows'[d]] /\ rows'[d] \in [Chunk -> TextOrNone]
  BY <1>6 DEF IInv, Types
<1>8. VectorAt(d) /\ d \notin overtaken => VectorsKept(w, n, d)
  BY <1>5, <1>6, VectorsStay
<1>9. QED
  BY <1>1, <1>2, <1>3, <1>5, <1>6, <1>7, <1>8, EmbedderStep

-----------------------------------------------------------------------------
(* A request that begins: it is the one writer of its document, or a racer. *)
LEMMA StartStep ==
  ASSUME IInv, NEW w \in Thread, NEW d \in Doc \ VaultDoc, NEW n \in OpType,
         Starts(w, d, n), n.at \in {"insert", "update", "rows"}, n.d = d, n.old = FALSE,
         n.at = "update" => text[d] # NoText,
         UNCHANGED <<text, rows, built, live, stops, overtaken>>,
         used \subseteq used', used' \subseteq Doc,
         FreshAt(d)'
  PROVE  IInv'
<1>1. /\ op[w] = Idle /\ op[w].at = "idle" /\ op' = [op EXCEPT ![w] = n]
      /\ raced' = raced \cup {x \in {d} : Writers(d) # {}}
      /\ edits' \in 0..MaxEdits
  BY KbAssumption DEF Starts, Goto, Idle, IInv, Types
<1>2. /\ \A x \in Thread : op'[x] = IF x = w THEN n ELSE op[x]
      /\ op' \in [Thread -> OpType]
  BY <1>1, OneOp DEF IInv
<1>3. raced \subseteq raced' /\ overtaken \subseteq overtaken' /\ raced' \subseteq Doc
  BY <1>1 DEF IInv, Types
<1>4. Types'
  BY <1>1, <1>2, <1>3 DEF IInv, Types
<1>5. IndexAt(d) /\ VectorAt(d)
  BY DEF IInv, DocInv
<1>6. /\ ~Touches(op[w], d) /\ ~Writes(op[w], d) /\ ~Dirty(op[w], d)
      /\ Writes(n, d) /\ ~Embeds(n, d)
  BY <1>1 DEF Touches, Writes, Dirty, Embeds
<1>7. IndexAt(d)'
  <2> SUFFICES ASSUME d \notin raced'
      PROVE  /\ \A x, y \in Thread : Writes(op'[x], d) /\ Writes(op'[y], d) => x = y
             /\ \A x \in Thread : Writes(op'[x], d) => Knows(op'[x], text'[d], live'[d], built')
             /\ built' /\ (\A x \in Thread : ~Writes(op'[x], d)) => live'[d] = text'[d]
    BY DEF IndexAt, Writes, Knows
  <2>1. d \notin raced /\ \A x \in Thread : ~Writes(op[x], d)
    BY <1>1 DEF Writers
  <2>2. built => live[d] = text[d]
    BY <1>5, <2>1 DEF IndexAt
  <2>3. Knows(n, text'[d], live'[d], built')
    BY <2>2 DEF Knows
  <2>4. \A x \in Thread : Writes(op'[x], d) => x = w
    BY <1>2, <2>1
  <2>5. op'[w] = n
    BY <1>2
  <2>6. QED
    BY <1>6, <2>3, <2>4, <2>5
<1>8. VectorAt(d)'
  <2>1. d \notin overtaken' => VectorsKept(w, n, d)
    BY <1>5, <1>6, VectorsStay
  <2>2. QED
    BY <1>2, <1>3, <1>5, <2>1, VectorAfter
<1>9. DocInv(d)'
  BY <1>7, <1>8 DEF DocInv
<1>10. \A x \in Doc : Touches(op[w], x) \/ Touches(n, x) => x = d
  BY <1>1 DEF Touches
<1>11. ASSUME NEW x \in Doc \ {d} PROVE DocInv(x)'
  <2>1. ~Touches(op[w], x) /\ ~Touches(n, x) /\ DocInv(x) /\ Types
    BY <1>10 DEF IInv
  <2>2. text'[x] = text[x] /\ rows'[x] = rows[x] /\ live'[x] = live[x] /\ built' = built
    OBVIOUS
  <2>3. QED
    BY <1>1, <1>3, <2>1, <2>2, Elsewhere
<1>12. QED
  BY <1>4, <1>9, <1>11 DEF IInv

LEMMA AddInv ==
  ASSUME IInv, NEW w \in Thread, NEW d \in Doc, NEW t \in Text, Add(w, d, t)
  PROVE  IInv'
<1>1. d \in Doc \ VaultDoc
  BY DEF Add, Starts
<1>2. PICK n \in OpType : n = [at |-> "insert", d |-> d, t |-> t, old |-> FALSE]
  BY <1>1 DEF OpType, TextOp
<1>3. n.at = "insert" /\ n.d = d /\ n.old = FALSE
  BY <1>2
<1>4. /\ Starts(w, d, n) /\ d \notin used /\ used' = used \cup {d}
      /\ UNCHANGED <<text, rows, built, live, stops, overtaken>>
  BY <1>2 DEF Add
<1>5. used \subseteq used' /\ used' \subseteq Doc
  BY <1>4 DEF IInv, Types
<1>6. \A x \in Thread : op'[x] = IF x = w THEN n ELSE op[x]
  BY <1>4, OneOp DEF Starts, Goto, IInv
<1>7. FreshAt(d)'
  <2>1. /\ text[d] = NoText /\ rows[d] = NoRows
        /\ \A x \in Thread : ~Touches(op[x], d)
    BY <1>4 DEF IInv, DocInv, FreshAt
  <2>2. \A x \in Thread : Touches(op'[x], d) => x = w
    BY <1>6, <2>1
  <2>3. \A x \in Thread : op'[x].at = "insert" /\ op'[x].d = d => x = w
    BY <2>2 DEF Touches
  <2>4. d \in used' /\ text'[d] = NoText /\ rows'[d] = NoRows
    BY <1>4, <2>1
  <2>5. QED
    BY <2>2, <2>3, <2>4 DEF FreshAt, Touches
<1>8. QED
  BY <1>1, <1>3, <1>4, <1>5, <1>7, StartStep

LEMMA RenameInv ==
  ASSUME IInv, NEW w \in Thread, NEW d \in Doc, NEW t \in Text, Rename(w, d, t)
  PROVE  IInv'
<1>1. d \in Doc \ VaultDoc
  BY DEF Rename, Starts
<1>2. PICK n \in OpType : n = [at |-> "update", d |-> d, t |-> t, old |-> FALSE]
  BY <1>1 DEF OpType, TextOp
<1>3. n.at = "update" /\ n.d = d /\ n.old = FALSE
  BY <1>2
<1>4. /\ Starts(w, d, n) /\ text[d] # NoText /\ used' = used
      /\ UNCHANGED <<text, rows, built, live, stops, overtaken>>
  BY <1>2 DEF Rename
<1>5. used \subseteq used' /\ used' \subseteq Doc
  BY <1>4 DEF IInv, Types
<1>6. \A x \in Thread : op'[x] = IF x = w THEN n ELSE op[x]
  BY <1>4, OneOp DEF Starts, Goto, IInv
<1>7. FreshAt(d)'
  BY <1>3, <1>4, <1>5, <1>6, FreshAfter DEF IInv, DocInv
<1>8. QED
  BY <1>1, <1>3, <1>4, <1>5, <1>7, StartStep

LEMMA DeleteInv ==
  ASSUME IInv, NEW w \in Thread, NEW d \in Doc, Delete(w, d)
  PROVE  IInv'
<1>1. d \in Doc \ VaultDoc
  BY DEF Delete, Starts
<1>2. PICK n \in OpType : n = [at |-> "rows", d |-> d, old |-> FALSE]
  BY <1>1 DEF OpType, PlainOp
<1>3. n.at = "rows" /\ n.d = d /\ n.old = FALSE
  BY <1>2
<1>4. /\ Starts(w, d, n) /\ text[d] # NoText /\ used' = used
      /\ UNCHANGED <<text, rows, built, live, stops, overtaken>>
  BY <1>2 DEF Delete
<1>5. used \subseteq used' /\ used' \subseteq Doc
  BY <1>4 DEF IInv, Types
<1>6. \A x \in Thread : op'[x] = IF x = w THEN n ELSE op[x]
  BY <1>4, OneOp DEF Starts, Goto, IInv
<1>7. FreshAt(d)'
  BY <1>3, <1>4, <1>5, <1>6, FreshAfter DEF IInv, DocInv
<1>8. QED
  BY <1>1, <1>3, <1>4, <1>5, <1>7, StartStep

-----------------------------------------------------------------------------
(* The first search builds the index from the table: whoever is writing     *)
(* knows what the table holds, and so what the index does.                 *)
LEMMA BuildInv ==
  ASSUME IInv, Build
  PROVE  IInv'
<1>1. /\ live' = text /\ built' = TRUE /\ raced' = {d \in raced : Writers(d) # {}}
      /\ UNCHANGED <<text, rows, op, used, edits, stops, overtaken>>
  BY DEF Build
<1>2. Types'
  BY <1>1 DEF IInv, Types
<1>3. ASSUME NEW d \in Doc PROVE DocInv(d)'
  <2>1. FreshAt(d) /\ IndexAt(d) /\ VectorAt(d)
    BY DEF IInv, DocInv
  <2>2. FreshAt(d)' /\ VectorAt(d)'
    BY <1>1, <2>1 DEF FreshAt, VectorAt
  <2>3. IndexAt(d)'
    <3> SUFFICES ASSUME d \notin VaultDoc, d \notin raced'
        PROVE  /\ \A x, y \in Thread : Writes(op[x], d) /\ Writes(op[y], d) => x = y
               /\ \A x \in Thread : Writes(op[x], d) => Knows(op[x], text[d], text[d], TRUE)
      BY <1>1 DEF IndexAt
    <3>1. CASE d \in raced
      <4>1. \A x \in Thread : ~Writes(op[x], d)
        BY <1>1, <3>1 DEF Writers
      <4>2. QED
        BY <4>1
    <3>2. CASE d \notin raced
      <4>1. \A x \in Thread : Writes(op[x], d) => Knows(op[x], text[d], live[d], built)
        BY <2>1, <3>2 DEF IndexAt
      <4>2. \A x \in Thread : Knows(op[x], text[d], live[d], built)
              => Knows(op[x], text[d], text[d], TRUE)
        BY DEF Knows
      <4>3. QED
        BY <2>1, <3>2, <4>1, <4>2 DEF IndexAt
    <3>3. QED
      BY <3>1, <3>2
  <2>4. QED
    BY <2>2, <2>3 DEF DocInv
<1>4. QED
  BY <1>2, <1>3 DEF IInv

(* A lock and unlock: who is writing has an index nobody reads.            *)
LEMMA RelockInv ==
  ASSUME IInv, Relock
  PROVE  IInv'
<1>1. /\ live' = [d \in Doc |-> NoText] /\ built' = FALSE
      /\ raced' = raced \cup {d \in Doc : Writers(d) # {}}
      /\ UNCHANGED <<text, rows, used, edits, stops, overtaken>>
  BY DEF Relock
<1>2. ASSUME NEW x \in Thread
      PROVE  /\ op'[x] \in OpType /\ op'[x].at = op[x].at
             /\ op[x].at # "idle" => op'[x].d = op[x].d
             /\ op[x].at \in {"index added", "have", "put"} => op'[x].t = op[x].t
  <2>1. op[x] \in OpType /\ op'[x] = IF op[x].at \in {"idle", "have", "put"} THEN op[x]
                                     ELSE [op[x] EXCEPT !.old = TRUE]
    BY DEF IInv, Types, Relock
  <2>2. PICK s \in OpType : s = op[x]
    BY <2>1
  <2>3. CASE s.at \in {"idle", "have", "put"}
    BY <2>1, <2>2, <2>3
  <2>4. CASE s \in TextOp
    <3>1. /\ [s EXCEPT !.old = TRUE] \in TextOp /\ [s EXCEPT !.old = TRUE].at = s.at
          /\ [s EXCEPT !.old = TRUE].d = s.d /\ [s EXCEPT !.old = TRUE].t = s.t
          /\ s.at \notin {"idle", "have", "put"}
      BY <2>4 DEF TextOp
    <3>2. QED
      BY <2>1, <2>2, <3>1 DEF OpType
  <2>5. CASE s \in PlainOp
    <3>1. /\ [s EXCEPT !.old = TRUE] \in PlainOp /\ [s EXCEPT !.old = TRUE].at = s.at
          /\ [s EXCEPT !.old = TRUE].d = s.d
          /\ s.at \in {"rows", "document", "index deleted"}
      BY <2>5 DEF PlainOp
    <3>2. QED
      BY <2>1, <2>2, <3>1 DEF OpType
  <2>6. QED
    BY <2>2, <2>3, <2>4, <2>5, OpFacts DEF Writing
<1>3. op' \in [Thread -> OpType]
  <2>1. op' = [x \in Thread |-> op'[x]]
    BY DEF Relock
  <2>2. QED
    BY <1>2, <2>1
<1>4. Types'
  <2>1. live' \in [Doc -> TextOrNone] /\ built' \in BOOLEAN /\ raced' \subseteq Doc
    BY <1>1 DEF TextOrNone, IInv, Types
  <2>2. QED
    BY <1>1, <1>3, <2>1 DEF IInv, Types
<1>5. ASSUME NEW d \in Doc PROVE DocInv(d)'
  <2>1. FreshAt(d) /\ IndexAt(d) /\ VectorAt(d)
    BY DEF IInv, DocInv
  <2>2. ASSUME NEW x \in Thread
        PROVE  /\ Touches(op'[x], d) <=> Touches(op[x], d)
               /\ Writes(op'[x], d) <=> Writes(op[x], d)
               /\ Embeds(op'[x], d) <=> Embeds(op[x], d)
               /\ Dirty(op'[x], d) <=> Dirty(op[x], d)
               /\ op'[x].at = "insert" /\ op'[x].d = d
                    <=> op[x].at = "insert" /\ op[x].d = d
               /\ Embeds(op[x], d) => op'[x].t = op[x].t
    BY <1>2 DEF Touches, Writes, Embeds, Dirty
  <2>3. FreshAt(d)'
    BY <1>1, <2>1, <2>2 DEF FreshAt
  <2>4. IndexAt(d)'
    BY <1>1, <2>2 DEF IndexAt, Writers
  <2>5. VectorAt(d)'
    BY <1>1, <2>1, <2>2 DEF VectorAt
  <2>6. QED
    BY <2>3, <2>4, <2>5 DEF DocInv
<1>6. QED
  BY <1>4, <1>5 DEF IInv

(* The vault's one transaction. *)
LEMMA VaultWritesInv ==
  ASSUME IInv, NEW d \in VaultDoc, NEW t \in TextOrNone, VaultWrites(d, t),
         \/ UNCHANGED <<built, live>>
         \/ built' = FALSE /\ live' = [x \in Doc |-> NoText]
  PROVE  IInv'
<1>1. /\ text' = [text EXCEPT ![d] = t] /\ rows' = [rows EXCEPT ![d] = NoRows]
      /\ used' = used \cup {d} /\ Overtakes(d)
      /\ UNCHANGED <<op, stops, raced>> /\ edits' \in 0..MaxEdits /\ d \in Doc
  BY KbAssumption DEF VaultWrites, IInv, Types
<1>2. overtaken \subseteq overtaken' /\ overtaken' \subseteq Doc /\ used \subseteq used'
      /\ used' \subseteq Doc
  BY <1>1 DEF Overtakes, IInv, Types
<1>3. /\ text' \in [Doc -> TextOrNone] /\ rows' \in [Doc -> [Chunk -> TextOrNone]]
      /\ live' \in [Doc -> TextOrNone] /\ built' \in BOOLEAN
      /\ rows'[d] = NoRows /\ text'[d] = t
      /\ \A x \in Doc \ {d} : text'[x] = text[x] /\ rows'[x] = rows[x]
  <2>1. NoRows \in [Chunk -> TextOrNone] /\ NoText \in TextOrNone
    BY DEF NoRows, TextOrNone
  <2>2. QED
    BY <1>1, <2>1 DEF IInv, Types
<1>4. Types'
  BY <1>1, <1>2, <1>3 DEF IInv, Types
<1>5. ASSUME NEW x \in Doc PROVE FreshAt(x)'
  <2>1. FreshAt(x)
    BY DEF IInv, DocInv
  <2>2. CASE x = d
    <3>1. ASSUME NEW w \in Thread, op[w].at = "insert", op[w].d = d PROVE FALSE
      <4>1. PICK s \in OpType : s = op[w]
        BY DEF IInv, Types
      <4>2. s \in TextOp
        BY <3>1, <4>1, OpFacts
      <4>3. QED
        BY <3>1, <4>1, <4>2 DEF TextOp
    <3>2. QED
      BY <1>1, <2>2, <3>1 DEF FreshAt
  <2>3. CASE x # d
    BY <1>1, <1>2, <1>3, <2>1, <2>3 DEF FreshAt
  <2>4. QED
    BY <2>2, <2>3
<1>6. ASSUME NEW x \in Doc PROVE IndexAt(x)'
  <2>1. IndexAt(x)
    BY DEF IInv, DocInv
  <2>2. CASE x \in VaultDoc
    BY <2>2 DEF IndexAt
  <2>3. CASE x \notin VaultDoc
    <3>1. text'[x] = text[x] /\ op' = op /\ raced' = raced
      BY <1>1, <1>3, <2>3
    <3>2. CASE UNCHANGED <<built, live>>
      BY <2>1, <3>1, <3>2 DEF IndexAt
    <3>3. CASE built' = FALSE
      <4>1. \A w \in Thread : Knows(op[w], text[x], live[x], built)
              => Knows(op[w], text[x], live'[x], FALSE)
        BY DEF Knows
      <4>2. QED
        BY <2>1, <3>1, <3>3, <4>1 DEF IndexAt
    <3>4. QED
      BY <3>2, <3>3
  <2>4. QED
    BY <2>2, <2>3
<1>7. ASSUME NEW x \in Doc PROVE VectorAt(x)'
  <2>1. VectorAt(x)
    BY DEF IInv, DocInv
  <2>2. CASE x = d
    <3>1. \A i \in Chunk : rows'[d][i] = NoText
      BY <1>3 DEF NoRows
    <3>2. d \notin overtaken' => \A w \in Thread : ~Embeds(op[w], d)
      BY <1>1, OvertakesNone
    <3>3. QED
      BY <1>1, <2>2, <3>1, <3>2 DEF VectorAt
  <2>3. CASE x # d
    BY <1>1, <1>2, <1>3, <2>1, <2>3 DEF VectorAt
  <2>4. QED
    BY <2>2, <2>3
<1>8. QED
  BY <1>4, <1>5, <1>6, <1>7 DEF IInv, DocInv

-----------------------------------------------------------------------------
LEMMA Inductive ==
  /\ Init => IInv
  /\ IInv /\ [Next]_vars => IInv'
<1>1. ASSUME IInv, [Next]_vars PROVE IInv'
  <2>1. ASSUME NEW r \in Req, NEW d \in Doc,
               (\E t \in Text : Add(r, d, t) \/ Rename(r, d, t)) \/ Delete(r, d)
        PROVE  IInv'
    <3>1. r \in Thread
      BY DEF Thread
    <3>2. QED
      BY <1>1, <2>1, <3>1, AddInv, RenameInv, DeleteInv
  <2>2. ASSUME NEW w \in Thread, WriteStep(w) PROVE IInv'
    BY <1>1, <2>2, InsertInv, IndexAddedInv, UpdateInv, IndexRenamedInv, ClearEmbeddingsInv,
       DeleteRowsInv, DeleteDocumentInv, IndexDeletedInv DEF WriteStep
  <2>3. ASSUME NEW w \in Thread, EmbedStep(w) \/ StopEmbedding(w) PROVE IInv'
    BY <1>1, <2>3, FindMissingInv, PutChunkInv, StopEmbeddingInv DEF EmbedStep
  <2>4. ASSUME NEW w \in Embedder, NEW d \in Doc, Pick(w, d) PROVE IInv'
    BY <1>1, <2>4, PickInv DEF Thread
  <2>5. ASSUME NEW d \in VaultDoc, NEW t \in Text \cup {NoText},
               PassWrites(d, t) \/ RouteWrites(d, t)
        PROVE  IInv'
    <3>1. t \in TextOrNone
      BY DEF TextOrNone
    <3>2. QED
      BY <1>1, <2>5, <3>1, VaultWritesInv DEF PassWrites, RouteWrites
  <2>6. CASE Build \/ Relock
    BY <1>1, <2>6, BuildInv, RelockInv
  <2>7. CASE UNCHANGED vars
    <3>1. UNCHANGED <<text, rows, built, live, op, used, edits, stops, raced, overtaken>>
      BY <2>7 DEF vars
    <3>2. Types'
      BY <1>1, <3>1 DEF IInv, Types
    <3>3. \A d \in Doc : DocInv(d)'
      BY <1>1, <3>1 DEF IInv, DocInv, FreshAt, IndexAt, VectorAt
    <3>4. QED
      BY <3>2, <3>3 DEF IInv
  <2>8. QED
    BY <1>1, <2>1, <2>2, <2>3, <2>4, <2>5, <2>6, <2>7 DEF Next
<1>2. QED
  BY <1>1, InitInv

LEMMA Invariant == Spec => []IInv
BY Inductive, PTL DEF Spec

(* The types of the tables, the index and what every thread is doing.       *)
THEOREM Typing == Spec => []TypeOK
<1>1. ASSUME IInv PROVE TypeOK
  <2>1. ASSUME NEW w \in Thread
        PROVE  /\ op[w].at \in {"idle", "have", "put"} \cup Writing
               /\ op[w].at # "idle" => op[w].d \in Doc
               /\ op[w].at \in {"have", "put"} => op[w].t \in Text
               /\ op[w].at = "put" => op[w].missing \subseteq Chunk /\ op[w].missing # {}
    <3>1. PICK s \in OpType : s = op[w]
      BY <1>1 DEF IInv, Types
    <3>2. s.at # "idle" => s.d \in Doc
      BY OpFacts DEF TextOp, PlainOp, HaveOp, PutOp, Writing
    <3>3. s.at = "have" => s.t \in Text
      BY OpFacts DEF HaveOp
    <3>4. s.at = "put" => s.t \in Text /\ s.missing \subseteq Chunk /\ s.missing # {}
      BY OpFacts DEF PutOp
    <3>5. QED
      BY <3>1, <3>2, <3>3, <3>4, OpFacts
  <2>2. QED
    BY <1>1, <2>1 DEF IInv, Types, TypeOK
<1>2. QED
  BY <1>1, Invariant, PTL

(* However many requests are in flight, and whenever the first search       *)
(* builds it, the live index says of a document of the user what the table  *)
(* says once nobody is writing it: kb.add, rename and delete write the      *)
(* table first and tell the index after, and the index reads the table.    *)
THEOREM IndexFollows == Spec => []LiveIndexFollowsRequests
<1>1. ASSUME IInv PROVE LiveIndexFollowsRequests
  <2> SUFFICES ASSUME NEW d \in Doc \ VaultDoc, built, Writers(d) = {}, d \notin raced
      PROVE  live[d] = text[d]
    BY DEF LiveIndexFollowsRequests
  <2>1. \A w \in Thread : ~Writes(op[w], d)
    BY DEF Writers
  <2>2. QED
    BY <1>1, <2>1 DEF IInv, DocInv, IndexAt
<1>2. QED
  BY <1>1, Invariant, PTL

(* However many embedders are at the documents, and however often they are  *)
(* stopped, a stored vector describes the text of its document, unless a    *)
(* write overtook an embedder at it (kb_routes drops the vectors of a       *)
(* renamed document, vault_sync those of a replaced one).                   *)
THEOREM VectorsDescribe == Spec => []VectorsDescribeTheText
<1>1. ASSUME IInv PROVE VectorsDescribeTheText
  <2> SUFFICES ASSUME NEW d \in Doc, text[d] # NoText, Writers(d) = {}, d \notin overtaken
      PROVE  \A i \in Chunk : rows[d][i] \in {text[d], NoText}
    BY DEF VectorsDescribeTheText
  <2>1. \A w \in Thread : ~Dirty(op[w], d)
    BY DEF Writers, Writes, Dirty
  <2>2. QED
    BY <1>1, <2>1 DEF IInv, DocInv, VectorAt
<1>2. QED
  BY <1>1, Invariant, PTL
=============================================================================
