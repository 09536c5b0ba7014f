------------------------------ MODULE KbIndex -------------------------------
(***************************************************************************)
(* The knowledge base: the documents table, the embeddings table, and the  *)
(* live search index the requests share (app.state.kb's SearchIndex, built *)
(* on first use and then kept up to date by each request's own calls).     *)
(* Requests write a document in several statements and tell the index      *)
(* afterwards; embedders (the scheduler's pass, the reindex route) compute *)
(* the vectors of a text they read earlier, one chunk at a time; the vault *)
(* pass adds, replaces and deletes the copies a vault owns through a       *)
(* KnowledgeBase, and so an index, of its own.                             *)
(***************************************************************************)
EXTENDS Naturals, FiniteSetsExt

CONSTANTS
  Doc,          \* document ids
  VaultDoc,     \* the ids minted by a vault import, which requests may not edit
  Text,         \* what a document says: title and content
  LongText,     \* texts of two chunks; the others have one
  Req,          \* requests of the knowledge base pages
  Embedder,     \* threads that embed pending documents: the reindex route's, ...
  Pass,         \* ... and the scheduler's
  MaxEdits,     \* bound on the writes of documents
  MaxStops      \* bound on the passes that end before their document is done

ASSUME KbAssumption ==
  /\ VaultDoc \subseteq Doc /\ LongText \subseteq Text
  /\ Req \cap Embedder = {} /\ Pass \in Embedder /\ MaxEdits \in Nat /\ MaxStops \in Nat

VARIABLES
  text,     \* [Doc -> the stored text, or NoText]
  rows,     \* [Doc -> [Chunk -> the text the stored vector describes, or NoText]]
  built,    \* whether the live index has been built
  live,     \* [Doc -> the text the live index holds, or NoText]
  op,       \* [Thread -> what it is doing]
  used,     \* ids that were minted
  edits, stops,
  (* History. *)
  raced,    \* documents two requests wrote at once, or one across a lock
  overtaken \* documents that were written while an embedder was at them

vars == <<text, rows, built, live, op, used, edits, stops, raced, overtaken>>

Thread == Req \cup Embedder
Chunk == {0, 1}
NoText == "no text"
NoRows == [i \in Chunk |-> NoText]
Idle == [at |-> "idle"]

ChunkCount(t) == IF t \in LongText THEN 2 ELSE 1
ChunksOf_OneMore(t) == 0..ChunkCount(t)
ChunksOf_ButLast(t) == 0..(ChunkCount(t) - 2)
ChunksOf(t) == 0..(ChunkCount(t) - 1)

-----------------------------------------------------------------------------
(* kb.docs_needing_embedding: no row, or fewer than the total the rows name. *)
Have(d) == {i \in Chunk : rows[d][i] # NoText}
Pending(d) ==
  /\ text[d] # NoText
  /\ Have(d) = {} \/ \E i \in Have(d) : Cardinality(Have(d)) < ChunkCount(rows[d][i])

Writes(s, d) == s.at \notin {"idle", "have", "put"} /\ s.d = d
Embeds(s, d) == s.at \in {"index added", "have", "put"} /\ s.d = d
Writers(d) == {w \in Thread : Writes(op[w], d)}
Embedders(d) == {w \in Thread : Embeds(op[w], d)}

Goto(w, s) == op' = [op EXCEPT ![w] = s]
Overtakes(d) == overtaken' = overtaken \cup {x \in {d} : Embedders(d) # {}}

(* SearchIndex.add_document and remove_document do nothing before the index *)
(* is built; a request from before a lock talks to an index nobody reads.   *)
IndexHolds(w, d, t) ==
  live' = IF built /\ ~op[w].old THEN [live EXCEPT ![d] = t] ELSE live

Init ==
  /\ text = [d \in Doc |-> NoText] /\ rows = [d \in Doc |-> NoRows]
  /\ built = FALSE /\ live = [d \in Doc |-> NoText]
  /\ op = [w \in Thread |-> Idle]
  /\ used = {} /\ edits = 0 /\ stops = 0 /\ raced = {} /\ overtaken = {}

-----------------------------------------------------------------------------
(* A request begins: rename reads the document, add mints an id.            *)
Starts(r, d, s) ==
  /\ op[r] = Idle /\ edits < MaxEdits /\ edits' = edits + 1
  /\ d \in Doc \ VaultDoc
  /\ Goto(r, s)
  /\ raced' = raced \cup {x \in {d} : Writers(d) # {}}

Add(r, d, t) ==
  /\ d \notin used /\ used' = used \cup {d}
  /\ Starts(r, d, [at |-> "insert", d |-> d, t |-> t, old |-> FALSE])
  /\ UNCHANGED <<text, rows, built, live, stops, overtaken>>

Rename(r, d, t) ==
  /\ text[d] # NoText
  /\ Starts(r, d, [at |-> "update", d |-> d, t |-> t, old |-> FALSE])
  /\ UNCHANGED <<text, rows, built, live, used, stops, overtaken>>

Delete(r, d) ==
  /\ text[d] # NoText
  /\ Starts(r, d, [at |-> "rows", d |-> d, old |-> FALSE])
  /\ UNCHANGED <<text, rows, built, live, used, stops, overtaken>>

(* kb.add: INSERT, then the live index; ingest.store may go on to embed the *)
(* new document within the request.                                         *)
Insert(w) ==
  LET s == op[w] IN
  /\ s.at = "insert"
  /\ text' = [text EXCEPT ![s.d] = s.t]
  /\ Goto(w, [s EXCEPT !.at = "index added"])
  /\ UNCHANGED <<rows, built, live, used, edits, stops, raced, overtaken>>

IndexAdded(w) ==
  LET s == op[w] IN
  /\ s.at = "index added"
  /\ IndexHolds(w, s.d, s.t)
  /\ \/ Goto(w, Idle)
     \/ Goto(w, [at |-> "have", d |-> s.d, t |-> s.t])
  /\ UNCHANGED <<text, rows, built, used, edits, stops, raced, overtaken>>

(* kb.rename: UPDATE (of no row, if the document is gone meanwhile), then   *)
(* the live index; the route then drops the vectors of the old title.       *)
Update(w) ==
  LET s == op[w] IN
  /\ s.at = "update"
  /\ text' = IF text[s.d] = NoText THEN text ELSE [text EXCEPT ![s.d] = s.t]
  /\ Goto(w, [s EXCEPT !.at = "index renamed"])
  /\ Overtakes(s.d)
  /\ UNCHANGED <<rows, built, live, used, edits, stops, raced>>

IndexRenamed_Skipped(w) ==
  LET s == op[w] IN
  /\ s.at = "index renamed"
  /\ Goto(w, [s EXCEPT !.at = "clear"])
  /\ UNCHANGED <<text, rows, built, live, used, edits, stops, raced, overtaken>>
IndexRenamed(w) ==
  LET s == op[w] IN
  /\ s.at = "index renamed"
  /\ IndexHolds(w, s.d, s.t)
  /\ Goto(w, [s EXCEPT !.at = "clear"])
  /\ UNCHANGED <<text, rows, built, used, edits, stops, raced, overtaken>>

(* kb.clear_embeddings.                                                     *)
ClearEmbeddings_Kept(w) ==
  LET s == op[w] IN
  /\ s.at = "clear"
  /\ Goto(w, Idle) /\ Overtakes(s.d)
  /\ UNCHANGED <<text, rows, built, live, used, edits, stops, raced>>
ClearEmbeddings(w) ==
  LET s == op[w] IN
  /\ s.at = "clear"
  /\ rows' = [rows EXCEPT ![s.d] = NoRows]
  /\ Goto(w, Idle) /\ Overtakes(s.d)
  /\ UNCHANGED <<text, built, live, used, edits, stops, raced>>

(* kb.delete: the vectors, the document, the live index.                    *)
DeleteRows(w) ==
  LET s == op[w] IN
  /\ s.at = "rows"
  /\ rows' = [rows EXCEPT ![s.d] = NoRows]
  /\ Goto(w, [s EXCEPT !.at = "document"])
  /\ Overtakes(s.d)
  /\ UNCHANGED <<text, built, live, used, edits, stops, raced>>

DeleteDocument(w) ==
  LET s == op[w] IN
  /\ s.at = "document"
  /\ text' = [text EXCEPT ![s.d] = NoText]
  /\ Goto(w, [s EXCEPT !.at = "index deleted"])
  /\ Overtakes(s.d)
  /\ UNCHANGED <<rows, built, live, used, edits, stops, raced>>

IndexDeleted(w) ==
  LET s == op[w] IN
  /\ s.at = "index deleted"
  /\ IndexHolds(w, s.d, NoText)
  /\ Goto(w, Idle)
  /\ UNCHANGED <<text, rows, built, used, edits, stops, raced, overtaken>>

-----------------------------------------------------------------------------
(* The first search builds the live index from the documents table; a lock  *)
(* and unlock replaces it, built or not, with one that is not built.        *)
Build ==
  /\ ~built /\ built' = TRUE /\ live' = text
  /\ raced' = {d \in raced : Writers(d) # {}}
  /\ UNCHANGED <<text, rows, op, used, edits, stops, overtaken>>

Relock ==
  /\ built' = FALSE /\ live' = [d \in Doc |-> NoText]
  /\ op' = [w \in Thread |->
              IF op[w].at \in {"idle", "have", "put"} THEN op[w]
              ELSE [op[w] EXCEPT !.old = TRUE]]
  /\ raced' = raced \cup {d \in Doc : Writers(d) # {}}
  /\ UNCHANGED <<text, rows, used, edits, stops, overtaken>>

(* vault_sync._write: one transaction; kb.replace deletes the old vectors.   *)
VaultWrites(d, t) ==
  /\ d \in VaultDoc /\ edits < MaxEdits /\ edits' = edits + 1
  /\ d \notin used \/ text[d] # NoText
  /\ t # NoText \/ text[d] # NoText
  /\ text' = [text EXCEPT ![d] = t]
  /\ rows' = [rows EXCEPT ![d] = NoRows]
  /\ used' = used \cup {d}
  /\ Overtakes(d)
  /\ UNCHANGED <<op, stops, raced>>

(* The vault pass shares the scheduler's thread, and the index it drops is  *)
(* its own; the update route drops the live one.                            *)
PassWrites(d, t) == op[Pass] = Idle /\ VaultWrites(d, t) /\ UNCHANGED <<built, live>>
RouteWrites(d, t) ==
  VaultWrites(d, t) /\ built' = FALSE /\ live' = [x \in Doc |-> NoText]

-----------------------------------------------------------------------------
(* ingest.reindex_pending: a pending document is read, ...                  *)
Pick(w, d) ==
  /\ w \in Embedder /\ op[w] = Idle /\ Pending(d)
  /\ Goto(w, [at |-> "have", d |-> d, t |-> text[d]])
  /\ UNCHANGED <<text, rows, built, live, used, edits, stops, raced, overtaken>>

(* ... embed_doc looks for the chunks that are missing, ...                 *)
FindMissing(w) ==
  LET s == op[w]
      missing == ChunksOf(s.t) \ Have(s.d) IN
  /\ s.at = "have"
  /\ Goto(w, IF missing = {} THEN Idle
             ELSE [at |-> "put", d |-> s.d, t |-> s.t, missing |-> missing])
  /\ UNCHANGED <<text, rows, built, live, used, edits, stops, raced, overtaken>>

(* ... and stores them one by one, as vectors of the text it read; when the *)
(* last one is stored the run is published to its own index.                *)
PutChunk(w) ==
  LET s == op[w]
      i == Min(s.missing) IN
  /\ s.at = "put"
  /\ rows' = [rows EXCEPT ![s.d][i] = s.t]
  /\ Goto(w, IF s.missing = {i} THEN Idle ELSE [s EXCEPT !.missing = @ \ {i}])
  /\ UNCHANGED <<text, built, live, used, edits, stops, raced, overtaken>>

(* The model fails or the budget of the pass is spent.                      *)
StopEmbedding(w) ==
  /\ op[w].at = "put" /\ stops < MaxStops /\ stops' = stops + 1
  /\ Goto(w, Idle)
  /\ UNCHANGED <<text, rows, built, live, used, edits, raced, overtaken>>

-----------------------------------------------------------------------------
WriteStep(w) ==
  \/ Insert(w) \/ IndexAdded(w) \/ Update(w) \/ IndexRenamed(w) \/ ClearEmbeddings(w)
  \/ DeleteRows(w) \/ DeleteDocument(w) \/ IndexDeleted(w)

EmbedStep(w) == FindMissing(w) \/ PutChunk(w)

Next ==
  \/ \E r \in Req, d \in Doc :
       \/ \E t \in Text : Add(r, d, t) \/ Rename(r, d, t)
       \/ Delete(r, d)
  \/ \E w \in Thread : WriteStep(w) \/ EmbedStep(w) \/ StopEmbedding(w)
  \/ \E w \in Embedder, d \in Doc : Pick(w, d)
  \/ \E d \in VaultDoc, t \in Text \cup {NoText} : PassWrites(d, t) \/ RouteWrites(d, t)
  \/ Build \/ Relock

Spec == Init /\ [][Next]_vars

(* A request runs to its end; a pass goes through the whole list of pending *)
(* documents, so that none is passed over for ever, and a model call that   *)
(* is not counted as a stop returns.                                        *)
FairSpec ==
  /\ Spec
  /\ \A r \in Req : WF_vars(WriteStep(r) \/ EmbedStep(r))
  /\ \A w \in Embedder :
       WF_vars(EmbedStep(w)) /\ \A d \in Doc : SF_vars(Pick(w, d))

-----------------------------------------------------------------------------
Writing == {"insert", "index added", "update", "index renamed", "clear", "rows",
            "document", "index deleted"}
TextOrNone == Text \cup {NoText}

TypeOK ==
  /\ text \in [Doc -> TextOrNone] /\ live \in [Doc -> TextOrNone]
  /\ rows \in [Doc -> [Chunk -> TextOrNone]]
  /\ built \in BOOLEAN /\ used \subseteq Doc
  /\ edits \in 0..MaxEdits /\ stops \in 0..MaxStops
  /\ raced \subseteq Doc /\ overtaken \subseteq Doc
  /\ \A w \in Thread :
       /\ op[w].at \in {"idle", "have", "put"} \cup Writing
       /\ op[w].at # "idle" => op[w].d \in Doc
       /\ op[w].at \in {"have", "put"} => op[w].t \in Text
       /\ op[w].at = "put" => op[w].missing \subseteq Chunk /\ op[w].missing # {}

(* What the live index says of a document the requests own is what is       *)
(* stored, once nobody is writing it, whenever the index was built and      *)
(* whatever was in flight then: only two requests at one document, or a     *)
(* request that a lock overtakes, can make the two drift apart.             *)
LiveIndexFollowsRequests ==
  \A d \in Doc \ VaultDoc :
    (built /\ Writers(d) = {} /\ d \notin raced) => live[d] = text[d]

(* No vector describes a text that is gone, unless the document was written *)
(* while an embedder was at it.                                             *)
VectorsDescribeTheText ==
  \A d \in Doc : (text[d] # NoText /\ Writers(d) = {} /\ d \notin overtaken) =>
    \A i \in Chunk : rows[d][i] \in {text[d], NoText}

(* A document whose vectors are not those of its text is pending once it is *)
(* at rest (kb.replace: docs_needing_embedding "then surfaces it and the    *)
(* background indexer re-embeds").  The code breaks it.                     *)
ReplacedIsReembedded ==
  \A d \in Doc :
    (text[d] # NoText /\ Writers(d) = {} /\ Embedders(d) = {}
      /\ \E i \in Chunk : rows[d][i] \notin {text[d], NoText}) => Pending(d)

(* The backlog drains: a pending document is embedded or deleted, unless a  *)
(* write overtook an embedder at it.                                        *)
PendingIsEmbedded ==
  \A d \in Doc : Pending(d) ~> (~Pending(d) \/ d \in overtaken)
=============================================================================
