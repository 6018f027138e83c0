---------------------------- MODULE MemoryGraph ----------------------------
(***************************************************************************)
(* The graph of memory notes that the memory actor (actor.rs) of each      *)
(* server keeps in the database: notes, one embedding per note, links.     *)
(*                                                                         *)
(* An actor does one task at a time.  To add a note it asks the language   *)
(* model to analyse the turn, looks up the nearest notes, asks the model   *)
(* how the new note and its neighbours are connected and should change,    *)
(* re-encodes what changed and commits everything in one transaction.  To  *)
(* answer a query it looks up the nearest notes, their links and the notes *)
(* both lead to, in three queries.  The actors of several servers          *)
(* interleave between these steps.                                         *)
(*                                                                         *)
(* A note is represented by its context and tags, the columns that         *)
(* change, as one value of Metadata; its content and keywords never do.    *)
(* An embedding is the value it was made from.  Which notes are nearest is *)
(* left open, and so is all that the language model says: it may name      *)
(* notes it was not shown, name one twice, and name the note that does not *)
(* exist yet.                                                              *)
(*                                                                         *)
(* A definition introduced by "Bug:" is not part of the model: it is the   *)
(* next definition with a plausible mistake, which the properties notice.  *)
(***************************************************************************)
EXTENDS Naturals, Sequences, FiniteSets, SequencesExt

CONSTANTS
  Servers,        \* the server processes
  Metadata,       \* values of a note's context and tags
  NoAddition,     \* what an actor has prepared when it adds no note
  NearestCount,   \* server.nearest_neighbor_count
  MaxNotes,       \* bound on the number of notes
  MaxUpdates      \* bound on the neighbour updates in an answer of the model

ASSUME NearestCountPositive == NearestCount \in Nat \ {0}
ASSUME BoundsNat == MaxNotes \in Nat /\ MaxUpdates \in Nat

VARIABLES
  notes,   \* table memories: the notes in the order of their ids
  index,   \* table vec_memories: the note each embedding was made from
  links,   \* table memory_links
  pc,      \* where each actor is
  add,     \* the note each actor is about to add
  query    \* the query each actor is answering

vars == <<notes, index, links, pc, add, query>>

Ids == 1..MaxNotes
Update == [id : Ids, note : Metadata]

\* What one task has found out and prepared; near is what the actor read of the
\* neighbours.
Addition ==
  [note : Metadata, embedded : Metadata, near : UNION {[S -> Metadata] : S \in SUBSET Ids},
   linked : SUBSET Ids, updates : UNION {[S -> Metadata] : S \in SUBSET Ids}]

NewAddition(note) ==
  LET Nothing == [i \in {} |-> note]
  IN  [note |-> note, embedded |-> note, near |-> Nothing, linked |-> {}, updates |-> Nothing]

NoQuery == [top |-> <<>>, seen |-> {}, ids |-> <<>>]

AddPhases == {"evolve", "persist"}
QueryPhases == {"links", "fetch", "answer"}

Init ==
  /\ notes = <<>>
  /\ index = <<>>
  /\ links = {}
  /\ pc = [s \in Servers |-> "idle"]
  /\ add = [s \in Servers |-> NoAddition]
  /\ query = [s \in Servers |-> NoQuery]

-----------------------------------------------------------------------------
(* Adding the note of a turn.                                              *)

Goto(s, from, to) == pc[s] = from /\ pc' = [pc EXCEPT ![s] = to]

\* All the notes that have an embedding, if there are fewer than NearestCount.
IsNearest(S) ==
  Cardinality(S) = IF Len(index) < NearestCount THEN Len(index) ELSE NearestCount

\* The turn is analysed and its note encoded, and find_nearest_memories looks up
\* the neighbours.  Without neighbours there is nothing to evolve.
FindNeighbors(s, note) ==
  \E S \in SUBSET DOMAIN index :
    /\ Len(notes) < MaxNotes
    /\ IsNearest(S)
    /\ Goto(s, "idle", IF S = {} THEN "persist" ELSE "evolve")
    /\ add' = [add EXCEPT ![s] = [NewAddition(note) EXCEPT !.near = [i \in S |-> notes[i]]]]
    /\ UNCHANGED <<notes, index, links, query>>

\* Bug: connections to notes that are no neighbours are taken.
LinkAll(near, connections) == connections

\* Connections to notes that are no neighbours are ignored.
Linked(near, connections) == connections \cap DOMAIN near

\* The positions in the model's answer that change what was read of a neighbour.
Changing(near, evolved) ==
  {k \in DOMAIN evolved : evolved[k].id \in DOMAIN near /\ evolved[k].note # near[evolved[k].id]}

Latest(S) == CHOOSE k \in S : \A j \in S : j <= k

\* What each neighbour becomes: they are updated in order, so the last one counts.
NeighborUpdates(near, evolved) ==
  LET Of(i) == {k \in Changing(near, evolved) : evolved[k].id = i}
  IN  [i \in {evolved[k].id : k \in Changing(near, evolved)} |-> evolved[Latest(Of(i))].note]

\* Bug: the embedding is not made again when the tags of the note are refined.
RetagOnly(a, note) == [a EXCEPT !.note = note]

\* The note gets the tags the model refined and is encoded again.
Retag(a, note) == [a EXCEPT !.note = note, !.embedded = note]

\* The answer of the language model; note is the one it was asked about if the
\* model refines no tags.
EvolveGraph(s, connections, note, evolved) ==
  LET near == add[s].near
  IN  /\ Goto(s, "evolve", "persist")
      /\ Cardinality(Changing(near, evolved)) <= Cardinality(DOMAIN near)
      /\ add' = [add EXCEPT ![s] = [Retag(@, note) EXCEPT !.linked = Linked(near, connections),
                                                          !.updates = NeighborUpdates(near, evolved)]]
      /\ UNCHANGED <<notes, index, links, query>>

\* More updates than neighbours, as when the model names one twice: the turn fails.
TooManyUpdates(s, evolved) ==
  /\ Goto(s, "evolve", "idle")
  /\ Cardinality(Changing(add[s].near, evolved)) > Cardinality(DOMAIN add[s].near)
  /\ add' = [add EXCEPT ![s] = NoAddition]
  /\ UNCHANGED <<notes, index, links, query>>

Updated(rows, updates) ==
  [i \in DOMAIN rows |-> IF i \in DOMAIN updates THEN updates[i] ELSE rows[i]]

\* Bug: neighbours keep the embedding of what they were.
Reindexed(rows, updates) == rows

\* UPDATE vec_memories.
UpdatedIndex(rows, updates) == Updated(rows, updates)

\* Bug: only the link from the new note is inserted.
OneWayLinks(i, S) == {<<i, k>> : k \in S}

\* insert_bidirectional_links.
BothLinks(i, S) == {<<i, k>> : k \in S} \cup {<<k, i>> : k \in S}

\* The transaction: the note, its embedding, its links, its neighbours.
PersistNote(s) ==
  LET a == add[s]  id == Len(notes) + 1
  IN  /\ Goto(s, "persist", "idle")
      /\ id <= MaxNotes
      /\ notes' = Updated(Append(notes, a.note), a.updates)
      /\ index' = UpdatedIndex(Append(index, a.embedded), a.updates)
      /\ links' = links \cup BothLinks(id, a.linked)
      /\ add' = [add EXCEPT ![s] = NoAddition]
      /\ UNCHANGED query

\* The model, the encoder or the database fails, or the turn is no longer this
\* server's: nothing is written.
AddFails(s) ==
  /\ pc[s] \in AddPhases
  /\ pc' = [pc EXCEPT ![s] = "idle"]
  /\ add' = [add EXCEPT ![s] = NoAddition]
  /\ UNCHANGED <<notes, index, links, query>>

-----------------------------------------------------------------------------
(* Answering a query.                                                      *)

\* find_nearest_neighbors, in the order of the distance.
FindNearest(s) ==
  /\ Goto(s, "idle", "links")
  /\ \E S \in SUBSET DOMAIN index :
       /\ S # {} /\ IsNearest(S)
       /\ \E top \in SetToSeqs(S) :
            query' = [query EXCEPT ![s] = [NoQuery EXCEPT !.top = top]]
  /\ UNCHANGED <<notes, index, links, add>>

\* get_links_for_ids.
ReadLinks(s) ==
  /\ Goto(s, "links", "fetch")
  /\ query' = [query EXCEPT ![s].seen = {l \in links : l[1] \in ToSet(query[s].top)}]
  /\ UNCHANGED <<notes, index, links, add>>

\* An error while the links are read counts as no links.
ReadLinksFails(s) ==
  /\ Goto(s, "links", "fetch")
  /\ UNCHANGED <<notes, index, links, add, query>>

\* In the order of the database, or of a sort.
Ascending(S) == CHOOSE seq \in SetToSeqs(S) : \A j, k \in DOMAIN seq : j < k => seq[j] < seq[k]

\* Bug: a note that several notes link to is returned several times.
AllTargets(ids, targets) == targets

\* The set seen keeps out what is among the ids already.
NewTargets(ids, targets) == targets \ ToSet(ids)

\* The nearest notes in order, then the notes each of them links to, each once.
OrderedRetrievalIds(top, seen) ==
  LET Targets(id) == {l[2] : l \in {m \in seen : m[1] = id}}
      Extended[k \in 0..Len(top)] ==
        IF k = 0 THEN top
        ELSE Extended[k - 1] \o Ascending(NewTargets(Extended[k - 1], Targets(top[k])))
  IN  Extended[Len(top)]

\* get_memories returns the rows that exist, and they are put in the order of ids.
SortRetrievalRows(ids, rows) ==
  LET positions == Ascending({k \in DOMAIN ids : ids[k] \in rows})
  IN  [k \in DOMAIN positions |-> ids[positions[k]]]

FetchNotes(s) ==
  LET ids == OrderedRetrievalIds(query[s].top, query[s].seen)
  IN  /\ Goto(s, "fetch", "answer")
      /\ query' = [query EXCEPT ![s].ids = SortRetrievalRows(ids, DOMAIN notes)]
      /\ UNCHANGED <<notes, index, links, add>>

Answer(s) ==
  /\ Goto(s, "answer", "idle")
  /\ query' = [query EXCEPT ![s] = NoQuery]
  /\ UNCHANGED <<notes, index, links, add>>

Add(s) ==
  \/ \E note \in Metadata : FindNeighbors(s, note)
  \/ /\ pc[s] = "evolve"
     /\ \E evolved \in BoundedSeq(Update, MaxUpdates) :
          \/ \E connections \in SUBSET Ids : \E note \in Metadata :
               EvolveGraph(s, connections, note, evolved)
          \/ TooManyUpdates(s, evolved)
  \/ PersistNote(s)
  \/ AddFails(s)

Retrieve(s) == FindNearest(s) \/ ReadLinks(s) \/ ReadLinksFails(s) \/ FetchNotes(s) \/ Answer(s)

Next == \E s \in Servers : Add(s) \/ Retrieve(s)

Spec == Init /\ [][Next]_vars

-----------------------------------------------------------------------------
(* Properties.                                                             *)

\* Type invariant.
TypeOK ==
  /\ notes \in Seq(Metadata)
  /\ index \in Seq(Metadata)
  /\ links \subseteq Ids \X Ids
  /\ pc \in [Servers -> {"idle"} \cup AddPhases \cup QueryPhases]
  /\ add \in [Servers -> Addition \cup {NoAddition}]
  /\ query \in [Servers -> [top : Seq(Ids), seen : SUBSET (Ids \X Ids), ids : Seq(Ids)]]

\* A query finds a note by what the note is now: its embedding was made from its
\* present context and tags, however models refine tags, update neighbours, name a
\* neighbour twice, and whatever other servers commit in between.
EmbeddingMatchesNote == index = notes

\* Links lead both ways, from a note to another, and to notes that exist: never
\* to the note itself, although the model may guess its id.
LinksSound ==
  \A l \in links :
    /\ l[1] # l[2]
    /\ l[1] \in DOMAIN notes /\ l[2] \in DOMAIN notes
    /\ <<l[2], l[1]>> \in links

\* The neighbours an actor knows, and the notes it will link to and update, exist;
\* the embedding it will store is that of the note.
AdditionSound(a) ==
  /\ a \in Addition
  /\ DOMAIN a.near \subseteq DOMAIN notes
  /\ a.linked \subseteq DOMAIN notes
  /\ a.embedded = a.note

\* The notes that a query has found exist, as do those that they link to; an answer is
\* what was found.
QuerySound(phase, a) ==
  /\ a.top \in Seq(DOMAIN notes)
  /\ \A j, k \in DOMAIN a.top : a.top[j] = a.top[k] => j = k
  /\ a.seen \subseteq ToSet(a.top) \X DOMAIN notes
  /\ phase = "answer" => a.ids = OrderedRetrievalIds(a.top, a.seen)

\* The inductive invariant.
GraphInv ==
  /\ TypeOK
  /\ EmbeddingMatchesNote
  /\ LinksSound
  /\ Len(notes) <= MaxNotes
  /\ \A s \in Servers : pc[s] \in AddPhases => AdditionSound(add[s])
  /\ \A s \in Servers : pc[s] \in QueryPhases => QuerySound(pc[s], query[s])

\* The least position in top of a note that links to id.
Rank(a, id) ==
  CHOOSE k \in DOMAIN a.top :
    /\ <<a.top[k], id>> \in a.seen
    /\ \A j \in 1..(k - 1) : <<a.top[j], id>> \notin a.seen

\* An answer has the nearest notes first and then all the notes they link to,
\* each once, those of a nearer note before those of a farther one; none is lost
\* although the three queries see the graph at different times.
AnswerInOrder ==
  \A s \in Servers : pc[s] = "answer" =>
    LET a == query[s]
        linkedTo == {l[2] : l \in a.seen} \ ToSet(a.top)
        After(j, k) == \/ Rank(a, a.ids[j]) > Rank(a, a.ids[k])
                       \/ Rank(a, a.ids[j]) = Rank(a, a.ids[k]) /\ a.ids[j] > a.ids[k]
    IN  /\ IsPrefix(a.top, a.ids)
        /\ ToSet(a.ids) = ToSet(a.top) \cup linkedTo
        /\ Len(a.ids) = Len(a.top) + Cardinality(linkedTo)
        /\ \A j, k \in (Len(a.top) + 1)..Len(a.ids) : j > k => After(j, k)
=============================================================================
